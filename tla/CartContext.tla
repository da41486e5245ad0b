----------------------------- MODULE CartContext -----------------------------
(***************************************************************************)
(* The cart as the browser shows it: the optimistic updates of             *)
(* frontend/src/contexts/CartContext.tsx, with the pages that call it and  *)
(* the requests of lib/api.ts.                                             *)
(*                                                                         *)
(* A click changes the cart that is shown at once and then sends its       *)
(* request.  When that is answered, the cart is fetched until it reflects  *)
(* all pending operations, or maxRetries times: the read model lags behind *)
(* the stream of the cart.  A request that fails puts the cart of before   *)
(* the click back.  Requests, answers and timers of several clicks         *)
(* interleave.                                                             *)
(*                                                                         *)
(* A cart is the quantity of every product, null the empty cart.  What is  *)
(* saved in the session storage is what is shown, and is removed by the    *)
(* first effect of every page load, when no user is known yet.             *)
(***************************************************************************)
EXTENDS Integers, SequencesExt

CONSTANTS
    Products,
    MaxClicks,      \* bound: additions, removals and orders
    MaxHastyClicks, \* bound: those of a user who is not calm
    MaxLoads,       \* bound: page loads
    maxRetries      \* of syncWithServer: 10

ASSUME BoundsAssumption ==
    /\ {MaxClicks, MaxHastyClicks, MaxLoads} \subseteq Nat
    /\ maxRetries \in Nat \ {0}

VARIABLES
    calm,       \* the user waits for one click to end before the next, no
                \* answer is lost and the projector keeps up: chosen once
    stream,     \* the events of the cart
    inRow,      \* how many of them its row in read_carts shows
    cart,       \* the cart that the browser shows
    pending,    \* pendingOperations, as the clicks that they come from
    call        \* call[c]: where it is, what it is to do, the cart of before,
                \* the cart that was fetched and how often it was fetched

cartVars == <<calm, stream, inRow, cart, pending, call>>

Clicks == 1 .. MaxClicks
Loads == MaxClicks + 1 .. MaxClicks + MaxLoads
Calls == Clicks \cup Loads

Carts == [Products -> Nat]
Empty == [p \in Products |-> 0]

Op(type, p) == [type |-> type, product |-> p]
NoOp == [type |-> "none"]
Order == [type |-> "order"]
Operations == {Op(type, p) : type \in {"add", "remove"}, p \in Products}

(* What an operation does to a cart, in the browser as in the read model.  *)
Applied(shown, op) ==
    CASE op.type = "add"    -> [shown EXCEPT ![op.product] = @ + 1]
      [] op.type = "remove" -> [shown EXCEPT ![op.product] = 0]
      [] op.type = "order"  -> Empty

CartAfter(n) == FoldLeft(Applied, Empty, SubSeq(stream, 1, n))
ServerCart == CartAfter(inRow)
RecordedCart == CartAfter(Len(stream))

NewCall == [pc |-> "new", op |-> NoOp, before |-> Empty, answer |-> Empty, tries |-> 0]

CartInit ==
    /\ calm \in BOOLEAN
    /\ stream = <<>> /\ inRow = 0
    /\ cart = Empty /\ pending = {}
    /\ call = [c \in Calls |-> NewCall]

At(c, here) == call[c].pc = here
Goto(c, there) == call' = [call EXCEPT ![c].pc = there]
End(c) == call' = [call EXCEPT ![c] = [NewCall EXCEPT !.pc = "done"]]

Ended == {"done", "cutoff"}
Quiet == \A c \in Calls : call[c].pc \in Ended \cup {"new"}

(* A calm user does nothing either before an order has left the cart.      *)
MayStart(c) ==
    /\ At(c, "new")
    /\ c - 1 \in Clicks /\ c \in Clicks => ~At(c - 1, "new")
    /\ c \in Clicks => calm \/ c <= MaxHastyClicks
    /\ calm => Quiet /\ \A i \in inRow + 1 .. Len(stream) : stream[i] # Order

-----------------------------------------------------------------------------
(***************************************************************************)
(* Clicks and their requests.                                              *)
(***************************************************************************)
Click(c) ==
    /\ MayStart(c)
    /\ \E op \in Operations :
          /\ op.type = "remove" => cart[op.product] > 0
          /\ cart' = Applied(cart, op)
          /\ call' = [call EXCEPT ![c] = [NewCall EXCEPT !.pc = "sent", !.op = op, !.before = cart]]
    /\ pending' = pending \cup {c}
    /\ UNCHANGED <<calm, stream, inRow>>

ClickOrder(c) ==
    /\ MayStart(c)
    /\ cart # Empty
    /\ call' = [call EXCEPT ![c] = [NewCall EXCEPT !.pc = "sent", !.op = Order]]
    /\ UNCHANGED <<calm, stream, inRow, cart, pending>>

(* The request is carried out, or refused.  The answer may be an error     *)
(* though the event was recorded; PlaceOrder may succeed though it could   *)
(* not clear the cart.  Nobody waits for the answer to an orphan.          *)
Handle(c) ==
    /\ call[c].pc \in {"sent", "orphan"}
    /\ \E recorded, accepted \in BOOLEAN :
          /\ call[c].op = Order /\ (accepted \/ recorded) => ServerCart # Empty
          /\ calm => recorded = accepted
          /\ accepted => recorded \/ call[c].op = Order
          /\ stream' = IF recorded THEN Append(stream, call[c].op) ELSE stream
          /\ IF At(c, "orphan") THEN End(c)
             ELSE Goto(c, IF accepted THEN "accepted" ELSE "rejected")
    /\ UNCHANGED <<calm, inRow, cart, pending>>

(* The timer of the first fetch is set.                                    *)
Accepted(c) ==
    /\ At(c, "accepted")
    /\ call[c].op # Order
    /\ call' = [call EXCEPT ![c].pc = "fetch", ![c].before = Empty]
    /\ UNCHANGED <<calm, stream, inRow, cart, pending>>

(* clearCart.                                                              *)
OrderAccepted(c) ==
    /\ At(c, "accepted")
    /\ call[c].op = Order
    /\ End(c)
    /\ cart' = Empty
    /\ UNCHANGED <<calm, stream, inRow, pending>>

(* Mutant of Rollback: the operation stays pending.                        *)
RollbackCart(c) ==
    /\ At(c, "rejected")
    /\ End(c)
    /\ cart' = IF call[c].op = Order THEN cart ELSE call[c].before
    /\ UNCHANGED <<calm, stream, inRow, pending>>

(* The cart of before the click, and nothing of its kind pending.          *)
Rollback(c) ==
    /\ At(c, "rejected")
    /\ End(c)
    /\ cart' = IF call[c].op = Order THEN cart ELSE call[c].before
    /\ pending' = {d \in pending : call[d].op # call[c].op}
    /\ UNCHANGED <<calm, stream, inRow>>

-----------------------------------------------------------------------------
(***************************************************************************)
(* syncWithServer, and fetchCart at a page load.                           *)
(***************************************************************************)

(* The answer is the row as it is now, or null when the query fails.       *)
GetCart(c) ==
    /\ At(c, "fetch")
    /\ calm /\ call[c].tries + 1 = maxRetries => inRow = Len(stream)
    /\ \E answer \in {ServerCart} \cup (IF calm THEN {} ELSE {Empty}) :
          call' = [call EXCEPT ![c].pc = "answer", ![c].answer = answer]
    /\ UNCHANGED <<calm, stream, inRow, cart, pending>>

(* The fetch fails: a synchronisation gives up, a page shows no cart.      *)
GetCartFails(c) ==
    /\ ~calm
    /\ At(c, "fetch")
    /\ Goto(c, "cutoff")
    /\ cart' = IF c \in Loads THEN Empty ELSE cart
    /\ UNCHANGED <<calm, stream, inRow, pending>>

(* Mutant of isServerCartSynced: removals are not waited for.              *)
isServerCartFilled(server) ==
    \A c \in pending : call[c].op.type = "add" => server[call[c].op.product] > 0

(* A product that is added is in the cart, one that is removed is not.     *)
isServerCartSynced(server) ==
    \A c \in pending : (call[c].op.type = "add") = (server[call[c].op.product] > 0)

TryAgain(c) == call[c].tries + 1 < maxRetries

(* Mutant of syncWithServer: the tries are not counted.                    *)
SyncUncounted(c) ==
    /\ At(c, "answer")
    /\ c \in Clicks
    /\ LET synced == isServerCartSynced(call[c].answer)
       IN  /\ cart' = IF synced THEN call[c].answer ELSE cart
           /\ IF synced THEN End(c) ELSE Goto(c, "fetch")
           /\ pending' = IF synced THEN {} ELSE pending
    /\ UNCHANGED <<calm, stream, inRow>>

syncWithServer(c) ==
    /\ At(c, "answer")
    /\ c \in Clicks
    /\ LET synced == isServerCartSynced(call[c].answer)
       IN  /\ cart' = IF synced THEN call[c].answer ELSE cart
           /\ IF ~synced /\ TryAgain(c)
              THEN /\ call' = [call EXCEPT ![c].pc = "fetch", ![c].answer = Empty,
                                            ![c].tries = @ + 1]
                   /\ UNCHANGED pending
              ELSE End(c) /\ pending' = {}
    /\ UNCHANGED <<calm, stream, inRow>>

fetchCart(l) ==
    /\ At(l, "answer")
    /\ l \in Loads
    /\ End(l)
    /\ cart' = call[l].answer
    /\ UNCHANGED <<calm, stream, inRow, pending>>

(* The page is loaded anew: what the old one was waiting for is forgotten. *)
Load(l) ==
    /\ MayStart(l)
    /\ cart' = Empty
    /\ pending' = {}
    /\ call' = [c \in Calls |->
          IF c = l THEN [NewCall EXCEPT !.pc = "fetch"]
          ELSE IF At(c, "new") THEN NewCall
          ELSE IF call[c].pc \in {"sent", "orphan"}
               THEN [call[c] EXCEPT !.pc = "orphan", !.before = Empty]
          ELSE [NewCall EXCEPT !.pc = "done"]]
    /\ UNCHANGED <<calm, stream, inRow>>

(* The projector writes the next event to the row, once.  Batches that are *)
(* delivered again and writes that are dropped are left to Projection.     *)
ProjectCart ==
    /\ inRow < Len(stream)
    /\ inRow' = inRow + 1
    /\ UNCHANGED <<calm, stream, cart, pending, call>>

Progress(c) ==
    \/ Handle(c) \/ Accepted(c) \/ OrderAccepted(c) \/ Rollback(c)
    \/ GetCart(c) \/ GetCartFails(c) \/ syncWithServer(c) \/ fetchCart(c)

CartNext ==
    \/ \E c \in Clicks : Click(c) \/ ClickOrder(c)
    \/ \E l \in Loads : Load(l)
    \/ \E c \in Calls : Progress(c)
    \/ ProjectCart

CartSpec == CartInit /\ [][CartNext]_cartVars

(* Requests are answered or fail, timers run out.                          *)
FairCartSpec == CartSpec /\ WF_cartVars(\E c \in Calls : Progress(c)) /\ WF_cartVars(ProjectCart)

-----------------------------------------------------------------------------
(***************************************************************************)
(* Properties.                                                             *)
(***************************************************************************)
CartTypeOK ==
    /\ stream \in Seq(Operations \cup {Order})
    /\ inRow \in 0 .. Len(stream)
    /\ cart \in Carts
    /\ pending \subseteq Clicks
    /\ call \in [Calls ->
          [pc : {"new", "sent", "accepted", "rejected", "fetch", "answer", "orphan"} \cup Ended,
           op : Operations \cup {Order, NoOp}, before : Carts, answer : Carts,
           tries : 0 .. maxRetries - 1]]

(* When a calm user looks, the cart shows the products that were recorded  *)
(* and no others, though the read model is behind, a request was refused,  *)
(* or the page was loaded again.  It may show too few pieces of a product, *)
(* since "isServerCartSynced" does not look at quantities, but never too   *)
(* many.                                                                   *)
CalmCartIsTrue ==
    calm /\ Quiet => \A p \in Products :
        cart[p] <= RecordedCart[p] /\ (RecordedCart[p] > 0 => cart[p] > 0)

(* However clicks overlap, an operation stays pending only as long as its  *)
(* request or its synchronisation is under way, or if a failing fetch cut  *)
(* that off: what is left behind would make later synchronisations wait.   *)
PendingHasCause == \A c \in pending : call[c].pc \notin {"new", "orphan", "done"}

(* No click keeps the browser polling for ever, not even an addition and a *)
(* removal of one product that cannot both be reflected.                   *)
CallsEnd == \A c \in Calls : ~At(c, "new") ~> call[c].pc \in Ended
=============================================================================
