------------------------------ MODULE Checkout ------------------------------
(***************************************************************************)
(* Placing and cancelling orders: PlaceOrder and CancelOrder of            *)
(* internal/command/handler.go with the part of the projector that feeds   *)
(* the read models they decide on.                                         *)
(*                                                                         *)
(* Both handlers read the read models (PostgreSQL), which the projector    *)
(* brings up to date some time later, and append events to several         *)
(* streams, one after the other.  Every step is a call to a database;      *)
(* other requests and the projector run in between, and a request whose    *)
(* process dies simply takes no further step.  The appends are those of    *)
(* EventLog; that an append conflicts is one of its outcomes.              *)
(*                                                                         *)
(* An order is named by the PlaceOrder call that gives it its uuid.  The   *)
(* stock of a product was added and projected before (CreateProduct).      *)
(***************************************************************************)
EXTENDS Integers, Sequences, FiniteSetsExt

CONSTANTS
    Users,
    Products,
    Placements,     \* PlaceOrder calls, and the orders they place
    Cancellations,  \* CancelOrder calls
    Additions,      \* AddToCart calls, of one piece of one product
    Stock,          \* Stock[p]: the stock that was added of product p
    Outcomes,       \* how an append may end, see Outcome
    UndoOutcomes,   \* how an append of the compensation may end
    Overlap,        \* requests may run at the same time
    Lag             \* reads may be stale: requests may start before the
                    \* projector caught up, an order's stream may lag

(***************************************************************************)
(* An append is recorded and acknowledged, refused (a version conflict, a  *)
(* failure, a cancelled request context), or recorded but not acknowledged.*)
(***************************************************************************)
Outcome == {"recorded", "refused", "unacknowledged"}

ASSUME OutcomesAssumption ==
    /\ Outcomes \subseteq Outcome
    /\ UndoOutcomes \subseteq Outcome
    /\ "recorded" \in Outcomes \cap UndoOutcomes
ASSUME StockAssumption == Stock \in [Products -> Nat]
ASSUME ModeAssumption == Overlap \in BOOLEAN /\ Lag \in BOOLEAN
ASSUME CallsAssumption ==
    /\ Placements \cap (Cancellations \cup Additions) = {}
    /\ Cancellations \cap Additions = {}

VARIABLES
    pc,         \* pc[c]: where call c is
    user,       \* user[o], user[a]: who places the order, fills the cart
    target,     \* target[c]: the order a CancelOrder call is for
    items,      \* items[o][p]: how many of p the cart held as read by o
    todo,       \* todo[c]: the products the current loop has yet to visit
    held,       \* held[o]: reservedItems
    status,     \* status[o]: what the event stream of the order says
    reserved,   \* reserved[o][p]: sum of the StockReserved events
    released,   \* released[o][p]: sum of the StockReleased events
    queue,      \* the recorded events that are not projected yet
    readStock,  \* read_inventory: ReservedStock of a product
    readCart,   \* read_carts: how many of a product a user's cart holds
    readOrder   \* read_orders: the status

requestVars == <<user, target, items, todo, held>>
streamVars == <<status, reserved, released>>
readVars == <<readStock, readCart, readOrder>>
vars == <<pc, requestVars, streamVars, queue, readVars>>

Calls == Placements \cup Cancellations \cup Additions
PCs == {"new", "check", "reserve", "release", "append", "ok", "failed"}
Statuses == {"none", "pending", "cancelled"}

Nothing == [p \in Products |-> 0]

Init ==
    /\ pc = [c \in Calls |-> "new"]
    /\ user \in [Placements \cup Additions -> Users]
    /\ target \in [Cancellations -> Placements]
    /\ items = [o \in Placements |-> Nothing]
    /\ todo = [c \in Calls |-> {}]
    /\ held = [o \in Placements |-> {}]
    /\ status = [o \in Placements |-> "none"]
    /\ reserved = [o \in Placements |-> Nothing]
    /\ released = [o \in Placements |-> Nothing]
    /\ queue = <<>>
    /\ readStock = Nothing
    /\ readCart \in [Users -> [Products -> {0, 1}]]
    /\ readOrder = [o \in Placements |-> "none"]

Step(c, here, there) ==
    /\ pc[c] = here
    /\ pc' = [pc EXCEPT ![c] = there]

MayStart(c) ==
    /\ Overlap \/ \A d \in Calls : pc[d] \in {"new", "ok", "failed"}
    /\ Lag \/ queue = <<>>

Recorded(outcome) == outcome \in {"recorded", "unacknowledged"}

Emit(outcome, event) ==
    queue' = IF Recorded(outcome) THEN Append(queue, event) ELSE queue

OrderEvent(type, o) == [type |-> type, order |-> o]
StockEvent(type, o, p) == [type |-> type, order |-> o, product |-> p]
CartEvent(type, u, p) == [type |-> type, user |-> u, product |-> p]

-----------------------------------------------------------------------------
(***************************************************************************)
(* PlaceOrder.                                                             *)
(***************************************************************************)
InCart(o) == {p \in Products : items[o][p] > 0}

ReadCart(o) ==
    /\ MayStart(o)
    /\ Step(o, "new", "check")
    /\ items' = [items EXCEPT ![o] = readCart[user[o]]]
    /\ todo' = [todo EXCEPT ![o] = {p \in Products : readCart[user[o]][p] > 0}]
    /\ todo'[o] # {}
    /\ UNCHANGED <<user, target, held, streamVars, queue, readVars>>

(* ErrEmptyOrder, which is also the answer when the cart cannot be read.   *)
EmptyCart(o) ==
    /\ MayStart(o)
    /\ Step(o, "new", "failed")
    /\ readCart[user[o]] = Nothing \/ "refused" \in Outcomes
    /\ UNCHANGED <<requestVars, streamVars, queue, readVars>>

AvailableStock(p) == Stock[p] - readStock[p]

(* Mutant of CheckStock: only that the product has an inventory row.       *)
CheckRow(o) ==
    /\ \E p \in todo[o] : todo' = [todo EXCEPT ![o] = @ \ {p}]
    /\ Step(o, "check", "check")
    /\ UNCHANGED <<user, target, items, held, streamVars, queue, readVars>>

(* One round of the loop that validates the stock of all items.            *)
CheckStock(o) ==
    /\ \E p \in todo[o] :
          \/ /\ Step(o, "check", "check")
             /\ AvailableStock(p) >= items[o][p]
             /\ todo' = [todo EXCEPT ![o] = @ \ {p}]
          \/ /\ Step(o, "check", "failed")
             /\ AvailableStock(p) < items[o][p] \/ "refused" \in Outcomes
             /\ UNCHANGED todo
    /\ UNCHANGED <<user, target, items, held, streamVars, queue, readVars>>

(* Mutant of Place: an error is only logged.                               *)
PlaceOrLog(o) ==
    /\ todo[o] = {}
    /\ Step(o, "check", "reserve")
    /\ todo' = [todo EXCEPT ![o] = InCart(o)]
    /\ \E outcome \in Outcomes :
          /\ status' = [status EXCEPT ![o] =
                           IF Recorded(outcome) THEN "pending" ELSE @]
          /\ Emit(outcome, OrderEvent("OrderPlaced", o))
    /\ UNCHANGED <<user, target, items, held, reserved, released, readVars>>

Place(o) ==
    /\ todo[o] = {}
    /\ \E outcome \in Outcomes :
          /\ Step(o, "check", IF outcome = "recorded" THEN "reserve" ELSE "failed")
          /\ todo' = [todo EXCEPT ![o] = InCart(o)]
          /\ status' = [status EXCEPT ![o] =
                           IF Recorded(outcome) THEN "pending" ELSE @]
          /\ Emit(outcome, OrderEvent("OrderPlaced", o))
    /\ UNCHANGED <<user, target, items, held, reserved, released, readVars>>

(* Mutant of Reserve: an item that cannot be reserved is skipped.          *)
ReserveOrSkip(o) ==
    /\ \E p \in todo[o], outcome \in Outcomes :
          /\ Step(o, "reserve", "reserve")
          /\ todo' = [todo EXCEPT ![o] = @ \ {p}]
          /\ held' = [held EXCEPT ![o] = @ \cup {p}]
          /\ reserved' = [reserved EXCEPT ![o][p] =
                             @ + IF Recorded(outcome) THEN items[o][p] ELSE 0]
          /\ Emit(outcome, StockEvent("StockReserved", o, p))
    /\ UNCHANGED <<user, target, items, status, released, readVars>>

(* One round of the loop that reserves the items; an error ends the loop   *)
(* and starts the compensation.                                            *)
Reserve(o) ==
    /\ \E p \in todo[o], outcome \in Outcomes :
          /\ \/ /\ outcome = "recorded"
                /\ Step(o, "reserve", "reserve")
                /\ todo' = [todo EXCEPT ![o] = @ \ {p}]
                /\ held' = [held EXCEPT ![o] = @ \cup {p}]
             \/ /\ outcome # "recorded"
                /\ Step(o, "reserve", "release")
                /\ todo' = [todo EXCEPT ![o] = held[o]]
                /\ UNCHANGED held
          /\ reserved' = [reserved EXCEPT ![o][p] =
                             @ + IF Recorded(outcome) THEN items[o][p] ELSE 0]
          /\ Emit(outcome, StockEvent("StockReserved", o, p))
    /\ UNCHANGED <<user, target, items, status, released, readVars>>

(* Mutant of Compensate: everything in the cart is released, not only what *)
(* was reserved.                                                           *)
CompensateCart(o) ==
    /\ \E p \in InCart(o), outcome \in UndoOutcomes :
          /\ Step(o, "release", "release")
          /\ released[o][p] = 0
          /\ todo' = [todo EXCEPT ![o] = @ \ {p}]
          /\ released' = [released EXCEPT ![o][p] =
                             @ + IF Recorded(outcome) THEN items[o][p] ELSE 0]
          /\ Emit(outcome, StockEvent("StockReleased", o, p))
    /\ UNCHANGED <<user, target, items, held, status, reserved, readVars>>

(* Compensation: release what was reserved; a failure is only logged.      *)
Compensate(o) ==
    /\ \E p \in todo[o], outcome \in UndoOutcomes :
          /\ Step(o, "release", "release")
          /\ todo' = [todo EXCEPT ![o] = @ \ {p}]
          /\ released' = [released EXCEPT ![o][p] =
                             @ + IF Recorded(outcome) THEN items[o][p] ELSE 0]
          /\ Emit(outcome, StockEvent("StockReleased", o, p))
    /\ UNCHANGED <<user, target, items, held, status, reserved, readVars>>

(* Everything is reserved: clear the cart; a failure is only logged.       *)
ClearCart(o) ==
    /\ todo[o] = {}
    /\ Step(o, "reserve", "ok")
    /\ \E outcome \in Outcomes :
          Emit(outcome, [type |-> "CartCleared", user |-> user[o]])
    /\ UNCHANGED <<requestVars, streamVars, readVars>>

-----------------------------------------------------------------------------
(***************************************************************************)
(* CancelOrder.  Its context is the order as the read model shows it,      *)
(* whatever the status there; the stock is released before the order       *)
(* service is asked whether the order may be cancelled.                    *)
(***************************************************************************)
ReadOrder(c) ==
    /\ MayStart(c)
    /\ readOrder[target[c]] # "none"
    /\ Step(c, "new", "release")
    /\ todo' = [todo EXCEPT ![c] = InCart(target[c])]
    /\ UNCHANGED <<user, target, items, held, streamVars, queue, readVars>>

OrderNotFound(c) ==
    /\ MayStart(c)
    /\ readOrder[target[c]] = "none" \/ "refused" \in Outcomes
    /\ Step(c, "new", "failed")
    /\ UNCHANGED <<requestVars, streamVars, queue, readVars>>

(* Mutant of Release: one piece is released, not the quantity.             *)
ReleaseOnePiece(c) ==
    /\ \E p \in todo[c] :
          /\ Step(c, "release", "release")
          /\ todo' = [todo EXCEPT ![c] = @ \ {p}]
          /\ released' = [released EXCEPT ![target[c]][p] = @ + 1]
          /\ Emit("recorded", StockEvent("StockReleased", target[c], p))
    /\ UNCHANGED <<user, target, items, held, status, reserved, readVars>>

(* One round of the loop that releases the items; an error ends it all.    *)
Release(c) ==
    /\ \E p \in todo[c], outcome \in Outcomes :
          /\ Step(c, "release", IF outcome = "recorded" THEN "release" ELSE "failed")
          /\ todo' = [todo EXCEPT ![c] = @ \ {p}]
          /\ released' = [released EXCEPT ![target[c]][p] =
                @ + IF Recorded(outcome) THEN items[target[c]][p] ELSE 0]
          /\ Emit(outcome, StockEvent("StockReleased", target[c], p))
    /\ UNCHANGED <<user, target, items, held, status, reserved, readVars>>

-----------------------------------------------------------------------------
(***************************************************************************)
(* The call of orderSvc.Cancel that ends both the compensation of a        *)
(* placement and CancelOrder: the compensation only logs how it ended.     *)
(***************************************************************************)
OrderOf(c) == IF c \in Placements THEN c ELSE target[c]

OutcomesOf(c) == IF c \in Placements THEN UndoOutcomes ELSE Outcomes

(* The order is loaded, from a stream that may lag, and the transition     *)
(* checked ...                                                             *)
LoadOrder(c) ==
    /\ todo[c] = {}
    /\ \/ /\ Step(c, "release", "append")
          /\ status[OrderOf(c)] = "pending" \/ (Lag /\ status[OrderOf(c)] = "cancelled")
       \/ /\ Step(c, "release", "failed")
          /\ status[OrderOf(c)] # "pending" \/ Lag \/ "refused" \in OutcomesOf(c)
    /\ UNCHANGED <<requestVars, streamVars, queue, readVars>>

(* ... and OrderCancelled appended.                                        *)
CancelOrder(c) ==
    /\ \E outcome \in OutcomesOf(c) :
          /\ Step(c, "append", IF outcome = "recorded" /\ c \in Cancellations
                              THEN "ok" ELSE "failed")
          /\ status' = [status EXCEPT ![OrderOf(c)] =
                           IF Recorded(outcome) THEN "cancelled" ELSE @]
          /\ Emit(outcome, OrderEvent("OrderCancelled", OrderOf(c)))
    /\ UNCHANGED <<requestVars, reserved, released, readVars>>

-----------------------------------------------------------------------------
(* AddToCart.                                                              *)
AddToCart(a) ==
    /\ MayStart(a)
    /\ \E p \in Products, outcome \in Outcomes :
          /\ Step(a, "new", IF outcome = "recorded" THEN "ok" ELSE "failed")
          /\ Emit(outcome, CartEvent("ItemAddedToCart", user[a], p))
    /\ UNCHANGED <<requestVars, streamVars, readVars>>

-----------------------------------------------------------------------------
(***************************************************************************)
(* The projector takes the events in the order they were recorded (one     *)
(* shard); see Projection for what can go wrong there.                     *)
(***************************************************************************)
(* OrderPlaced sets the row, OrderCancelled only changes one that is there. *)
ShowPlaced(o) == [readOrder EXCEPT ![o] = "pending"]
ShowCancelled(o) ==
    IF readOrder[o] = "none" THEN readOrder ELSE [readOrder EXCEPT ![o] = "cancelled"]

ShowPiece(u, p) == [readCart EXCEPT ![u][p] = @ + 1]
ShowCleared(u) == [readCart EXCEPT ![u] = Nothing]

(* Mutant of StockChange: the wrong sign for StockReleased.                *)
StockChangeUnsigned(e, p) ==
    IF e.type \in {"StockReserved", "StockReleased"} /\ e.product = p
    THEN items[e.order][p] ELSE 0

StockChange(e, p) ==
    IF e.type \in {"StockReserved", "StockReleased"} /\ e.product = p
    THEN IF e.type = "StockReserved" THEN items[e.order][p] ELSE -items[e.order][p]
    ELSE 0

ProjectEvent(e) ==
    /\ readStock' = [p \in Products |-> readStock[p] + StockChange(e, p)]
    /\ readOrder' = CASE e.type = "OrderPlaced"     -> ShowPlaced(e.order)
                      [] e.type = "OrderCancelled"  -> ShowCancelled(e.order)
                      [] OTHER                      -> readOrder
    /\ readCart' = CASE e.type = "ItemAddedToCart"  -> ShowPiece(e.user, e.product)
                     [] e.type = "CartCleared"      -> ShowCleared(e.user)
                     [] OTHER                       -> readCart

Project ==
    /\ queue # <<>>
    /\ ProjectEvent(Head(queue))
    /\ queue' = Tail(queue)
    /\ UNCHANGED <<pc, requestVars, streamVars>>

PlaceOrderStep(o) ==
    \/ ReadCart(o) \/ EmptyCart(o) \/ CheckStock(o) \/ Place(o) \/ Reserve(o)
    \/ Compensate(o) \/ LoadOrder(o) \/ CancelOrder(o) \/ ClearCart(o)

CancelOrderStep(c) ==
    \/ ReadOrder(c) \/ OrderNotFound(c) \/ Release(c) \/ LoadOrder(c)
    \/ CancelOrder(c)

Next ==
    \/ \E o \in Placements : PlaceOrderStep(o)
    \/ \E c \in Cancellations : CancelOrderStep(c)
    \/ \E a \in Additions : AddToCart(a)
    \/ Project

Spec == Init /\ [][Next]_vars

-----------------------------------------------------------------------------
(***************************************************************************)
(* Properties.                                                             *)
(***************************************************************************)

(* The type of the requests, the streams and the read models.              *)
TypeOK ==
    /\ pc \in [Calls -> PCs]
    /\ target \in [Cancellations -> Placements]
    /\ items \in [Placements -> [Products -> Nat]]
    /\ todo \in [Calls -> SUBSET Products]
    /\ held \in [Placements -> SUBSET Products]
    /\ status \in [Placements -> Statuses]
    /\ reserved \in [Placements -> [Products -> Nat]]
    /\ released \in [Placements -> [Products -> Nat]]
    /\ readStock \in [Products -> Int]
    /\ readCart \in [Users -> [Products -> Nat]]
    /\ readOrder \in [Placements -> Statuses]

(* An order that PlaceOrder reported as placed has reserved every item of  *)
(* the cart it was made from, exactly once and at the quantity read.       *)
SuccessReservesAll ==
    \A o \in Placements : pc[o] = "ok" =>
        status[o] # "none" /\ reserved[o] = items[o]

(* Wherever a placement stops, by an error or because its process dies,    *)
(* all the stock it took belongs to an order that was recorded before, so  *)
(* that it can be seen and cancelled, and is the whole quantity of the     *)
(* items it reserved: no item is reserved in part or twice.                *)
ReservationsHaveOrders ==
    \A o \in Placements, p \in Products :
        reserved[o][p] > 0 => status[o] # "none" /\ reserved[o][p] = items[o][p]

(* Until somebody cancels the order, what is given back is what PlaceOrder *)
(* knows it reserved and nothing else; once it has reported the failure,   *)
(* all of that is given back, if the releases were recorded.               *)
CompensationIsExact ==
    \A o \in Placements : (\A c \in Cancellations : target[c] = o => pc[c] = "new") =>
        \A p \in Products :
            /\ released[o][p] > 0 =>
                  p \in held[o] /\ released[o][p] = reserved[o][p]
            /\ pc[o] = "failed" /\ p \in held[o] => released[o][p] = reserved[o][p]

Sum(f) == MapThenSumSet(LAMBDA x : f[x], DOMAIN f)

(* What the streams say is reserved of product p.                          *)
Outstanding(p) == Sum([o \in Placements |-> reserved[o][p] - released[o][p]])

(* The read model and the events on their way to it account for every      *)
(* reservation and release: nothing is lost or counted twice.              *)
ReadModelCatchesUp ==
    \A p \in Products :
        readStock[p] + Sum([i \in 1 .. Len(queue) |-> StockChange(queue[i], p)])
            = Outstanding(p)

(* The stock that orders which are not cancelled hold.                     *)
HeldStock(p) ==
    Sum([o \in {x \in Placements : status[x] # "cancelled"} |-> reserved[o][p]])

(* What cancelling an order again has given back of it a second time.      *)
GivenBackAgain(p) == Sum([o \in Placements |->
    IF released[o][p] > reserved[o][p] THEN released[o][p] - reserved[o][p] ELSE 0])

(* "Validate stock availability for all items before placing order": for   *)
(* requests that take turns on a current read model and do not fail, that  *)
(* keeps the live orders within the stock, but for what was given back     *)
(* more than once: CancelOrder releases the items before the order service *)
(* refuses to cancel the order again, and the check counts those pieces.   *)
NeverOversold == \A p \in Products : HeldStock(p) <= Stock[p] + GivenBackAgain(p)

(* A call of CancelOrder gives back all that the order reserved, whole,    *)
(* and so does every further call for the same order.  When no request is  *)
(* running, an order was given back once exactly if it was cancelled by    *)
(* one call, never if it was not cancelled, and never more often than      *)
(* calls for it have ended.                                                *)
CancellationIsExact ==
    (\A c \in Calls : pc[c] \in {"new", "ok", "failed"}) =>
        \A o \in Placements :
            \E k \in 0 .. Cardinality({c \in Cancellations : target[c] = o /\ pc[c] # "new"}) :
                /\ \A p \in Products : released[o][p] = k * reserved[o][p]
                /\ k > 0 <=> status[o] = "cancelled"
=============================================================================
