-------------------------- MODULE Checkout_proofs --------------------------
(***************************************************************************)
(* Proofs about module Checkout, for any users, products, stock and calls. *)
(*                                                                         *)
(* Three parts: what each placement keeps in every mode and with every way *)
(* for an append to end; the books of streams, queue and read model, also  *)
(* in every mode; and what holds of requests that take turns.              *)
(***************************************************************************)
EXTENDS Checkout, FiniteSetTheorems, TLAPS

-----------------------------------------------------------------------------
(***************************************************************************)
(* Types.                                                                  *)
(***************************************************************************)
Events ==
    [type : {"OrderPlaced", "OrderCancelled"}, order : Placements] \cup
    [type : {"StockReserved", "StockReleased"}, order : Placements, product : Products] \cup
    [type : {"ItemAddedToCart"}, user : Users, product : Products] \cup
    [type : {"CartCleared"}, user : Users]

Types ==
    /\ TypeOK
    /\ user \in [Placements \cup Additions -> Users]
    /\ queue \in Seq(Events)

LEMMA InitTypes == Init => Types
<1> SUFFICES ASSUME Init PROVE Types
  OBVIOUS
<1>1. Nothing \in [Products -> Nat] /\ Nothing \in [Products -> Int]
  BY DEF Nothing
<1>2. readCart \in [Users -> [Products -> Nat]]
  <2>1. [Products -> {0, 1}] \subseteq [Products -> Nat]
    OBVIOUS
  <2>. QED BY <2>1 DEF Init
<1>. QED BY <1>1, <1>2 DEF Init, Types, TypeOK, PCs, Statuses

LEMMA StepTypes ==
    ASSUME Types, NEW c \in Calls, NEW here, NEW there \in PCs, Step(c, here, there)
    PROVE  /\ pc' \in [Calls -> PCs]
           /\ pc[c] = here /\ pc'[c] = there
           /\ \A d \in Calls \ {c} : pc'[d] = pc[d]
BY DEF Types, TypeOK, Step

LEMMA EmitTypes ==
    ASSUME Types, NEW outcome, NEW event \in Events, Emit(outcome, event)
    PROVE  queue' \in Seq(Events)
BY DEF Types, Emit

(* The read models take any event that can be queued.                      *)
LEMMA ProjectTypes == ASSUME Types, Project PROVE Types'
<1>1. PICK e \in Events : e = Head(queue)
  BY DEF Types, Project
<1>2. queue' \in Seq(Events) /\ UNCHANGED <<pc, requestVars, streamVars>>
  BY DEF Types, Project
<1>3. ProjectEvent(e)
  BY <1>1 DEF Project
<1>4. /\ items \in [Placements -> [Products -> Nat]] /\ readStock \in [Products -> Int]
      /\ readCart \in [Users -> [Products -> Nat]] /\ readOrder \in [Placements -> Statuses]
  BY DEF Types, TypeOK
<1>5. \A p \in Products : StockChange(e, p) \in Int
  <2>1. ASSUME NEW p \in Products, e.type \in {"StockReserved", "StockReleased"}
        PROVE  items[e.order][p] \in Int
    <3>1. e.order \in Placements
      BY <2>1 DEF Events
    <3>. QED BY <1>4, <3>1
  <2>. QED BY <2>1 DEF StockChange
<1>6. readStock' \in [Products -> Int]
  BY <1>3, <1>4, <1>5 DEF ProjectEvent, ShowPlaced, ShowCancelled, ShowPiece, ShowCleared
<1>7. readOrder' \in [Placements -> Statuses]
  BY <1>3, <1>4 DEF ProjectEvent, ShowPlaced, ShowCancelled, ShowPiece, ShowCleared, Statuses
<1>8. readCart' \in [Users -> [Products -> Nat]]
  <2>1. CASE e.type = "ItemAddedToCart"
    <3>1. e.user \in Users /\ e.product \in Products
      BY <2>1 DEF Events
    <3>2. readCart' = [readCart EXCEPT ![e.user][e.product] = @ + 1]
      BY <1>3, <2>1 DEF ProjectEvent, ShowPlaced, ShowCancelled, ShowPiece, ShowCleared
    <3>. QED BY <1>4, <3>1, <3>2
  <2>2. CASE e.type # "ItemAddedToCart"
    BY <1>3, <1>4, <2>2 DEF ProjectEvent, ShowPlaced, ShowCancelled, ShowPiece, ShowCleared, Nothing
  <2>. QED BY <2>1, <2>2
<1>. QED BY <1>2, <1>6, <1>7, <1>8 DEF Types, TypeOK, requestVars, streamVars

-----------------------------------------------------------------------------
(***************************************************************************)
(* The invariant.  A placement gets its reservations item by item: what it *)
(* holds is what it reserved, what is left to do is the rest of the cart.  *)
(***************************************************************************)
PlacementInv(o) ==
    /\ held[o] \subseteq InCart(o)
    /\ pc[o] \in {"new", "check"} => held[o] = {}
    /\ \A p \in Products :
          /\ reserved[o][p] \in {0, items[o][p]}
          /\ p \in held[o] => reserved[o][p] = items[o][p]
          /\ reserved[o][p] > 0 => status[o] # "none"
          /\ pc[o] \in {"new", "check", "reserve"} /\ p \notin held[o] => reserved[o][p] = 0
    /\ pc[o] = "reserve" =>
          status[o] # "none" /\ InCart(o) = held[o] \cup todo[o] /\ held[o] \cap todo[o] = {}
    /\ pc[o] = "ok" => status[o] # "none" /\ InCart(o) = held[o]

(* Nobody has asked to cancel the order.                                   *)
Undisturbed(o) == \A c \in Cancellations : target[c] = o => pc[c] = "new"

(* What the compensation has given back, and has yet to give back.         *)
ReleaseInv(o) == Undisturbed(o) =>
    \A p \in Products :
        /\ p \notin held[o] => released[o][p] = 0
        /\ p \in held[o] =>
              /\ pc[o] \in {"reserve", "ok"} => released[o][p] = 0
              /\ pc[o] = "release" /\ p \in todo[o] => released[o][p] = 0
              /\ (pc[o] = "release" /\ p \notin todo[o]) \/ pc[o] \in {"append", "failed"}
                    => released[o][p] = reserved[o][p]

(* A compensation gives back everything if its releases are recorded.      *)
ReleasesRecorded == "refused" \notin UndoOutcomes

AppendsKnown ==
    \A c \in Placements \cup Cancellations : pc[c] = "append" => status[OrderOf(c)] # "none"

OrderOK(o) ==
    /\ PlacementInv(o)
    /\ pc[o] = "release" => todo[o] \subseteq held[o]
    /\ ReleasesRecorded => ReleaseInv(o)

Inv == Types /\ AppendsKnown /\ \A o \in Placements : OrderOK(o)

LEMMA InitInv == Init => Inv
<1> SUFFICES ASSUME Init PROVE Inv
  OBVIOUS
<1>1. \A c \in Calls : pc[c] = "new"
  BY DEF Init
<1>2. ASSUME NEW o \in Placements
      PROVE  /\ pc[o] = "new" /\ held[o] = {} /\ \A p \in Products : items[o][p] = 0
             /\ \A p \in Products : reserved[o][p] = 0 /\ released[o][p] = 0
  BY <1>1 DEF Init, Calls, Nothing
<1>3. \A o \in Placements : OrderOK(o)
  BY <1>2 DEF OrderOK, PlacementInv, ReleaseInv, InCart
<1>. QED BY <1>1, <1>2, <1>3, InitTypes DEF Inv, AppendsKnown, Calls

LEMMA CallKinds ==
    /\ Placements \subseteq Calls /\ Cancellations \subseteq Calls /\ Additions \subseteq Calls
    /\ Placements \cap Cancellations = {} /\ Placements \cap Additions = {}
    /\ Cancellations \cap Additions = {}
BY CallsAssumption DEF Calls

(* An order that a step leaves alone.                                      *)
Same(o) ==
    /\ pc'[o] = pc[o] /\ items'[o] = items[o] /\ todo'[o] = todo[o] /\ held'[o] = held[o]
    /\ reserved'[o] = reserved[o]
    /\ status'[o] = "none" => status[o] = "none"
    /\ released'[o] = released[o] \/ ~Undisturbed(o)'
    /\ Undisturbed(o)' => Undisturbed(o)

LEMMA SameOK == ASSUME NEW o \in Placements, OrderOK(o), Same(o) PROVE OrderOK(o)'
<1>1. PlacementInv(o)'
  BY DEF OrderOK, Same, PlacementInv, InCart
<1>2. ReleasesRecorded => ReleaseInv(o)'
  BY DEF OrderOK, Same, ReleaseInv
<1>. QED BY <1>1, <1>2 DEF OrderOK, Same, ReleasesRecorded

(* What a step of one call leaves alone of the other orders.               *)
LEMMA OthersSame ==
    ASSUME Types, NEW c \in Calls, NEW here, NEW there \in PCs \ {"new"}, Step(c, here, there),
           NEW o \in Placements, o # c, UNCHANGED target,
           items'[o] = items[o], todo'[o] = todo[o], held'[o] = held[o],
           reserved'[o] = reserved[o], released'[o] = released[o] \/ ~Undisturbed(o)',
           status'[o] = "none" => status[o] = "none"
    PROVE  Same(o)
<1>1. \A d \in Calls : pc'[d] = "new" => pc[d] = "new"
  BY StepTypes
<1>2. pc'[o] = pc[o]
  BY StepTypes, CallKinds
<1>. QED BY <1>1, <1>2, CallKinds DEF Same, Undisturbed

LEMMA StepAppends ==
    ASSUME Types, AppendsKnown, NEW c \in Calls, NEW here, NEW there \in PCs, Step(c, here, there),
           there = "append" => status'[OrderOf(c)] # "none",
           \A o \in Placements : status'[o] = "none" => status[o] = "none",
           UNCHANGED target, c \in Placements \cup Cancellations
    PROVE  AppendsKnown'
<1>1. ASSUME NEW d \in Placements \cup Cancellations, pc'[d] = "append"
      PROVE  status'[OrderOf(d)] # "none"
  <2>1. OrderOf(d) \in Placements /\ d \in Calls
    BY <1>1, CallKinds DEF OrderOf, Types, TypeOK
  <2>. QED BY <1>1, <2>1, StepTypes DEF AppendsKnown
<1>2. \A d \in Placements \cup Cancellations : OrderOf(d)' = OrderOf(d)
  BY DEF OrderOf
<1>. QED BY <1>1, <1>2 DEF AppendsKnown

-----------------------------------------------------------------------------
(***************************************************************************)
(* PlaceOrder.                                                             *)
(***************************************************************************)
LEMMA ReadCartInv == ASSUME Inv, NEW o \in Placements, ReadCart(o) PROVE Inv'
<1>1. /\ Step(o, "new", "check") /\ o \in Calls
      /\ items' = [items EXCEPT ![o] = readCart[user[o]]]
      /\ todo' = [todo EXCEPT ![o] = {p \in Products : readCart[user[o]][p] > 0}]
      /\ UNCHANGED <<user, target, held, status, reserved, released, queue,
                     readStock, readCart, readOrder>>
  BY CallKinds DEF ReadCart, streamVars, readVars
<1>2. Types
  BY DEF Inv
<1>3. /\ pc' \in [Calls -> PCs] /\ pc[o] = "new" /\ pc'[o] = "check"
  BY <1>1, <1>2, StepTypes DEF PCs
<1>4. readCart[user[o]] \in [Products -> Nat]
  BY <1>2 DEF Types, TypeOK
<1>5. items' \in [Placements -> [Products -> Nat]] /\ todo' \in [Calls -> SUBSET Products]
  BY <1>1, <1>2, <1>4 DEF Types, TypeOK
<1>6. Types'
  BY <1>1, <1>2, <1>3, <1>5 DEF Types, TypeOK
<1>7. AppendsKnown'
  BY <1>1, <1>2, StepAppends DEF Inv, PCs
<1>8. OrderOK(o)'
  <2>1. held[o] = {} /\ \A p \in Products : reserved[o][p] = 0
    BY <1>3 DEF Inv, OrderOK, PlacementInv
  <2>2. Undisturbed(o)' => Undisturbed(o)
    BY <1>1, <1>2, <1>3, StepTypes, CallKinds DEF Undisturbed, PCs
  <2>3. PlacementInv(o)'
    BY <1>1, <1>3, <2>1 DEF PlacementInv
  <2>4. ReleasesRecorded => ReleaseInv(o)'
    BY <1>1, <2>1, <2>2 DEF Inv, OrderOK, ReleaseInv
  <2>. QED BY <1>3, <2>3, <2>4 DEF OrderOK, ReleasesRecorded
<1>9. ASSUME NEW q \in Placements, q # o PROVE OrderOK(q)'
  <2>1. items'[q] = items[q] /\ todo'[q] = todo[q]
    BY <1>1, <1>2, <1>9, CallKinds DEF Types, TypeOK
  <2>2. Same(q)
    BY <1>1, <1>2, <1>9, <2>1, OthersSame DEF PCs
  <2>. QED BY <2>2, SameOK DEF Inv
<1>. QED BY <1>6, <1>7, <1>8, <1>9 DEF Inv

(* Steps of a placement that only change where it is, or what is to do     *)
(* before it reserves anything.                                            *)
LEMMA QuietInv ==
    ASSUME Inv, NEW o \in Placements, NEW here, NEW there, Step(o, here, there),
           \/ here \in {"new", "check"} /\ there \in {"check", "failed"}
           \/ here = "reserve" /\ there = "ok" /\ todo[o] = {}
           \/ here = "release" /\ there = "failed" /\ todo[o] = {}
           \/ here = "release" /\ there = "append" /\ todo[o] = {} /\ status[o] # "none",
           todo' \in [Calls -> SUBSET Products],
           \A c \in Calls \ {o} : todo'[c] = todo[c],
           UNCHANGED <<user, target, items, held, status, reserved, released, readVars>>,
           queue' \in Seq(Events)
    PROVE  Inv'
<1>1. Types /\ o \in Calls /\ there \in PCs \ {"new"}
  BY CallKinds DEF Inv, PCs
<1>2. pc' \in [Calls -> PCs] /\ pc[o] = here /\ pc'[o] = there
  BY <1>1, StepTypes
<1>3. Types'
  BY <1>1, <1>2 DEF Types, TypeOK, readVars
<1>4. AppendsKnown'
  BY <1>1, StepAppends DEF Inv, OrderOf
<1>5. OrderOK(o)'
  <2>1. Undisturbed(o)' => Undisturbed(o)
    BY <1>1, StepTypes, CallKinds DEF Undisturbed
  <2>2. PlacementInv(o)'
    BY <1>2 DEF Inv, OrderOK, PlacementInv, InCart
  <2>3. ReleasesRecorded => ReleaseInv(o)'
    BY <1>2, <2>1 DEF Inv, OrderOK, PlacementInv, ReleaseInv
  <2>. QED BY <1>2, <2>2, <2>3 DEF OrderOK, ReleasesRecorded
<1>6. ASSUME NEW q \in Placements, q # o PROVE OrderOK(q)'
  <2>1. Same(q)
    BY <1>1, <1>6, OthersSame, CallKinds
  <2>. QED BY <2>1, SameOK DEF Inv
<1>. QED BY <1>3, <1>4, <1>5, <1>6 DEF Inv

(* The order is placed: all that the cart held is to be reserved.          *)
LEMMA PlaceInv == ASSUME Inv, NEW o \in Placements, Place(o) PROVE Inv'
<1>1. PICK outcome \in Outcomes :
         /\ Step(o, "check", IF outcome = "recorded" THEN "reserve" ELSE "failed")
         /\ todo' = [todo EXCEPT ![o] = InCart(o)]
         /\ status' = [status EXCEPT ![o] = IF Recorded(outcome) THEN "pending" ELSE @]
         /\ Emit(outcome, OrderEvent("OrderPlaced", o))
  BY DEF Place
<1>2. UNCHANGED <<user, target, items, held, reserved, released, readStock, readCart, readOrder>>
  BY DEF Place, readVars
<1> DEFINE there == IF outcome = "recorded" THEN "reserve" ELSE "failed"
<1>3. Types /\ o \in Calls /\ there \in {"reserve", "failed"} /\ there \in PCs \ {"new"}
  BY CallKinds DEF Inv, PCs
<1>4. Step(o, "check", there) /\ (there = "reserve" => outcome = "recorded")
  BY <1>1
<1> HIDE DEF there
<1>5. pc' \in [Calls -> PCs] /\ pc[o] = "check" /\ pc'[o] = there
  BY <1>3, <1>4, StepTypes
<1>6. /\ todo' \in [Calls -> SUBSET Products] /\ todo'[o] = InCart(o)
      /\ \A q \in Placements \ {o} : todo'[q] = todo[q]
  BY <1>1, <1>3, CallKinds DEF Types, TypeOK, InCart
<1>7. /\ status' \in [Placements -> Statuses]
      /\ \A q \in Placements : status'[q] = "none" => status[q] = "none"
      /\ there = "reserve" => status'[o] # "none"
  BY <1>1, <1>3, <1>4 DEF Types, TypeOK, Statuses, Recorded
<1>8. queue' \in Seq(Events)
  <2>1. OrderEvent("OrderPlaced", o) \in Events
    BY DEF OrderEvent, Events
  <2>. QED BY <1>1, <1>3, <2>1, EmitTypes
<1>9. Types'
  BY <1>2, <1>3, <1>5, <1>6, <1>7, <1>8 DEF Types, TypeOK
<1>10. AppendsKnown'
  BY <1>2, <1>3, <1>4, <1>7, StepAppends DEF Inv
<1>11. OrderOK(o)'
  <2>1. held[o] = {} /\ \A p \in Products : reserved[o][p] = 0
    BY <1>5 DEF Inv, OrderOK, PlacementInv
  <2>2. Undisturbed(o)' => Undisturbed(o)
    BY <1>2, <1>3, <1>4, StepTypes, CallKinds DEF Undisturbed
  <2>3. InCart(o)' = InCart(o)
    BY <1>2 DEF InCart
  <2>4. PlacementInv(o)'
    BY <1>2, <1>3, <1>5, <1>6, <1>7, <2>1, <2>3 DEF Inv, OrderOK, PlacementInv
  <2>5. ReleasesRecorded => ReleaseInv(o)'
    BY <1>2, <2>1, <2>2 DEF Inv, OrderOK, ReleaseInv
  <2>. QED BY <1>3, <1>5, <2>4, <2>5 DEF OrderOK, ReleasesRecorded
<1>12. ASSUME NEW q \in Placements, q # o PROVE OrderOK(q)'
  <2>1. Same(q)
    BY <1>2, <1>3, <1>4, <1>6, <1>7, <1>12, OthersSame
  <2>. QED BY <2>1, SameOK DEF Inv
<1>. QED BY <1>9, <1>10, <1>11, <1>12 DEF Inv

(* An item is reserved whole and held, or ends the loop: then it is either *)
(* not reserved, or reserved by an append that was not acknowledged.       *)
LEMMA ReserveInv == ASSUME Inv, NEW o \in Placements, Reserve(o) PROVE Inv'
<1>1. PICK p \in todo[o], outcome \in Outcomes :
         /\ \/ /\ outcome = "recorded"
               /\ Step(o, "reserve", "reserve")
               /\ todo' = [todo EXCEPT ![o] = @ \ {p}]
               /\ held' = [held EXCEPT ![o] = @ \cup {p}]
            \/ /\ outcome # "recorded"
               /\ Step(o, "reserve", "release")
               /\ todo' = [todo EXCEPT ![o] = held[o]]
               /\ UNCHANGED held
         /\ reserved' = [reserved EXCEPT ![o][p] =
                            @ + IF Recorded(outcome) THEN items[o][p] ELSE 0]
         /\ Emit(outcome, StockEvent("StockReserved", o, p))
  BY DEF Reserve
<1>2. UNCHANGED <<user, target, items, status, released, readStock, readCart, readOrder>>
  BY DEF Reserve, readVars
<1> DEFINE there == IF outcome = "recorded" THEN "reserve" ELSE "release"
<1>3. Types /\ o \in Calls /\ there \in {"reserve", "release"} /\ there \in PCs \ {"new"}
  BY CallKinds DEF Inv, PCs
<1>4. Step(o, "reserve", there) /\ (there = "reserve" <=> outcome = "recorded")
  BY <1>1
<1> HIDE DEF there
<1>5. pc' \in [Calls -> PCs] /\ pc[o] = "reserve" /\ pc'[o] = there
  BY <1>3, <1>4, StepTypes
<1>6. p \in Products /\ p \notin held[o] /\ p \in InCart(o) /\ todo[o] \subseteq Products
      /\ held[o] \subseteq Products /\ status[o] # "none" /\ reserved[o][p] = 0
      /\ InCart(o) = held[o] \cup todo[o] /\ held[o] \cap todo[o] = {}
  <2>1. p \in Products /\ todo[o] \subseteq Products /\ held[o] \subseteq Products
    BY <1>3 DEF Types, TypeOK
  <2>. QED BY <1>5, <2>1 DEF Inv, OrderOK, PlacementInv
<1>7. /\ todo' \in [Calls -> SUBSET Products] /\ held' \in [Placements -> SUBSET Products]
      /\ \A q \in Placements \ {o} : todo'[q] = todo[q] /\ held'[q] = held[q]
      /\ there = "reserve" => todo'[o] = todo[o] \ {p} /\ held'[o] = held[o] \cup {p}
      /\ there = "release" => todo'[o] = held[o] /\ held'[o] = held[o]
  <2>1. todo \in [Calls -> SUBSET Products] /\ held \in [Placements -> SUBSET Products]
    BY <1>3 DEF Types, TypeOK
  <2>2. CASE there = "reserve"
    <3>1. todo' = [todo EXCEPT ![o] = @ \ {p}] /\ held' = [held EXCEPT ![o] = @ \cup {p}]
      BY <1>1, <1>4, <2>2
    <3>2. todo' \in [Calls -> SUBSET Products] /\ held' \in [Placements -> SUBSET Products]
      BY <1>3, <1>6, <2>1, <3>1
    <3>. QED BY <1>3, <2>1, <2>2, <3>1, <3>2, CallKinds
  <2>3. CASE there = "release"
    <3>1. todo' = [todo EXCEPT ![o] = held[o]] /\ held' = held
      BY <1>1, <1>4, <2>3
    <3>2. todo' \in [Calls -> SUBSET Products]
      BY <1>3, <1>6, <2>1, <3>1
    <3>. QED BY <1>3, <2>1, <2>3, <3>1, <3>2, CallKinds
  <2>. QED BY <1>3, <2>2, <2>3
<1>8. items[o][p] \in Nat /\ items[o] \in [Products -> Nat]
  BY <1>3, <1>6 DEF Types, TypeOK
<1>9. PICK n \in {0, items[o][p]} :
         /\ reserved' = [reserved EXCEPT ![o][p] = @ + n]
         /\ there = "reserve" => n = items[o][p]
  BY <1>1, <1>4 DEF Recorded
<1>10. /\ reserved' \in [Placements -> [Products -> Nat]]
       /\ \A q \in Placements \ {o} : reserved'[q] = reserved[q]
       /\ reserved'[o][p] = n
       /\ \A r \in Products \ {p} : reserved'[o][r] = reserved[o][r]
  BY <1>3, <1>6, <1>8, <1>9 DEF Types, TypeOK
<1>11. queue' \in Seq(Events)
  <2>1. StockEvent("StockReserved", o, p) \in Events
    BY <1>6 DEF StockEvent, Events
  <2>. QED BY <1>1, <1>3, <2>1, EmitTypes
<1>12. Types'
  BY <1>2, <1>3, <1>5, <1>7, <1>10, <1>11 DEF Types, TypeOK
<1>13. AppendsKnown'
  BY <1>2, <1>3, <1>4, StepAppends DEF Inv
<1>14. OrderOK(o)'
  <2>1. Undisturbed(o)' => Undisturbed(o)
    BY <1>2, <1>3, <1>4, StepTypes, CallKinds DEF Undisturbed
  <2>2. InCart(o)' = InCart(o) /\ items' = items /\ status' = status /\ released' = released
    BY <1>2 DEF InCart
  <2>3. PlacementInv(o)
    BY DEF Inv, OrderOK
  <2>4. ASSUME NEW r \in Products
        PROVE  /\ reserved'[o][r] \in {0, items[o][r]}
               /\ r \in held'[o] => reserved'[o][r] = items[o][r]
               /\ there = "reserve" /\ r \notin held'[o] => reserved'[o][r] = 0
    <3>1. CASE r = p
      BY <1>3, <1>6, <1>7, <1>9, <1>10, <3>1
    <3>2. CASE r # p
      BY <1>3, <1>5, <1>7, <1>10, <2>3, <3>2 DEF PlacementInv
    <3>. QED BY <3>1, <3>2
  <2>5. there = "reserve" => InCart(o) = held'[o] \cup todo'[o] /\ held'[o] \cap todo'[o] = {}
    BY <1>6, <1>7
  <2>6. held'[o] \subseteq InCart(o)
    BY <1>3, <1>6, <1>7
  <2>7. PlacementInv(o)'
    BY <1>3, <1>5, <1>6, <2>2, <2>4, <2>5, <2>6 DEF PlacementInv
  <2>8. ASSUME ReleasesRecorded, Undisturbed(o)' PROVE ReleaseInv(o)'
    <3>1. \A r \in Products : released[o][r] = 0
      BY <1>5, <2>1, <2>8 DEF Inv, OrderOK, ReleaseInv
    <3>. QED BY <1>3, <1>5, <1>7, <2>2, <3>1 DEF ReleaseInv
  <2>9. ReleasesRecorded => ReleaseInv(o)'
    BY <2>8 DEF ReleaseInv
  <2>10. there = "release" => todo'[o] \subseteq held'[o]
    BY <1>7
  <2>. QED BY <1>5, <2>7, <2>9, <2>10 DEF OrderOK, ReleasesRecorded
<1>15. ASSUME NEW q \in Placements, q # o PROVE OrderOK(q)'
  <2>1. Same(q)
    BY <1>2, <1>3, <1>4, <1>7, <1>10, <1>15, OthersSame
  <2>. QED BY <2>1, SameOK DEF Inv
<1>. QED BY <1>12, <1>13, <1>14, <1>15 DEF Inv

(* What is added to the released stock of one item of one order.           *)
LEMMA ReleasedTypes ==
    ASSUME Types, NEW o \in Placements, NEW p \in Products, NEW outcome,
           released' = [released EXCEPT ![o][p] =
                           @ + IF Recorded(outcome) THEN items[o][p] ELSE 0]
    PROVE  /\ released' \in [Placements -> [Products -> Nat]]
           /\ \A q \in Placements \ {o} : released'[q] = released[q]
           /\ \A r \in Products \ {p} : released'[o][r] = released[o][r]
           /\ Recorded(outcome) => released'[o][p] = released[o][p] + items[o][p]
<1>1. items[o][p] \in Nat /\ released \in [Placements -> [Products -> Nat]]
  BY DEF Types, TypeOK
<1>2. PICK n \in {0, items[o][p]} :
         /\ released' = [released EXCEPT ![o][p] = @ + n]
         /\ Recorded(outcome) => n = items[o][p]
  OBVIOUS
<1>. QED BY <1>1, <1>2

LEMMA CompensateInv == ASSUME Inv, NEW o \in Placements, Compensate(o) PROVE Inv'
<1>1. PICK p \in todo[o], outcome \in UndoOutcomes :
         /\ Step(o, "release", "release")
         /\ todo' = [todo EXCEPT ![o] = @ \ {p}]
         /\ released' = [released EXCEPT ![o][p] =
                            @ + IF Recorded(outcome) THEN items[o][p] ELSE 0]
         /\ Emit(outcome, StockEvent("StockReleased", o, p))
  BY DEF Compensate
<1>2. UNCHANGED <<user, target, items, held, status, reserved, readStock, readCart, readOrder>>
  BY DEF Compensate, readVars
<1>3. Types /\ o \in Calls /\ "release" \in PCs \ {"new"} /\ todo[o] \subseteq Products
  BY CallKinds DEF Inv, PCs, Types, TypeOK
<1>4. pc' \in [Calls -> PCs] /\ pc[o] = "release" /\ pc'[o] = "release"
  BY <1>1, <1>3, StepTypes
<1>5. /\ todo' \in [Calls -> SUBSET Products] /\ todo'[o] = todo[o] \ {p}
      /\ \A q \in Placements \ {o} : todo'[q] = todo[q]
  BY <1>1, <1>3, CallKinds DEF Types, TypeOK
<1>6. /\ released' \in [Placements -> [Products -> Nat]]
      /\ \A q \in Placements \ {o} : released'[q] = released[q]
      /\ \A r \in Products \ {p} : released'[o][r] = released[o][r]
      /\ Recorded(outcome) => released'[o][p] = released[o][p] + items[o][p]
  BY <1>1, <1>3, ReleasedTypes
<1>7. queue' \in Seq(Events)
  <2>1. StockEvent("StockReleased", o, p) \in Events
    BY <1>3 DEF StockEvent, Events
  <2>. QED BY <1>1, <1>3, <2>1, EmitTypes
<1>8. Types'
  BY <1>2, <1>3, <1>4, <1>5, <1>6, <1>7 DEF Types, TypeOK
<1>9. AppendsKnown'
  BY <1>1, <1>2, <1>3, StepAppends DEF Inv
<1>10. OrderOK(o)'
  <2>1. Undisturbed(o)' => Undisturbed(o)
    BY <1>1, <1>2, <1>3, StepTypes, CallKinds DEF Undisturbed
  <2>2. PlacementInv(o)'
    BY <1>2, <1>4 DEF Inv, OrderOK, PlacementInv, InCart
  <2>3. ASSUME ReleasesRecorded, Undisturbed(o)' PROVE ReleaseInv(o)'
    <3>1. Recorded(outcome)
      BY <1>1, <2>3, OutcomesAssumption DEF ReleasesRecorded, Recorded, Outcome
    <3>2. ReleaseInv(o) /\ Undisturbed(o) /\ PlacementInv(o) /\ todo[o] \subseteq held[o]
      BY <1>4, <2>1, <2>3 DEF Inv, OrderOK
    <3>3. released[o][p] = 0 /\ reserved[o][p] = items[o][p] /\ p \in held[o]
      BY <1>3, <1>4, <3>2 DEF ReleaseInv, PlacementInv
    <3>4. released'[o][p] = reserved[o][p]
      BY <1>3, <1>6, <3>1, <3>3 DEF Types, TypeOK
    <3>5. ASSUME NEW r \in Products
          PROVE  /\ r \notin held[o] => released'[o][r] = 0
                 /\ r \in held[o] /\ r \in todo'[o] => released'[o][r] = 0
                 /\ r \in held[o] /\ r \notin todo'[o] => released'[o][r] = reserved[o][r]
      <4>1. CASE r = p
        BY <1>5, <3>3, <3>4, <4>1
      <4>2. CASE r # p
        BY <1>4, <1>5, <1>6, <3>2, <4>2 DEF ReleaseInv
      <4>. QED BY <4>1, <4>2
    <3>. QED BY <1>2, <1>4, <3>5 DEF ReleaseInv
  <2>4. ReleasesRecorded => ReleaseInv(o)'
    BY <2>3 DEF ReleaseInv
  <2>. QED BY <1>2, <1>4, <1>5, <2>2, <2>4 DEF Inv, OrderOK, ReleasesRecorded
<1>11. ASSUME NEW q \in Placements, q # o PROVE OrderOK(q)'
  <2>1. Same(q)
    BY <1>1, <1>2, <1>3, <1>5, <1>6, <1>11, OthersSame
  <2>. QED BY <2>1, SameOK DEF Inv
<1>. QED BY <1>8, <1>9, <1>10, <1>11 DEF Inv

(* The cancellation that ends a compensation.                              *)
LEMMA EndInv ==
    ASSUME Inv, NEW c \in Placements \cup Cancellations, CancelOrder(c)
    PROVE  Inv'
<1> DEFINE o == OrderOf(c)
<1>1. PICK outcome \in OutcomesOf(c) :
         /\ Step(c, "append", IF outcome = "recorded" /\ c \in Cancellations
                             THEN "ok" ELSE "failed")
         /\ status' = [status EXCEPT ![o] = IF Recorded(outcome) THEN "cancelled" ELSE @]
         /\ Emit(outcome, OrderEvent("OrderCancelled", o))
  BY DEF CancelOrder
<1>2. UNCHANGED <<user, target, items, todo, held, reserved, released,
                  readStock, readCart, readOrder>>
  BY DEF CancelOrder, requestVars, readVars
<1>3. PICK there \in {"ok", "failed"} :
         Step(c, "append", there) /\ (c \in Placements => there = "failed")
  BY <1>1, CallKinds
<1>4. Types /\ c \in Calls /\ there \in PCs \ {"new"} /\ o \in Placements
  BY CallKinds DEF Inv, PCs, OrderOf, Types, TypeOK
<1>5. pc' \in [Calls -> PCs] /\ pc[c] = "append" /\ pc'[c] = there
      /\ \A d \in Calls \ {c} : pc'[d] = pc[d]
  BY <1>3, <1>4, StepTypes
<1>6. /\ status' \in [Placements -> Statuses]
      /\ \A q \in Placements : status'[q] = "none" => status[q] = "none"
  BY <1>1, <1>4 DEF Types, TypeOK, Statuses
<1>7. queue' \in Seq(Events)
  <2>1. OrderEvent("OrderCancelled", o) \in Events
    BY <1>4 DEF OrderEvent, Events
  <2>. QED BY <1>1, <1>4, <2>1, EmitTypes
<1>8. Types'
  BY <1>2, <1>4, <1>5, <1>6, <1>7 DEF Types, TypeOK
<1>9. AppendsKnown'
  BY <1>2, <1>3, <1>4, <1>6, StepAppends DEF Inv
<1>10. ASSUME NEW q \in Placements, q # c PROVE OrderOK(q)'
  <2>1. Same(q)
    BY <1>2, <1>3, <1>4, <1>6, <1>10, OthersSame
  <2>. QED BY <2>1, SameOK DEF Inv
<1>11. ASSUME c \in Placements PROVE OrderOK(c)'
  <2>1. Undisturbed(c)' => Undisturbed(c)
    BY <1>2, <1>3, <1>4, <1>11, StepTypes, CallKinds DEF Undisturbed
  <2>2. PlacementInv(c)'
    BY <1>2, <1>3, <1>5, <1>6, <1>11 DEF Inv, OrderOK, PlacementInv, InCart
  <2>3. ReleasesRecorded => ReleaseInv(c)'
    BY <1>2, <1>3, <1>5, <1>11, <2>1 DEF Inv, OrderOK, ReleaseInv
  <2>. QED BY <1>3, <1>5, <1>11, <2>2, <2>3 DEF OrderOK, ReleasesRecorded
<1>. QED BY <1>8, <1>9, <1>10, <1>11 DEF Inv

(* The steps of a cancellation, and additions to carts, disturb no order   *)
(* but the one that is cancelled, and of that only what is released.       *)
LEMMA ElsewhereInv ==
    ASSUME Inv, NEW c \in Cancellations \cup Additions, NEW here, NEW there \in PCs \ {"new"},
           Step(c, here, there),
           there = "append" => c \in Cancellations /\ status[OrderOf(c)] # "none",
           todo' \in [Calls -> SUBSET Products],
           \A d \in Calls \ {c} : todo'[d] = todo[d],
           released' \in [Placements -> [Products -> Nat]],
           \A q \in Placements : released'[q] = released[q]
                                  \/ (c \in Cancellations /\ target[c] = q),
           UNCHANGED <<user, target, items, held, status, reserved, readVars>>,
           queue' \in Seq(Events)
    PROVE  Inv'
<1>1. Types /\ c \in Calls
  BY CallKinds DEF Inv
<1>2. pc' \in [Calls -> PCs] /\ pc'[c] = there
      /\ \A d \in Calls \ {c} : pc'[d] = pc[d]
  BY <1>1, StepTypes
<1>3. Types'
  BY <1>1, <1>2 DEF Types, TypeOK, readVars
<1>4. AppendsKnown'
  <2>1. CASE c \in Cancellations
    BY <1>1, <2>1, StepAppends DEF Inv
  <2>2. CASE c \in Additions
    <3>1. ASSUME NEW d \in Placements \cup Cancellations
          PROVE  pc'[d] = pc[d] /\ OrderOf(d)' = OrderOf(d)
      BY <1>2, <2>2, <3>1, CallKinds DEF OrderOf
    <3>. QED BY <3>1 DEF Inv, AppendsKnown
  <2>. QED BY <2>1, <2>2
<1>5. ASSUME NEW q \in Placements PROVE OrderOK(q)'
  <2>1. q # c
    BY CallKinds
  <2>2. released'[q] = released[q] \/ ~Undisturbed(q)'
    BY <1>2 DEF Undisturbed
  <2>3. Same(q)
    BY <1>1, <2>1, <2>2, OthersSame, CallKinds
  <2>. QED BY <2>3, SameOK DEF Inv
<1>. QED BY <1>3, <1>4, <1>5 DEF Inv

LEMMA ReleaseStepInv == ASSUME Inv, NEW c \in Cancellations, Release(c) PROVE Inv'
<1>1. PICK p \in todo[c], outcome \in Outcomes :
         /\ Step(c, "release", IF outcome = "recorded" THEN "release" ELSE "failed")
         /\ todo' = [todo EXCEPT ![c] = @ \ {p}]
         /\ released' = [released EXCEPT ![target[c]][p] =
               @ + IF Recorded(outcome) THEN items[target[c]][p] ELSE 0]
         /\ Emit(outcome, StockEvent("StockReleased", target[c], p))
  BY DEF Release
<1>2. UNCHANGED <<user, target, items, held, status, reserved, readVars>>
  BY DEF Release
<1>3. PICK there \in {"release", "failed"} : Step(c, "release", there)
  BY <1>1
<1>4. Types /\ c \in Calls /\ target[c] \in Placements /\ p \in Products
  BY CallKinds DEF Inv, Types, TypeOK
<1>5. /\ todo' \in [Calls -> SUBSET Products]
      /\ \A d \in Calls \ {c} : todo'[d] = todo[d]
  BY <1>1, <1>4 DEF Types, TypeOK
<1>6. /\ released' \in [Placements -> [Products -> Nat]]
      /\ \A q \in Placements \ {target[c]} : released'[q] = released[q]
  BY <1>1, <1>4, ReleasedTypes
<1>7. queue' \in Seq(Events)
  <2>1. StockEvent("StockReleased", target[c], p) \in Events
    BY <1>4 DEF StockEvent, Events
  <2>. QED BY <1>1, <1>4, <2>1, EmitTypes
<1>8. there \in PCs \ {"new"} /\ there # "append"
  BY DEF PCs
<1>. QED BY <1>2, <1>3, <1>5, <1>6, <1>7, <1>8, ElsewhereInv

LEMMA AddToCartInv == ASSUME Inv, NEW a \in Additions, AddToCart(a) PROVE Inv'
<1>1. PICK p \in Products, outcome \in Outcomes :
         /\ Step(a, "new", IF outcome = "recorded" THEN "ok" ELSE "failed")
         /\ Emit(outcome, CartEvent("ItemAddedToCart", user[a], p))
  BY DEF AddToCart
<1>2. /\ UNCHANGED <<user, target, items, held, status, reserved, readVars>>
      /\ UNCHANGED <<todo, released>>
  BY DEF AddToCart, requestVars, streamVars
<1>3. PICK there \in {"ok", "failed"} : Step(a, "new", there)
  BY <1>1
<1>4. Types /\ todo \in [Calls -> SUBSET Products] /\ user[a] \in Users
      /\ released \in [Placements -> [Products -> Nat]]
  BY DEF Inv, Types, TypeOK
<1>5. queue' \in Seq(Events)
  <2>1. CartEvent("ItemAddedToCart", user[a], p) \in Events
    BY <1>4 DEF CartEvent, Events
  <2>. QED BY <1>1, <1>4, <2>1, EmitTypes
<1>6. there \in PCs \ {"new"} /\ there # "append"
  BY DEF PCs
<1>. QED BY <1>2, <1>3, <1>4, <1>5, <1>6, ElsewhereInv

(* The order is loaded: what is not pending, or was not, is not cancelled. *)
LEMMA LoadOrderInv ==
    ASSUME Inv, NEW c \in Placements \cup Cancellations, LoadOrder(c)
    PROVE  Inv'
<1>1. /\ todo[c] = {}
      /\ UNCHANGED <<user, target, items, todo, held, status, reserved, released, queue, readVars>>
  BY DEF LoadOrder, requestVars, streamVars
<1>2. PICK there \in {"append", "failed"} :
         Step(c, "release", there) /\ (there = "append" => status[OrderOf(c)] # "none")
  BY DEF LoadOrder
<1>3. /\ todo \in [Calls -> SUBSET Products] /\ released \in [Placements -> [Products -> Nat]]
      /\ queue \in Seq(Events)
  BY DEF Inv, Types, TypeOK
<1>4. CASE c \in Placements
  <2>1. there = "append" => status[c] # "none"
    BY <1>2, <1>4 DEF OrderOf
  <2>. QED BY <1>1, <1>2, <1>3, <1>4, <2>1, QuietInv
<1>5. CASE c \in Cancellations
  <2>1. there \in PCs \ {"new"}
    BY DEF PCs
  <2>. QED BY <1>1, <1>2, <1>3, <1>5, <2>1, ElsewhereInv
<1>. QED BY <1>4, <1>5

(* The remaining steps of a placement.                                     *)
LEMMA PlacementStepsInv ==
    ASSUME Inv, NEW o \in Placements, EmptyCart(o) \/ CheckStock(o) \/ ClearCart(o)
    PROVE  Inv'
<1>1. /\ UNCHANGED <<user, target, items, held, status, reserved, released, readVars>>
      /\ todo' \in [Calls -> SUBSET Products]
      /\ \A c \in Calls \ {o} : todo'[c] = todo[c]
  <2>1. todo \in [Calls -> SUBSET Products] /\ o \in Calls
    BY CallKinds DEF Inv, Types, TypeOK
  <2>. QED BY <2>1 DEF EmptyCart, CheckStock, ClearCart, requestVars, streamVars
<1>2. queue' \in Seq(Events)
  <2>1. CASE UNCHANGED queue
    BY <2>1 DEF Inv, Types
  <2>2. CASE ClearCart(o)
    <3>1. user[o] \in Users /\ Types
      BY DEF Inv, Types
    <3>2. [type |-> "CartCleared", user |-> user[o]] \in Events
      BY <3>1 DEF Events
    <3>. QED BY <2>2, <3>1, <3>2, EmitTypes DEF ClearCart
  <2>. QED BY <2>1, <2>2 DEF EmptyCart, CheckStock
<1>3. CASE EmptyCart(o)
  BY <1>1, <1>2, <1>3, QuietInv DEF EmptyCart
<1>4. CASE CheckStock(o)
  <2>1. PICK there \in {"check", "failed"} : Step(o, "check", there)
    BY <1>4 DEF CheckStock
  <2>. QED BY <1>1, <1>2, <2>1, QuietInv
<1>5. CASE ClearCart(o)
  BY <1>1, <1>2, <1>5, QuietInv DEF ClearCart
<1>. QED BY <1>3, <1>4, <1>5

LEMMA CancellationStepsInv ==
    ASSUME Inv, NEW c \in Cancellations, ReadOrder(c) \/ OrderNotFound(c)
    PROVE  Inv'
<1>1. /\ UNCHANGED <<user, target, items, held, status, reserved, released, queue, readVars>>
      /\ released \in [Placements -> [Products -> Nat]] /\ queue \in Seq(Events)
  BY DEF ReadOrder, OrderNotFound, requestVars, streamVars, Inv, Types, TypeOK
<1>2. /\ todo' \in [Calls -> SUBSET Products]
      /\ \A d \in Calls \ {c} : todo'[d] = todo[d]
  <2>1. todo \in [Calls -> SUBSET Products] /\ c \in Calls
    BY CallKinds DEF Inv, Types, TypeOK
  <2>2. InCart(target[c]) \subseteq Products
    BY DEF InCart
  <2>. QED BY <2>1, <2>2 DEF ReadOrder, OrderNotFound, requestVars
<1>3. PICK there \in {"release", "failed"} : Step(c, "new", there)
  BY DEF ReadOrder, OrderNotFound
<1>4. there \in PCs \ {"new"} /\ there # "append"
  BY DEF PCs
<1>. QED BY <1>1, <1>2, <1>3, <1>4, ElsewhereInv

LEMMA ProjectInv == ASSUME Inv, Project PROVE Inv'
<1>1. Types'
  BY ProjectTypes DEF Inv
<1>2. UNCHANGED <<pc, target, items, todo, held, status, reserved, released>>
  BY DEF Project, requestVars, streamVars
<1>3. \A o \in Placements : Same(o)
  BY <1>2 DEF Same, Undisturbed
<1>4. AppendsKnown'
  BY <1>2 DEF Inv, AppendsKnown, OrderOf
<1>. QED BY <1>1, <1>3, <1>4, SameOK DEF Inv

LEMMA NextInv == Inv /\ [Next]_vars => Inv'
<1> SUFFICES ASSUME Inv, [Next]_vars PROVE Inv'
  OBVIOUS
<1>1. CASE UNCHANGED vars
  <2>1. /\ UNCHANGED <<pc, user, target, items, todo, held, status, reserved, released>>
        /\ UNCHANGED <<queue, readStock, readCart, readOrder>>
    BY <1>1 DEF vars, requestVars, streamVars, readVars
  <2>2. Types'
    BY <2>1 DEF Inv, Types, TypeOK
  <2>3. \A o \in Placements : Same(o)
    BY <2>1 DEF Same, Undisturbed
  <2>4. AppendsKnown'
    BY <2>1 DEF Inv, AppendsKnown, OrderOf
  <2>. QED BY <2>2, <2>3, <2>4, SameOK DEF Inv
<1>2. ASSUME NEW o \in Placements, PlaceOrderStep(o) PROVE Inv'
  BY <1>2, ReadCartInv, PlacementStepsInv, PlaceInv, ReserveInv, CompensateInv, LoadOrderInv,
     EndInv DEF PlaceOrderStep
<1>3. ASSUME NEW c \in Cancellations, CancelOrderStep(c) PROVE Inv'
  BY <1>3, CancellationStepsInv, ReleaseStepInv, LoadOrderInv, EndInv DEF CancelOrderStep
<1>. QED BY <1>1, <1>2, <1>3, AddToCartInv, ProjectInv DEF Next

-----------------------------------------------------------------------------
(***************************************************************************)
(* Theorems.  However requests, projections and failing appends interleave,*)
(* each placement keeps its books.                                         *)
(***************************************************************************)
THEOREM Safety == Spec => []Inv
<1>. QED BY InitInv, NextInv, PTL DEF Spec

(* The requests, the streams and the read models keep their types.         *)
THEOREM TypeCorrect == Spec => []TypeOK
<1>1. Inv => TypeOK
  BY DEF Inv, Types
<1>. QED BY <1>1, Safety, PTL

(* An order that was reported as placed has reserved its whole cart, once. *)
THEOREM SuccessesReserveAll == Spec => []SuccessReservesAll
<1>1. Inv => SuccessReservesAll
  <2> SUFFICES ASSUME Inv, NEW o \in Placements, pc[o] = "ok"
               PROVE  status[o] # "none" /\ reserved[o] = items[o]
    BY DEF SuccessReservesAll
  <2>1. PlacementInv(o)
    BY DEF Inv, OrderOK
  <2>2. reserved[o] \in [Products -> Nat] /\ items[o] \in [Products -> Nat]
    BY DEF Inv, Types, TypeOK
  <2>3. ASSUME NEW p \in Products PROVE reserved[o][p] = items[o][p]
    <3>1. CASE p \in held[o]
      BY <2>1, <3>1 DEF PlacementInv
    <3>2. CASE p \notin held[o]
      BY <2>1, <2>2, <3>2 DEF PlacementInv, InCart
    <3>. QED BY <3>1, <3>2
  <2>. QED BY <2>1, <2>2, <2>3 DEF PlacementInv
<1>. QED BY <1>1, Safety, PTL

(* Wherever a placement stops or dies, what it took belongs to an order    *)
(* that was recorded, and is whole items.                                  *)
THEOREM ReservationsAreAccountedFor == Spec => []ReservationsHaveOrders
<1>1. Inv => ReservationsHaveOrders
  BY DEF Inv, OrderOK, PlacementInv, ReservationsHaveOrders
<1>. QED BY <1>1, Safety, PTL

(* A placement that fails gives back what it knows it reserved and nothing *)
(* else, if no append of its compensation is refused.                      *)
THEOREM CompensationsAreExact ==
    ASSUME "refused" \notin UndoOutcomes
    PROVE  Spec => []CompensationIsExact
<1>1. Inv => CompensationIsExact
  <2> SUFFICES ASSUME Inv, NEW o \in Placements, Undisturbed(o), NEW p \in Products
               PROVE  /\ released[o][p] > 0 =>
                            p \in held[o] /\ released[o][p] = reserved[o][p]
                      /\ pc[o] = "failed" /\ p \in held[o] => released[o][p] = reserved[o][p]
    BY DEF CompensationIsExact, Undisturbed
  <2>1. ReleaseInv(o) /\ PlacementInv(o) /\ pc[o] \in PCs
    BY CallKinds DEF Inv, OrderOK, ReleasesRecorded, Types, TypeOK
  <2>. QED BY <2>1 DEF ReleaseInv, PlacementInv, PCs
<1>. QED BY <1>1, Safety, PTL

-----------------------------------------------------------------------------
(***************************************************************************)
(* Sums, which are folds whose order does not matter.                      *)
(***************************************************************************)
Plus(a, b) == a + b
AnyOf(S) == CHOOSE x \in S : TRUE

Adding == INSTANCE FoldLaws WITH op <- Plus, choose <- AnyOf

Total(f, S) == Adding!Fold(0, f, S)

LEMMA SumIsTotal == \A f : Sum(f) = Total(f, DOMAIN f)
BY DEF Sum, MapThenSumSet, MapThenFoldSet, Total, Adding!Fold, Adding!MapThenFoldSet, Plus, AnyOf

LEMMA CanAdd ==
    ASSUME NEW S, IsFiniteSet(S)
    PROVE  Adding!IsFiniteSet(S) /\ Adding!ChoosesFrom(S)
BY DEF IsFiniteSet, Adding!IsFiniteSet, Adding!ChoosesFrom, AnyOf

LEMMA PlusCommutes == Adding!Closed(Int) /\ Adding!Commutes(Int)
BY DEF Adding!Closed, Adding!Commutes, Plus

LEMMA TotalOfNothing == \A f : Total(f, {}) = 0
BY Adding!FoldEmpty DEF Total

LEMMA TotalSplit ==
    ASSUME NEW S, IsFiniteSet(S), NEW f, \A x \in S : f[x] \in Int, NEW y \in S
    PROVE  Total(f, S) = f[y] + Total(f, S \ {y})
BY CanAdd, PlusCommutes, Adding!FoldAnyLast DEF Total, Plus

LEMMA TotalType ==
    ASSUME NEW S, IsFiniteSet(S), NEW f, \A x \in S : f[x] \in Int
    PROVE  Total(f, S) \in Int
BY CanAdd, Adding!FoldType DEF Total, Plus

LEMMA TotalCongruence ==
    ASSUME NEW S, IsFiniteSet(S), NEW f, NEW g, \A x \in S : f[x] = g[x]
    PROVE  Total(f, S) = Total(g, S)
BY CanAdd, Adding!FoldCongruence DEF Total

(* One summand changes.                                                    *)
LEMMA TotalUpdate ==
    ASSUME NEW S, IsFiniteSet(S), NEW f, NEW g, NEW y \in S,
           \A x \in S : f[x] \in Int /\ g[x] \in Int,
           \A x \in S \ {y} : g[x] = f[x]
    PROVE  Total(g, S) = Total(f, S) + g[y] - f[y]
<1>1. IsFiniteSet(S \ {y})
  BY FS_Subset
<1>2. Total(f, S \ {y}) = Total(g, S \ {y}) /\ Total(f, S \ {y}) \in Int
  BY <1>1, TotalCongruence, TotalType
<1>3. /\ Total(f, S) = f[y] + Total(f, S \ {y})
      /\ Total(g, S) = g[y] + Total(g, S \ {y})
  BY TotalSplit
<1>. QED BY <1>2, <1>3

(* A last summand more, and the first one less.                            *)
LEMMA TotalAppend ==
    ASSUME NEW n \in Nat, NEW f, NEW g, \A i \in 1 .. n : f[i] \in Int /\ g[i] = f[i],
           g[n + 1] \in Int
    PROVE  Total(g, 1 .. n + 1) = Total(f, 1 .. n) + g[n + 1]
<1>1. IsFiniteSet(1 .. n + 1) /\ IsFiniteSet(1 .. n)
  BY FS_Interval
<1>2. (1 .. n + 1) \ {n + 1} = 1 .. n /\ n + 1 \in 1 .. n + 1
  OBVIOUS
<1>3. \A i \in 1 .. n + 1 : g[i] \in Int
  <2>1. \A i \in 1 .. n + 1 : i \in 1 .. n \/ i = n + 1
    OBVIOUS
  <2>. QED BY <2>1
<1>4. Total(g, 1 .. n + 1) = g[n + 1] + Total(g, (1 .. n + 1) \ {n + 1})
  BY <1>1, <1>2, <1>3, TotalSplit
<1>5. Total(g, 1 .. n) = Total(f, 1 .. n) /\ Total(f, 1 .. n) \in Int
  BY <1>1, TotalCongruence, TotalType
<1>6. Total(g, 1 .. n + 1) = g[n + 1] + Total(g, 1 .. n)
  BY <1>2, <1>4, Zenon
<1>. QED BY <1>5, <1>6

LEMMA TotalTail ==
    ASSUME NEW m \in Nat, NEW f, NEW g, \A i \in 1 .. m + 1 : f[i] \in Int,
           \A i \in 1 .. m : g[i] = f[i + 1]
    PROVE  Total(f, 1 .. m + 1) = f[1] + Total(g, 1 .. m)
<1> DEFINE A == {n \in Nat : n <= m => Total(f, 1 .. n + 1) = f[1] + Total(g, 1 .. n)}
<1>1. 0 \in A
  <2>1. Total(f, 1 .. 0 + 1) = Total(f, 1 .. 0) + f[0 + 1]
    <3>1. 0 \in Nat /\ f[0 + 1] \in Int /\ \A i \in 1 .. 0 : f[i] \in Int /\ f[i] = f[i]
      OBVIOUS
    <3>. QED BY <3>1, TotalAppend
  <2>2. 1 .. 0 = {} /\ f[1] \in Int
    OBVIOUS
  <2>. QED BY <2>1, <2>2, TotalOfNothing
<1>2. ASSUME NEW n \in Nat, n \in A PROVE n + 1 \in A
  <2> SUFFICES ASSUME n + 1 <= m
               PROVE  Total(f, 1 .. (n + 1) + 1) = f[1] + Total(g, 1 .. n + 1)
    OBVIOUS
  <2>1. Total(f, 1 .. (n + 1) + 1) = Total(f, 1 .. n + 1) + f[(n + 1) + 1]
    <3>1. n + 1 \in Nat /\ (\A i \in 1 .. n + 1 : f[i] \in Int) /\ f[(n + 1) + 1] \in Int
      OBVIOUS
    <3>. QED BY <3>1, TotalAppend
  <2>2. \A i \in 1 .. n + 1 : g[i] = f[i + 1] /\ f[i + 1] \in Int
    OBVIOUS
  <2>3. Total(g, 1 .. n + 1) = Total(g, 1 .. n) + g[n + 1] /\ Total(g, 1 .. n) \in Int
    <3>1. (\A i \in 1 .. n : g[i] \in Int) /\ g[n + 1] \in Int
      BY <2>2
    <3>2. IsFiniteSet(1 .. n)
      BY FS_Interval
    <3>. QED BY <3>1, <3>2, TotalAppend, TotalType
  <2>4. Total(f, 1 .. n + 1) = f[1] + Total(g, 1 .. n)
    BY <1>2
  <2>5. g[n + 1] = f[(n + 1) + 1] /\ f[1] \in Int /\ g[n + 1] \in Int
    BY <2>2
  <2>. QED BY <2>1, <2>3, <2>4, <2>5
<1>3. Nat \subseteq A
  <2> HIDE DEF A
  <2>. QED BY <1>1, <1>2, Adding!NatSetInduction
<1>. QED BY <1>3

(* Summands that are zero may be left out.                                 *)
LEMMA TotalWithoutZeros ==
    ASSUME NEW S, IsFiniteSet(S), NEW f, \A x \in S : f[x] \in Int,
           NEW R \in SUBSET S, \A x \in S \ R : f[x] = 0
    PROVE  Total(f, S) = Total(f, R)
<1> DEFINE A == {T \in SUBSET S : Total(f, T) = Total(f, T \cap R)}
<1>1. ASSUME NEW T \in SUBSET S, \A U \in SUBSET T : U # T => U \in A
      PROVE  T \in A
  <2>1. CASE T = {}
    BY <2>1
  <2>2. CASE T # {}
    <3>1. PICK x \in T : TRUE
      BY <2>2
    <3>2. T \ {x} \in A
      BY <1>1
    <3>3. IsFiniteSet(T) /\ IsFiniteSet(T \cap R) /\ IsFiniteSet(T \ {x})
      BY FS_Subset
    <3>4. Total(f, T) = f[x] + Total(f, T \ {x}) /\ Total(f, T \ {x}) \in Int
      BY <3>3, TotalSplit, TotalType
    <3>5. CASE x \in R
      <4>1. (T \cap R) \ {x} = (T \ {x}) \cap R /\ x \in T \cap R
        BY <3>5
      <4>2. Total(f, T \cap R) = f[x] + Total(f, (T \cap R) \ {x})
        BY <3>3, <4>1, TotalSplit
      <4>. QED BY <3>2, <3>4, <4>1, <4>2
    <3>6. CASE x \notin R
      <4>1. (T \ {x}) \cap R = T \cap R /\ f[x] = 0
        BY <3>6
      <4>2. Total(f, T \ {x}) = Total(f, T \cap R)
        BY <3>2, <4>1
      <4>3. Total(f, T) = Total(f, T \ {x})
        BY <3>4, <4>1
      <4>. QED BY <4>2, <4>3
    <3>. QED BY <3>5, <3>6
  <2>. QED BY <2>1, <2>2
<1>2. A = SUBSET S
  <2>1. A \in SUBSET SUBSET S /\ Adding!IsFiniteSet(S)
    BY CanAdd
  <2> HIDE DEF A
  <2>. QED BY <1>1, <2>1, Adding!SubsetInduction
<1>3. S \in A /\ S \cap R = R
  BY <1>2
<1>. QED BY <1>3

LEMMA TotalOfDifferences ==
    ASSUME NEW S, IsFiniteSet(S), NEW f, NEW g, NEW h,
           \A x \in S : f[x] \in Int /\ g[x] \in Int /\ h[x] = f[x] - g[x]
    PROVE  Total(h, S) = Total(f, S) - Total(g, S)
<1> DEFINE A == {T \in SUBSET S : Total(h, T) = Total(f, T) - Total(g, T)}
<1>1. ASSUME NEW T \in SUBSET S, \A U \in SUBSET T : U # T => U \in A
      PROVE  T \in A
  <2>1. CASE T = {}
    BY <2>1, TotalOfNothing
  <2>2. CASE T # {}
    <3>1. PICK x \in T : TRUE
      BY <2>2
    <3>2. T \ {x} \in A
      BY <1>1
    <3>3. IsFiniteSet(T) /\ IsFiniteSet(T \ {x})
      BY FS_Subset
    <3>4. \A y \in T : f[y] \in Int /\ g[y] \in Int /\ h[y] \in Int
      OBVIOUS
    <3>5. /\ Total(f, T) = f[x] + Total(f, T \ {x}) /\ Total(f, T \ {x}) \in Int
          /\ Total(g, T) = g[x] + Total(g, T \ {x}) /\ Total(g, T \ {x}) \in Int
          /\ Total(h, T) = h[x] + Total(h, T \ {x})
      BY <3>3, <3>4, TotalSplit, TotalType
    <3>6. f[x] \in Int /\ g[x] \in Int /\ h[x] = f[x] - g[x]
      OBVIOUS
    <3>. QED BY <3>2, <3>5, <3>6
  <2>. QED BY <2>1, <2>2
<1>2. A = SUBSET S
  <2>1. A \in SUBSET SUBSET S /\ Adding!IsFiniteSet(S)
    BY CanAdd
  <2> HIDE DEF A
  <2>. QED BY <1>1, <2>1, Adding!SubsetInduction
<1>3. S \in A
  BY <1>2
<1>. QED BY <1>3

-----------------------------------------------------------------------------
(***************************************************************************)
(* The books.  The streams say what is reserved, the read model what was   *)
(* projected of it, the queue what has yet to be.  An event only says how  *)
(* much it moves through the items of its order, so it matters that these  *)
(* do not change once an event refers to them.                             *)
(***************************************************************************)
OfStock == {"StockReserved", "StockReleased"}

Provenance ==
    /\ \A o \in Placements : pc[o] = "new" => items[o] = Nothing
    /\ \A c \in Cancellations : todo[c] # {} => pc[target[c]] # "new"
    /\ \A i \in 1 .. Len(queue) :
          queue[i].type \in OfStock => pc[queue[i].order] # "new"

LEMMA InitProvenance == Init => Provenance
BY CallKinds DEF Init, Provenance

(* The event of a step, if it has one.                                     *)
Emits(e) ==
    /\ queue' = Append(queue, e)
    /\ e.type \in OfStock => pc'[e.order] # "new"

LEMMA StepProvenance ==
    ASSUME Types, Provenance, NEW c \in Calls, NEW here, NEW there \in PCs \ {"new"},
           Step(c, here, there), UNCHANGED target,
           \A o \in Placements \ {c} : items'[o] = items[o],
           \A d \in Cancellations : todo'[d] # {} => todo[d] # {} \/ pc[target[d]] # "new",
           UNCHANGED queue \/ \E e \in Events : Emits(e)
    PROVE  Provenance'
<1>1. \A d \in Calls : pc'[d] = "new" => pc[d] = "new" /\ d # c
  BY StepTypes
<1>2. queue \in Seq(Events)
  BY DEF Types
<1>3. \A e \in Events : e.type \in OfStock => e.order \in Calls
  BY CallKinds DEF Events, OfStock
<1>4. ASSUME NEW i \in 1 .. Len(queue), queue[i].type \in OfStock
      PROVE  pc'[queue[i].order] # "new"
  <2>1. queue[i] \in Events
    BY <1>2
  <2>. QED BY <1>1, <1>3, <1>4, <2>1 DEF Provenance
<1>5. ASSUME NEW i \in 1 .. Len(queue'), queue'[i].type \in OfStock
      PROVE  pc'[queue'[i].order] # "new"
  <2>1. CASE UNCHANGED queue
    BY <1>4, <1>5, <2>1
  <2>2. ASSUME NEW e \in Events, Emits(e) PROVE pc'[queue'[i].order] # "new"
    <3>1. queue' = Append(queue, e) /\ Len(queue) \in Nat
      BY <1>2, <2>2 DEF Emits
    <3>2. CASE i \in 1 .. Len(queue)
      <4>1. queue'[i] = queue[i]
        BY <1>2, <3>1, <3>2
      <4>. QED BY <1>4, <1>5, <3>2, <4>1
    <3>3. CASE i \notin 1 .. Len(queue)
      <4>1. queue'[i] = e
        BY <1>2, <3>1, <3>3
      <4>. QED BY <1>5, <2>2, <4>1 DEF Emits
    <3>. QED BY <3>2, <3>3
  <2>. QED BY <2>1, <2>2
<1>6. \A o \in Placements : pc'[o] = "new" => items'[o] = Nothing
  BY <1>1, CallKinds DEF Provenance
<1>7. \A d \in Cancellations : todo'[d] # {} => pc'[target'[d]] # "new"
  <2>1. \A d \in Cancellations : target[d] \in Calls
    BY CallKinds DEF Types, TypeOK
  <2>. QED BY <1>1, <2>1 DEF Provenance
<1>. QED BY <1>5, <1>6, <1>7 DEF Provenance, Nothing

LEMMA ProjectProvenance == ASSUME Types, Provenance, Project PROVE Provenance'
<1>1. UNCHANGED <<pc, target, items, todo>> /\ queue' = Tail(queue) /\ queue # <<>>
  BY DEF Project, requestVars
<1>2. queue \in Seq(Events)
  BY DEF Types
<1>3. ASSUME NEW i \in 1 .. Len(queue') PROVE i + 1 \in 1 .. Len(queue) /\ queue'[i] = queue[i + 1]
  BY <1>1, <1>2
<1>4. \A i \in 1 .. Len(queue') : queue'[i].type \in OfStock => pc'[queue'[i].order] # "new"
  BY <1>1, <1>3 DEF Provenance
<1>. QED BY <1>1, <1>4 DEF Provenance, Nothing

(* What the events in the queue will change, and what is to come out.      *)
Changes(p) == [i \in 1 .. Len(queue) |-> StockChange(queue[i], p)]
Differences(p) == [o \in Placements |-> reserved[o][p] - released[o][p]]

Balance(p) ==
    readStock[p] + Total(Changes(p), 1 .. Len(queue)) = Total(Differences(p), Placements)

LEMMA BooksAreTotals == ReadModelCatchesUp <=> \A p \in Products : Balance(p)
<1>1. ASSUME NEW p
      PROVE  /\ Sum(Changes(p)) = Total(Changes(p), 1 .. Len(queue))
             /\ Sum(Differences(p)) = Total(Differences(p), Placements)
  <2>1. DOMAIN Changes(p) = 1 .. Len(queue) /\ DOMAIN Differences(p) = Placements
    BY DEF Changes, Differences
  <2>. QED BY <2>1, SumIsTotal
<1>. QED BY <1>1 DEF ReadModelCatchesUp, Outstanding, Balance, Changes, Differences

LEMMA ChangeTypes ==
    ASSUME NEW e \in Events, NEW p \in Products
    PROVE  /\ Types => StockChange(e, p) \in Int
           /\ Types' => StockChange(e, p)' \in Int
<1>1. e.type \in {"StockReserved", "StockReleased"} => e.order \in Placements
  BY DEF Events
<1>2. Types => StockChange(e, p) \in Int
  BY <1>1 DEF StockChange, Types, TypeOK
<1>3. Types' => StockChange(e, p)' \in Int
  BY <1>1 DEF StockChange, Types, TypeOK
<1>. QED BY <1>2, <1>3

LEMMA ChangesTypes ==
    ASSUME Types, NEW p \in Products
    PROVE  /\ Len(queue) \in Nat /\ IsFiniteSet(1 .. Len(queue))
           /\ \A i \in 1 .. Len(queue) : queue[i] \in Events /\ Changes(p)[i] \in Int
<1>1. queue \in Seq(Events)
  BY DEF Types
<1>2. Len(queue) \in Nat
  BY <1>1
<1>3. ASSUME NEW i \in 1 .. Len(queue) PROVE queue[i] \in Events /\ Changes(p)[i] \in Int
  <2>1. queue[i] \in Events
    BY <1>1
  <2>2. Changes(p)[i] = StockChange(queue[i], p)
    BY DEF Changes
  <2>. QED BY <2>1, <2>2, ChangeTypes
<1>. QED BY <1>2, <1>3, FS_Interval

(* The items of the orders that events refer to are fixed.                 *)
ItemsFixed == \A o \in Placements : pc[o] # "new" => items'[o] = items[o]

LEMMA ChangesKept ==
    ASSUME Types, Provenance, ItemsFixed, NEW p
    PROVE  \A i \in 1 .. Len(queue) :
             \A e \in Events : e = queue[i] => StockChange(e, p)' = StockChange(e, p)
<1> SUFFICES ASSUME NEW i \in 1 .. Len(queue), NEW e \in Events, e = queue[i]
             PROVE  StockChange(e, p)' = StockChange(e, p)
  OBVIOUS
<1>1. e.type \in OfStock => e.order \in Placements /\ pc[e.order] # "new"
  BY DEF Provenance, Events, OfStock
<1>. QED BY <1>1 DEF StockChange, ItemsFixed, OfStock

(* The queue does not change, or gets another event, or loses its first.   *)
LEMMA QueuedChanges ==
    ASSUME Types, Types', Provenance, ItemsFixed, NEW p \in Products
    PROVE  /\ UNCHANGED queue =>
                Total(Changes(p), 1 .. Len(queue))' = Total(Changes(p), 1 .. Len(queue))
           /\ \A e \in Events : queue' = Append(queue, e) =>
                Total(Changes(p), 1 .. Len(queue))'
                  = Total(Changes(p), 1 .. Len(queue)) + StockChange(e, p)'
           /\ \A e \in Events : queue # <<>> /\ e = Head(queue) /\ queue' = Tail(queue) =>
                Total(Changes(p), 1 .. Len(queue))
                  = StockChange(e, p) + Total(Changes(p), 1 .. Len(queue))'
<1> DEFINE n == Len(queue)
           f == Changes(p)
           g == Changes(p)'
<1>1. /\ queue \in Seq(Events) /\ n \in Nat /\ IsFiniteSet(1 .. n)
      /\ \A i \in 1 .. n : queue[i] \in Events /\ f[i] \in Int
  BY ChangesTypes DEF Types
<1>2. \A i \in 1 .. Len(queue') : g[i] \in Int
  <2> SUFFICES ASSUME NEW i \in 1 .. Len(queue') PROVE g[i] \in Int
    OBVIOUS
  <2>1. PICK e \in Events : e = queue'[i]
    BY DEF Types
  <2>2. g[i] = StockChange(e, p)'
    BY <2>1 DEF Changes
  <2>. QED BY <2>2, ChangeTypes
<1>3. ASSUME NEW i \in 1 .. Len(queue'), NEW j \in 1 .. n, queue'[i] = queue[j]
      PROVE  g[i] = f[j]
  <2>1. PICK e \in Events : e = queue[j]
    BY <1>1
  <2>2. g[i] = StockChange(e, p)'
    BY <1>3, <2>1 DEF Changes
  <2>3. f[j] = StockChange(e, p)
    BY <2>1 DEF Changes
  <2>. QED BY <2>1, <2>2, <2>3, ChangesKept
<1>4. ASSUME UNCHANGED queue PROVE Total(g, 1 .. Len(queue')) = Total(f, 1 .. n)
  <2>1. \A i \in 1 .. n : g[i] = f[i]
    BY <1>3, <1>4
  <2>2. Total(g, 1 .. n) = Total(f, 1 .. n)
    <3> HIDE DEF f, g, n
    <3>. QED BY <1>1, <2>1, TotalCongruence
  <2>. QED BY <1>4, <2>2
<1>5. ASSUME NEW e \in Events, queue' = Append(queue, e)
      PROVE  Total(g, 1 .. Len(queue')) = Total(f, 1 .. n) + StockChange(e, p)'
  <2>1. Len(queue') = n + 1 /\ queue'[n + 1] = e /\ \A i \in 1 .. n : queue'[i] = queue[i]
    BY <1>1, <1>5
  <2>2. g[n + 1] = StockChange(e, p)'
    BY <1>1, <2>1 DEF Changes
  <2>3. \A i \in 1 .. n : f[i] \in Int /\ g[i] = f[i]
    BY <1>1, <1>3, <2>1
  <2>4. g[n + 1] \in Int
    BY <1>1, <1>2, <2>1
  <2>5. Total(g, 1 .. n + 1) = Total(f, 1 .. n) + g[n + 1]
    <3> HIDE DEF f, g, n
    <3>. QED BY <1>1, <2>3, <2>4, TotalAppend
  <2>. QED BY <2>1, <2>2, <2>5
<1>6. ASSUME NEW e \in Events, queue # <<>>, e = Head(queue), queue' = Tail(queue)
      PROVE  Total(f, 1 .. n) = StockChange(e, p) + Total(g, 1 .. Len(queue'))
  <2>1. /\ n - 1 \in Nat /\ Len(queue') = n - 1 /\ queue[1] = e /\ 1 \in 1 .. n
        /\ \A i \in 1 .. n - 1 : i + 1 \in 1 .. n /\ queue'[i] = queue[i + 1]
    BY <1>1, <1>6
  <2>2. f[1] = StockChange(e, p)
    BY <2>1 DEF Changes
  <2>3. \A i \in 1 .. n - 1 : g[i] = f[i + 1]
    BY <1>3, <2>1
  <2>4. Total(f, 1 .. (n - 1) + 1) = f[1] + Total(g, 1 .. n - 1)
    <3>1. \A i \in 1 .. (n - 1) + 1 : f[i] \in Int
      BY <1>1
    <3> HIDE DEF f, g, n
    <3>. QED BY <2>1, <2>3, <3>1, TotalTail
  <2>5. (n - 1) + 1 = n
    BY <1>1
  <2>. QED BY <2>1, <2>2, <2>4, <2>5
<1>. QED BY <1>4, <1>5, <1>6 DEF Total

LEMMA DifferenceTypes ==
    ASSUME NEW p \in Products
    PROVE  /\ Types => \A o \in Placements : Differences(p)[o] \in Int
           /\ Types' => \A o \in Placements : Differences(p)'[o] \in Int
<1>1. Types => \A o \in Placements : Differences(p)[o] \in Int
  BY DEF Differences, Types, TypeOK
<1>2. Types' => \A o \in Placements : Differences(p)'[o] \in Int
  BY DEF Differences, Types, TypeOK
<1>. QED BY <1>1, <1>2

BooksInv == Inv /\ Provenance /\ \A p \in Products : Balance(p)

(* What the streams and the queue get is the same.                         *)
LEMMA BalanceKept ==
    ASSUME BooksInv, Types', ItemsFixed, UNCHANGED readStock, NEW p \in Products, NEW d \in Int,
           Total(Differences(p), Placements)' = Total(Differences(p), Placements) + d,
           \/ UNCHANGED queue /\ d = 0
           \/ \E e \in Events : queue' = Append(queue, e) /\ StockChange(e, p)' = d,
           IsFiniteSet(Placements)
    PROVE  Balance(p)'
<1> DEFINE b == Total(Changes(p), 1 .. Len(queue))
           b1 == Total(Changes(p), 1 .. Len(queue))'
<1>1. Types /\ Provenance /\ Balance(p)
  BY DEF BooksInv, Inv
<1>2. b \in Int
  BY <1>1, ChangesTypes, TotalType
<1>3. b1 = b + d
  BY <1>1, <1>2, QueuedChanges
<1>4. Total(Differences(p), Placements) \in Int /\ readStock[p] \in Int
  BY <1>1, DifferenceTypes, TotalType DEF Types, TypeOK
<1>5. readStock[p] + b = Total(Differences(p), Placements)
  BY <1>1 DEF Balance
<1>6. readStock'[p] + b1 = Total(Differences(p), Placements)'
  <2> HIDE DEF b, b1
  <2>. QED BY <1>2, <1>3, <1>4, <1>5
<1>. QED BY <1>6 DEF Balance

(* Steps that reserve and release nothing.                                 *)
LEMMA QuietBooks ==
    ASSUME BooksInv, Types', ItemsFixed, IsFiniteSet(Placements),
           UNCHANGED <<readStock, reserved, released>>,
           UNCHANGED queue \/ \E e \in Events : queue' = Append(queue, e) /\ e.type \notin OfStock
    PROVE  \A p \in Products : Balance(p)'
<1> SUFFICES ASSUME NEW p \in Products PROVE Balance(p)'
  OBVIOUS
<1>1. \A o \in Placements : Differences(p)[o] \in Int
  BY DifferenceTypes DEF BooksInv, Inv
<1>2. Total(Differences(p), Placements)' = Total(Differences(p), Placements) + 0
  <2>1. Differences(p)' = Differences(p)
    BY DEF Differences
  <2>2. Total(Differences(p), Placements) \in Int
    BY <1>1, TotalType
  <2>3. Total(Differences(p), Placements)' = Total(Differences(p)', Placements)
    BY DEF Total
  <2>. QED BY <2>1, <2>2, <2>3
<1>3. \A e \in Events : e.type \notin OfStock => StockChange(e, p)' = 0
  BY DEF StockChange, OfStock
<1>. QED BY <1>2, <1>3, BalanceKept

(* Steps that reserve or release some of one order's items of a product.   *)
LEMMA StockBooks ==
    ASSUME BooksInv, Types', ItemsFixed, IsFiniteSet(Placements), UNCHANGED readStock,
           NEW o \in Placements, NEW s \in Products,
           \A q \in Placements \ {o} : reserved'[q] = reserved[q] /\ released'[q] = released[q],
           \A p \in Products \ {s} :
              reserved'[o][p] = reserved[o][p] /\ released'[o][p] = released[o][p],
           NEW d \in Int,
           reserved'[o][s] - released'[o][s] = reserved[o][s] - released[o][s] + d,
           \/ UNCHANGED queue /\ d = 0
           \/ \E e \in Events :
                 /\ queue' = Append(queue, e)
                 /\ \A p \in Products : StockChange(e, p)' = IF p = s THEN d ELSE 0
    PROVE  \A p \in Products : Balance(p)'
<1> SUFFICES ASSUME NEW p \in Products PROVE Balance(p)'
  OBVIOUS
<1> DEFINE n == IF p = s THEN d ELSE 0
           f == Differences(p)
           g == Differences(p)'
<1>1. \A q \in Placements : f[q] \in Int /\ g[q] \in Int
  BY DifferenceTypes DEF BooksInv, Inv
<1>2. (\A q \in Placements \ {o} : g[q] = f[q]) /\ g[o] = f[o] + n
  <2>1. \A q \in Placements : /\ f[q] = reserved[q][p] - released[q][p]
                              /\ g[q] = reserved'[q][p] - released'[q][p]
    BY DEF Differences
  <2>2. CASE p = s
    BY <2>1, <2>2
  <2>3. CASE p # s
    <3>1. g[o] = f[o]
      BY <2>1, <2>3
    <3>. QED BY <1>1, <2>1, <2>3, <3>1
  <2>. QED BY <2>2, <2>3
<1>3. Total(f, Placements) \in Int
  <2> HIDE DEF f
  <2>. QED BY <1>1, TotalType
<1>4. Total(g, Placements) = Total(f, Placements) + g[o] - f[o]
  <2> HIDE DEF f, g
  <2>. QED BY <1>1, <1>2, TotalUpdate
<1>5. n \in Int /\ f[o] \in Int /\ g[o] \in Int
  BY <1>1
<1>6. Total(g, Placements) = Total(f, Placements) + n
  <2> HIDE DEF f, g, n
  <2>. QED BY <1>2, <1>3, <1>4, <1>5
<1>7. Total(Differences(p), Placements)' = Total(Differences(p), Placements) + n
  BY <1>6 DEF Total
<1>8. \/ UNCHANGED queue /\ n = 0
      \/ \E e \in Events : queue' = Append(queue, e) /\ StockChange(e, p)' = n
  OBVIOUS
<1> HIDE DEF n, f, g
<1>. QED BY <1>5, <1>7, <1>8, BalanceKept

LEMMA ProjectBooks ==
    ASSUME BooksInv, Types', IsFiniteSet(Placements), Project
    PROVE  \A p \in Products : Balance(p)'
<1> SUFFICES ASSUME NEW p \in Products PROVE Balance(p)'
  OBVIOUS
<1> DEFINE b == Total(Changes(p), 1 .. Len(queue))
           b1 == Total(Changes(p), 1 .. Len(queue))'
<1>1. Types /\ Provenance /\ Balance(p)
  BY DEF BooksInv, Inv
<1>2. /\ queue # <<>> /\ queue' = Tail(queue)
      /\ UNCHANGED <<items, reserved, released>>
  BY DEF Project, requestVars, streamVars
<1>3. PICK e \in Events : e = Head(queue)
  BY <1>1, <1>2 DEF Types
<1>4. readStock'[p] = readStock[p] + StockChange(e, p)
  BY <1>3 DEF Project, ProjectEvent, ShowPlaced, ShowCancelled, ShowPiece, ShowCleared
<1>5. b = StockChange(e, p) + b1
  BY <1>1, <1>2, <1>3, QueuedChanges DEF ItemsFixed
<1>6. b1 \in Int
  <2>1. IsFiniteSet(1 .. Len(queue')) /\ \A i \in 1 .. Len(queue') : Changes(p)'[i] \in Int
    <3>1. Len(queue') \in Nat
      BY DEF Types
    <3>2. ASSUME NEW i \in 1 .. Len(queue') PROVE Changes(p)'[i] \in Int
      <4>1. PICK a \in Events : a = queue'[i]
        BY DEF Types
      <4>2. Changes(p)'[i] = StockChange(a, p)'
        BY <4>1 DEF Changes
      <4>. QED BY <4>2, ChangeTypes
    <3>. QED BY <3>1, <3>2, FS_Interval
  <2>2. Total(Changes(p)', 1 .. Len(queue')) \in Int
    BY <2>1, TotalType
  <2>. QED BY <2>2 DEF Total
<1>7. StockChange(e, p) \in Int /\ readStock[p] \in Int
  BY <1>1, ChangeTypes DEF Types, TypeOK
<1>8. readStock[p] + b = Total(Differences(p), Placements)
  BY <1>1 DEF Balance
<1>9. Differences(p)' = Differences(p)
  BY <1>2 DEF Differences
<1>10. Total(Differences(p), Placements)' = Total(Differences(p), Placements)
  BY <1>9 DEF Total
<1>11. readStock'[p] + b1 = Total(Differences(p), Placements)
  <2> HIDE DEF b, b1
  <2>. QED BY <1>4, <1>5, <1>6, <1>7, <1>8
<1>. QED BY <1>10, <1>11 DEF Balance

LEMMA QuietStep ==
    ASSUME BooksInv, Inv', IsFiniteSet(Placements),
           NEW c \in Calls, NEW here, NEW there \in PCs \ {"new"}, Step(c, here, there),
           UNCHANGED <<target, readStock, reserved, released>>,
           \A o \in Placements : o # c \/ here # "new" => items'[o] = items[o],
           \A d \in Cancellations : todo'[d] # {} => todo[d] # {} \/ pc[target[d]] # "new",
           UNCHANGED queue \/ \E e \in Events : queue' = Append(queue, e) /\ e.type \notin OfStock
    PROVE  BooksInv'
<1>1. Types /\ Types' /\ Provenance /\ pc[c] = here
  BY DEF BooksInv, Inv, Step
<1>2. ItemsFixed
  BY <1>1 DEF ItemsFixed
<1>3. Provenance'
  BY <1>1, StepProvenance DEF Emits
<1>4. \A p \in Products : Balance(p)'
  BY <1>1, <1>2, QuietBooks
<1>. QED BY <1>3, <1>4 DEF BooksInv

(* Item s of order o is reserved, or released, by call c.                  *)
LEMMA StockStep ==
    ASSUME BooksInv, Inv', IsFiniteSet(Placements),
           NEW c \in Calls, NEW here, NEW there \in PCs \ {"new"}, Step(c, here, there),
           UNCHANGED <<items, target, readStock>>,
           NEW o \in Placements, NEW s \in Products, pc'[o] # "new",
           \A d \in Cancellations : todo'[d] # {} => todo[d] # {},
           NEW n \in {0, items[o][s]}, NEW type \in OfStock,
           IF type = "StockReserved"
             THEN released' = released /\ reserved' = [reserved EXCEPT ![o][s] = @ + n]
             ELSE reserved' = reserved /\ released' = [released EXCEPT ![o][s] = @ + n],
           \/ queue' = queue /\ n = 0
           \/ queue' = Append(queue, StockEvent(type, o, s)) /\ n = items[o][s]
    PROVE  BooksInv'
<1> DEFINE d == IF type = "StockReserved" THEN n ELSE -n
           e == StockEvent(type, o, s)
<1>1. Types /\ Types' /\ Provenance
  BY DEF BooksInv, Inv
<1>2. e \in Events /\ e.type = type /\ e.order = o /\ e.product = s
  BY DEF StockEvent, Events, OfStock
<1>3. Provenance'
  <2>1. UNCHANGED queue \/ Emits(e)
    BY <1>2 DEF Emits
  <2> HIDE DEF e
  <2>. QED BY <1>1, <1>2, <2>1, StepProvenance
<1>4. n \in Int /\ d \in Int
  BY <1>1 DEF Types, TypeOK
<1>5. reserved \in [Placements -> [Products -> Nat]] /\ released \in [Placements -> [Products -> Nat]]
  BY <1>1 DEF Types, TypeOK
<1>6. /\ \A q \in Placements \ {o} : reserved'[q] = reserved[q] /\ released'[q] = released[q]
      /\ \A p \in Products \ {s} :
            reserved'[o][p] = reserved[o][p] /\ released'[o][p] = released[o][p]
      /\ reserved'[o][s] - released'[o][s] = reserved[o][s] - released[o][s] + d
  <2>1. CASE type = "StockReserved"
    BY <1>4, <1>5, <2>1
  <2>2. CASE type # "StockReserved"
    BY <1>4, <1>5, <2>2
  <2>. QED BY <2>1, <2>2
<1>7. n = items[o][s] => \A p \in Products : StockChange(e, p)' = IF p = s THEN d ELSE 0
  BY <1>2 DEF StockChange, OfStock
<1>8. ItemsFixed
  BY DEF ItemsFixed
<1>9. \/ UNCHANGED queue /\ d = 0
      \/ /\ queue' = Append(queue, e)
         /\ \A p \in Products : StockChange(e, p)' = IF p = s THEN d ELSE 0
  BY <1>7
<1>10. \A p \in Products : Balance(p)'
  <2> HIDE DEF d, e
  <2>. QED BY <1>1, <1>2, <1>4, <1>6, <1>8, <1>9, StockBooks
<1>. QED BY <1>3, <1>10 DEF BooksInv

(* The quiet steps of both handlers.                                       *)
LEMMA PlacementBooks ==
    ASSUME BooksInv, Inv', IsFiniteSet(Placements), NEW o \in Placements,
           ReadCart(o) \/ EmptyCart(o) \/ CheckStock(o) \/ Place(o) \/ ClearCart(o)
    PROVE  BooksInv'
<1>1. o \in Calls /\ o \notin Cancellations /\ Types
  BY CallKinds DEF BooksInv, Inv
<1>2. /\ UNCHANGED <<target, readStock, reserved, released>>
      /\ ~ReadCart(o) => UNCHANGED items
      /\ \A q \in Placements \ {o} : items'[q] = items[q]
      /\ \A d \in Cancellations : todo'[d] = todo[d]
  <2>1. /\ items \in [Placements -> [Products -> Nat]]
        /\ todo \in [Calls -> SUBSET Products] /\ Cancellations \subseteq Calls
    BY <1>1, CallKinds DEF Types, TypeOK
  <2>2. CASE ReadCart(o)
    BY <1>1, <2>1, <2>2 DEF ReadCart, streamVars, readVars
  <2>3. CASE EmptyCart(o) \/ ClearCart(o)
    BY <2>3 DEF EmptyCart, ClearCart, requestVars, streamVars, readVars
  <2>4. CASE CheckStock(o)
    BY <1>1, <2>1, <2>4 DEF CheckStock, streamVars, readVars
  <2>5. CASE Place(o)
    BY <1>1, <2>1, <2>5 DEF Place, readVars
  <2>. QED BY <2>2, <2>3, <2>4, <2>5
<1>3. PICK here \in PCs, there \in PCs \ {"new"} :
         Step(o, here, there) /\ (ReadCart(o) => here = "new")
  BY DEF ReadCart, EmptyCart, CheckStock, Place, ClearCart, PCs
<1>4. UNCHANGED queue \/ \E e \in Events : queue' = Append(queue, e) /\ e.type \notin OfStock
  <2>1. CASE Place(o)
    <3>1. OrderEvent("OrderPlaced", o) \in Events
      BY DEF OrderEvent, Events
    <3>. QED BY <2>1, <3>1 DEF Place, Emit, OrderEvent, OfStock
  <2>2. CASE ClearCart(o)
    <3>1. [type |-> "CartCleared", user |-> user[o]] \in Events
      BY <1>1 DEF Types, Events
    <3>. QED BY <2>2, <3>1 DEF ClearCart, Emit, OfStock
  <2>. QED BY <2>1, <2>2 DEF ReadCart, EmptyCart, CheckStock
<1>5. \A q \in Placements : q # o \/ here # "new" => items'[q] = items[q]
  BY <1>2, <1>3, StepTypes, <1>1 DEF Step, ReadCart
<1>. QED BY <1>1, <1>2, <1>3, <1>4, <1>5, QuietStep

LEMMA CancellationBooks ==
    ASSUME BooksInv, Inv', IsFiniteSet(Placements), NEW c \in Placements \cup Cancellations,
           (c \in Cancellations /\ (ReadOrder(c) \/ OrderNotFound(c)))
             \/ LoadOrder(c) \/ CancelOrder(c)
    PROVE  BooksInv'
<1>1. c \in Calls /\ Types /\ Provenance
  BY CallKinds DEF BooksInv, Inv
<1>2. UNCHANGED <<target, items, readStock, reserved, released>>
  BY DEF ReadOrder, OrderNotFound, LoadOrder, CancelOrder, requestVars, streamVars, readVars
<1>3. PICK here \in PCs, there \in PCs \ {"new"} : Step(c, here, there)
  BY DEF ReadOrder, OrderNotFound, LoadOrder, CancelOrder, PCs
<1>4. UNCHANGED queue \/ \E e \in Events : queue' = Append(queue, e) /\ e.type \notin OfStock
  <2>1. CASE CancelOrder(c)
    <3>1. OrderOf(c) \in Placements
      BY <1>1 DEF OrderOf, Types, TypeOK
    <3>2. OrderEvent("OrderCancelled", OrderOf(c)) \in Events
      BY <3>1 DEF OrderEvent, Events
    <3>. QED BY <2>1, <3>2 DEF CancelOrder, Emit, OrderEvent, OfStock
  <2>. QED BY <2>1 DEF ReadOrder, OrderNotFound, LoadOrder
<1>5. \A d \in Cancellations : todo'[d] # {} => todo[d] # {} \/ pc[target[d]] # "new"
  <2>1. CASE c \in Cancellations /\ ReadOrder(c)
    <3>1. todo' = [todo EXCEPT ![c] = InCart(target[c])]
      BY <2>1 DEF ReadOrder
    <3>2. InCart(target[c]) # {} => pc[target[c]] # "new"
      BY <1>1, <2>1 DEF Provenance, InCart, Nothing, Types, TypeOK
    <3>. QED BY <1>1, <3>1, <3>2 DEF Types, TypeOK
  <2>. QED BY <2>1 DEF OrderNotFound, LoadOrder, CancelOrder, requestVars
<1>. QED BY <1>1, <1>2, <1>3, <1>4, <1>5, QuietStep

LEMMA AdditionBooks ==
    ASSUME BooksInv, Inv', IsFiniteSet(Placements), NEW a \in Additions, AddToCart(a)
    PROVE  BooksInv'
<1>1. a \in Calls /\ user[a] \in Users
  BY CallKinds DEF BooksInv, Inv, Types
<1>2. UNCHANGED <<target, items, todo, readStock, reserved, released>>
  BY DEF AddToCart, requestVars, streamVars, readVars
<1>3. PICK there \in PCs \ {"new"} : Step(a, "new", there)
  BY DEF AddToCart, PCs
<1>4. UNCHANGED queue \/ \E e \in Events : queue' = Append(queue, e) /\ e.type \notin OfStock
  <2>1. \A p \in Products : CartEvent("ItemAddedToCart", user[a], p) \in Events
    BY <1>1 DEF CartEvent, Events
  <2>. QED BY <2>1 DEF AddToCart, Emit, CartEvent, OfStock
<1>. QED BY <1>1, <1>2, <1>3, <1>4, QuietStep

LEMMA ReserveBooks ==
    ASSUME BooksInv, Inv', IsFiniteSet(Placements), NEW o \in Placements, Reserve(o)
    PROVE  BooksInv'
<1>1. PICK s \in todo[o], outcome \in Outcomes :
         /\ \/ outcome = "recorded" /\ Step(o, "reserve", "reserve")
                 /\ todo' = [todo EXCEPT ![o] = @ \ {s}]
            \/ outcome # "recorded" /\ Step(o, "reserve", "release")
                 /\ todo' = [todo EXCEPT ![o] = held[o]]
         /\ reserved' = [reserved EXCEPT ![o][s] =
                            @ + IF Recorded(outcome) THEN items[o][s] ELSE 0]
         /\ Emit(outcome, StockEvent("StockReserved", o, s))
  BY DEF Reserve
<1>2. UNCHANGED <<items, target, readStock>> /\ released' = released
  BY DEF Reserve, readVars
<1>3. o \in Calls /\ o \notin Cancellations /\ s \in Products /\ Types
  BY CallKinds DEF BooksInv, Inv, Types, TypeOK
<1>4. PICK there \in PCs \ {"new"} : Step(o, "reserve", there)
  BY <1>1 DEF PCs
<1>5. pc'[o] # "new"
  BY <1>3, <1>4, StepTypes
<1>6. \A d \in Cancellations : todo'[d] = todo[d]
  <2>1. todo \in [Calls -> SUBSET Products] /\ Cancellations \subseteq Calls
    BY <1>3, CallKinds DEF Types, TypeOK
  <2>2. CASE todo' = [todo EXCEPT ![o] = @ \ {s}]
    BY <1>3, <2>1, <2>2
  <2>3. CASE todo' = [todo EXCEPT ![o] = held[o]]
    BY <1>3, <2>1, <2>3
  <2>. QED BY <1>1, <2>2, <2>3
<1>7. PICK n \in {0, items[o][s]} :
         /\ reserved' = [reserved EXCEPT ![o][s] = @ + n]
         /\ \/ queue' = queue /\ n = 0
            \/ queue' = Append(queue, StockEvent("StockReserved", o, s)) /\ n = items[o][s]
  BY <1>1 DEF Emit
<1>. QED BY <1>2, <1>3, <1>4, <1>5, <1>6, <1>7, StockStep DEF OfStock

(* The releases of a compensation and of a cancellation.                   *)
LEMMA ReleaseBooks ==
    ASSUME BooksInv, Inv', IsFiniteSet(Placements),
           NEW c \in Placements \cup Cancellations, NEW s \in todo[c], NEW outcome,
           NEW there \in PCs \ {"new"}, Step(c, "release", there),
           todo' = [todo EXCEPT ![c] = @ \ {s}],
           released' = [released EXCEPT ![OrderOf(c)][s] =
                           @ + IF Recorded(outcome) THEN items[OrderOf(c)][s] ELSE 0],
           Emit(outcome, StockEvent("StockReleased", OrderOf(c), s)),
           UNCHANGED <<items, target, reserved, readStock>>
    PROVE  BooksInv'
<1> DEFINE o == OrderOf(c)
<1>1. c \in Calls /\ o \in Placements /\ s \in Products /\ Types /\ Provenance
  BY CallKinds DEF BooksInv, Inv, Types, TypeOK, OrderOf
<1>2. pc[c] = "release" /\ pc'[c] # "new"
  BY <1>1, StepTypes
<1>3. pc'[o] # "new"
  <2>1. pc[o] # "new"
    BY <1>1, <1>2 DEF OrderOf, Provenance
  <2>. QED BY <1>1, <1>2, <2>1, StepTypes, CallKinds
<1>4. \A d \in Cancellations : todo'[d] # {} => todo[d] # {}
  BY <1>1, CallKinds DEF Types, TypeOK
<1>5. PICK n \in {0, items[o][s]} :
         /\ released' = [released EXCEPT ![o][s] = @ + n]
         /\ \/ queue' = queue /\ n = 0
            \/ queue' = Append(queue, StockEvent("StockReleased", o, s)) /\ n = items[o][s]
  BY DEF Emit
<1> HIDE DEF o
<1>. QED BY <1>1, <1>3, <1>4, <1>5, StockStep DEF OfStock

LEMMA NextBooks ==
    ASSUME IsFiniteSet(Placements), BooksInv, [Next]_vars PROVE BooksInv'
<1>1. Inv'
  BY NextInv DEF BooksInv
<1>2. ASSUME NEW o \in Placements, Compensate(o) PROVE BooksInv'
  <2>1. PICK s \in todo[o], outcome \in UndoOutcomes :
           /\ Step(o, "release", "release")
           /\ todo' = [todo EXCEPT ![o] = @ \ {s}]
           /\ released' = [released EXCEPT ![o][s] =
                              @ + IF Recorded(outcome) THEN items[o][s] ELSE 0]
           /\ Emit(outcome, StockEvent("StockReleased", o, s))
    BY <1>2 DEF Compensate
  <2>2. UNCHANGED <<items, target, reserved, readStock>> /\ "release" \in PCs \ {"new"}
    BY <1>2 DEF Compensate, readVars, PCs
  <2>3. OrderOf(o) = o
    BY DEF OrderOf
  <2>. QED BY <1>1, <2>1, <2>2, <2>3, ReleaseBooks
<1>3. ASSUME NEW c \in Cancellations, Release(c) PROVE BooksInv'
  <2>1. PICK s \in todo[c], outcome \in Outcomes :
           /\ Step(c, "release", IF outcome = "recorded" THEN "release" ELSE "failed")
           /\ todo' = [todo EXCEPT ![c] = @ \ {s}]
           /\ released' = [released EXCEPT ![target[c]][s] =
                 @ + IF Recorded(outcome) THEN items[target[c]][s] ELSE 0]
           /\ Emit(outcome, StockEvent("StockReleased", target[c], s))
    BY <1>3 DEF Release
  <2>2. PICK there \in PCs \ {"new"} : Step(c, "release", there)
    BY <2>1 DEF PCs
  <2>3. UNCHANGED <<items, target, reserved, readStock>> /\ OrderOf(c) = target[c]
    BY <1>3, CallKinds DEF Release, readVars, OrderOf
  <2>. QED BY <1>1, <2>1, <2>2, <2>3, ReleaseBooks
<1>4. ASSUME NEW o \in Placements, PlaceOrderStep(o) PROVE BooksInv'
  BY <1>1, <1>2, <1>4, PlacementBooks, CancellationBooks, ReserveBooks DEF PlaceOrderStep
<1>5. ASSUME NEW c \in Cancellations, CancelOrderStep(c) PROVE BooksInv'
  BY <1>1, <1>3, <1>5, CancellationBooks DEF CancelOrderStep
<1>6. CASE Project
  BY <1>1, <1>6, ProjectBooks, ProjectProvenance DEF BooksInv, Inv
<1>7. CASE UNCHANGED vars
  <2>1. /\ UNCHANGED <<pc, target, items, todo, reserved, released, queue, readStock>>
    BY <1>7 DEF vars, requestVars, streamVars, readVars
  <2>2. Provenance'
    BY <2>1 DEF BooksInv, Provenance, Nothing
  <2>3. \A p \in Products : Balance(p)'
    BY <1>1, <2>1, QuietBooks DEF BooksInv, Inv, ItemsFixed
  <2>. QED BY <1>1, <2>2, <2>3 DEF BooksInv
<1>. QED BY <1>1, <1>4, <1>5, <1>6, <1>7, AdditionBooks DEF Next

LEMMA InitBooks == ASSUME IsFiniteSet(Placements), Init PROVE BooksInv
<1>1. Inv /\ Provenance
  BY InitInv, InitProvenance
<1>2. ASSUME NEW p \in Products PROVE Balance(p)
  <2>1. Len(queue) = 0 /\ 1 .. Len(queue) = {} /\ readStock[p] = 0
    BY DEF Init, Nothing
  <2>2. \A o \in Placements : Differences(p)[o] = 0
    BY DEF Init, Differences, Nothing
  <2>3. Total(Differences(p), Placements) = Total(Differences(p), {})
    <3>1. \A o \in Placements : Differences(p)[o] \in Int
      BY <2>2
    <3>. QED BY <2>2, <3>1, TotalWithoutZeros
  <2>. QED BY <2>1, <2>3, TotalOfNothing DEF Balance
<1>. QED BY <1>1, <1>2 DEF BooksInv

(* However requests overlap and fail, and whatever events are on their     *)
(* way, the read model of the stock and the queue account together for     *)
(* every reservation and release.                                          *)
THEOREM ReadModelIsAccountedFor ==
    ASSUME IsFiniteSet(Placements)
    PROVE  Spec => []ReadModelCatchesUp
<1>1. BooksInv => ReadModelCatchesUp
  BY BooksAreTotals DEF BooksInv
<1>2. Init => BooksInv
  BY InitBooks
<1>3. BooksInv /\ [Next]_vars => BooksInv'
  BY NextBooks
<1>. QED BY <1>1, <1>2, <1>3, PTL DEF Spec

-----------------------------------------------------------------------------
(***************************************************************************)
(* Requests that take turns, do not fail and start on a current read       *)
(* model.  This is not the deployment; it is what NeverOversold and        *)
(* CancellationIsExact need.  An order may be cancelled by any number of   *)
(* calls, one after the other.                                             *)
(***************************************************************************)
TakeTurns == ~Overlap /\ ~Lag /\ Outcomes = {"recorded"}

Idle(c) == pc[c] \in {"new", "ok", "failed"}

(* Since nothing fails, a cancellation that was begun is of an order that  *)
(* was placed.                                                             *)
CancellationInv(c) ==
    /\ pc[c] \in {"new", "release", "append", "ok", "failed"}
    /\ pc[c] \in {"release", "append", "ok"} => pc[target[c]] = "ok"

(* A call that is running has given back the pieces of p.                  *)
GivingBack(o, p) ==
    \E c \in Cancellations :
        target[c] = o /\ (pc[c] = "append" \/ (pc[c] = "release" /\ p \notin todo[c]))

Ended(o) == {c \in Cancellations : target[c] = o /\ pc[c] \in {"ok", "failed"}}

(* The calls that have ended gave back everything k times; a running one   *)
(* goes through the items once more.                                       *)
RoundsAre(o, k) ==
    /\ k <= Cardinality(Ended(o))
    /\ k > 0 <=> status[o] = "cancelled"
    /\ \A p \in Products :
          released[o][p] = k * reserved[o][p]
                           + IF GivingBack(o, p) THEN reserved[o][p] ELSE 0

Rounds(o) == \E k \in Nat : RoundsAre(o, k)

(* An order exists, and can be found, once its placement has recorded it;  *)
(* it then has no way to fail, and is cancelled after that only.           *)
TurnInv(o) ==
    /\ pc[o] # "ok" => status[o] # "cancelled" /\ \A p \in Products : released[o][p] = 0
    /\ pc[o] \in {"new", "check", "reserve", "ok", "failed"}
    /\ status[o] # "none" => pc[o] \in {"reserve", "ok"}
    /\ readOrder[o] # "none" => status[o] # "none"
    /\ Rounds(o)

OneAtATime == \A c, d \in Calls : Idle(c) \/ Idle(d) \/ c = d

PlacedBefore == \A i \in 1 .. Len(queue) :
    queue[i].type = "OrderPlaced" => status[queue[i].order] # "none"

SerialInv ==
    /\ OneAtATime /\ PlacedBefore
    /\ \A c \in Cancellations : CancellationInv(c)
    /\ \A o \in Placements : TurnInv(o)

LEMMA Multiples ==
    \A k, n \in Nat : /\ 0 * n = 0 /\ k * 0 = 0 /\ k * n \in Nat
                      /\ (k + 1) * n = k * n + n
                      /\ k > 0 => k * n >= n
OBVIOUS

LEMMA EndedTypes ==
    ASSUME IsFiniteSet(Cancellations), NEW o
    PROVE  IsFiniteSet(Ended(o)) /\ Cardinality(Ended(o)) \in Nat
BY FS_Subset, FS_CardinalityType DEF Ended

LEMMA InitSerial == ASSUME IsFiniteSet(Cancellations), Init PROVE SerialInv
<1>1. \A c \in Calls : pc[c] = "new"
  BY DEF Init
<1>2. \A o \in Placements : /\ status[o] = "none" /\ readOrder[o] = "none"
                            /\ \A p \in Products : released[o][p] = 0 /\ reserved[o][p] = 0
  BY DEF Init, Nothing
<1>3. \A c \in Cancellations : target[c] \in Placements
  BY DEF Init
<1>4. Len(queue) = 0
  BY DEF Init
<1>5. ASSUME NEW o \in Placements PROVE Rounds(o)
  <2>1. \A p \in Products : ~GivingBack(o, p)
    BY <1>1, CallKinds DEF GivingBack
  <2>2. RoundsAre(o, 0)
    BY <1>2, <2>1, EndedTypes DEF RoundsAre
  <2>. QED BY <2>2 DEF Rounds
<1>. QED BY <1>1, <1>2, <1>3, <1>4, <1>5, CallKinds
         DEF SerialInv, OneAtATime, PlacedBefore, CancellationInv, TurnInv, Idle

(* The rounds of an order whose calls rest.                                *)
LEMMA RoundsKept ==
    ASSUME NEW o \in Placements, Rounds(o), UNCHANGED target,
           reserved'[o] = reserved[o], released'[o] = released[o],
           status'[o] = "cancelled" <=> status[o] = "cancelled",
           \A c \in Cancellations : target[c] = o => pc'[c] = pc[c] /\ todo'[c] = todo[c]
    PROVE  Rounds(o)'
<1>1. PICK k \in Nat : RoundsAre(o, k)
  BY DEF Rounds
<1>2. Ended(o)' = Ended(o) /\ \A p \in Products : GivingBack(o, p)' <=> GivingBack(o, p)
  BY DEF Ended, GivingBack
<1>3. RoundsAre(o, k)'
  BY <1>1, <1>2 DEF RoundsAre
<1>. QED BY <1>3 DEF Rounds

(* While one call takes a step, the others rest.                           *)
LEMMA OthersRest ==
    ASSUME TakeTurns, Types, OneAtATime, NEW c \in Calls, NEW here, NEW there \in PCs,
           Step(c, here, there), here \notin {"ok", "failed"}, here = "new" => MayStart(c)
    PROVE  /\ OneAtATime'
           /\ pc[c] = here /\ pc'[c] = there
           /\ \A d \in Calls \ {c} : Idle(d) /\ pc'[d] = pc[d]
<1>1. pc[c] = here /\ pc'[c] = there /\ \A d \in Calls \ {c} : pc'[d] = pc[d]
  BY StepTypes
<1>2. \A d \in Calls \ {c} : Idle(d)
  <2>1. CASE here = "new"
    BY <2>1 DEF MayStart, TakeTurns, Idle
  <2>2. CASE here # "new"
    BY <1>1, <2>2 DEF OneAtATime, Idle
  <2>. QED BY <2>1, <2>2
<1>3. OneAtATime'
  BY <1>1, <1>2 DEF OneAtATime, Idle
<1>. QED BY <1>1, <1>2, <1>3

(* Orders that are in the queue stay placed.                               *)
LEMMA StillPlaced ==
    ASSUME Types, PlacedBefore, \A o \in Placements : status'[o] = "none" => status[o] = "none",
           \/ UNCHANGED queue
           \/ \E e \in Events :
                 queue' = Append(queue, e) /\ (e.type = "OrderPlaced" => status'[e.order] # "none")
    PROVE  PlacedBefore'
<1>1. queue \in Seq(Events)
  BY DEF Types
<1>2. \A e \in Events : e.type = "OrderPlaced" => e.order \in Placements
  BY DEF Events
<1>3. ASSUME NEW i \in 1 .. Len(queue), queue[i].type = "OrderPlaced"
      PROVE  status'[queue[i].order] # "none"
  <2>1. queue[i] \in Events
    BY <1>1
  <2>. QED BY <1>2, <1>3, <2>1 DEF PlacedBefore
<1>4. ASSUME NEW i \in 1 .. Len(queue'), queue'[i].type = "OrderPlaced"
      PROVE  status'[queue'[i].order] # "none"
  <2>1. CASE UNCHANGED queue
    BY <1>3, <1>4, <2>1
  <2>2. ASSUME NEW e \in Events, queue' = Append(queue, e),
               e.type = "OrderPlaced" => status'[e.order] # "none"
        PROVE  status'[queue'[i].order] # "none"
    <3>1. CASE i \in 1 .. Len(queue)
      <4>1. queue'[i] = queue[i]
        BY <1>1, <2>2, <3>1
      <4>. QED BY <1>3, <1>4, <3>1, <4>1
    <3>2. CASE i \notin 1 .. Len(queue)
      <4>1. queue'[i] = e
        BY <1>1, <2>2, <3>2
      <4>. QED BY <1>4, <2>2, <4>1
    <3>. QED BY <3>1, <3>2
  <2>. QED BY <2>1, <2>2
<1>. QED BY <1>4 DEF PlacedBefore

(* A placement takes a step: its order is not being cancelled.             *)
LEMMA PlacementTurn ==
    ASSUME TakeTurns, IsFiniteSet(Cancellations), Inv, Types', SerialInv, NEW o \in Placements,
           NEW here \in {"new", "check", "reserve"},
           NEW there \in {"check", "reserve", "ok", "failed"},
           Step(o, here, there), here = "new" => MayStart(o),
           UNCHANGED <<target, released, readOrder>>,
           \A q \in Placements \ {o} : status'[q] = status[q] /\ reserved'[q] = reserved[q],
           \A d \in Cancellations : todo'[d] = todo[d],
           status'[o] = "pending" \/ status'[o] = status[o],
           status'[o] # "none" => there \in {"reserve", "ok"},
           \/ UNCHANGED queue
           \/ \E e \in Events :
                 queue' = Append(queue, e) /\ (e.type = "OrderPlaced" => status'[e.order] # "none")
    PROVE  SerialInv'
<1>1. Types /\ o \in Calls /\ there \in PCs
  BY CallKinds DEF Inv, PCs
<1>2. /\ OneAtATime' /\ pc[o] = here /\ pc'[o] = there
      /\ \A d \in Calls \ {o} : Idle(d) /\ pc'[d] = pc[d]
  BY <1>1, OthersRest DEF SerialInv
<1>3. PlacedBefore'
  <2>1. \A q \in Placements : status'[q] = "none" => status[q] = "none"
    OBVIOUS
  <2>. QED BY <1>1, <2>1, StillPlaced DEF SerialInv
<1>4. ASSUME NEW c \in Cancellations PROVE CancellationInv(c)'
  <2>1. CancellationInv(c) /\ pc'[c] = pc[c] /\ target[c] \in Placements
    BY <1>1, <1>2, CallKinds DEF SerialInv, Types, TypeOK
  <2>2. CASE target[c] = o
    <3>1. pc[c] \in {"new", "failed"}
      BY <1>2, <2>1, <2>2, CallKinds DEF CancellationInv, Idle
    <3>. QED BY <2>1, <2>2, <3>1 DEF CancellationInv
  <2>3. CASE target[c] # o
    <3>1. pc'[target[c]] = pc[target[c]]
      BY <1>2, <2>1, <2>3, CallKinds
    <3>. QED BY <2>1, <2>3, <3>1 DEF CancellationInv
  <2>. QED BY <2>2, <2>3
<1>5. ASSUME NEW q \in Placements PROVE TurnInv(q)'
  <2>1. TurnInv(q) /\ \A d \in Cancellations : pc'[d] = pc[d]
    BY <1>2, CallKinds DEF SerialInv
  <2>2. CASE q = o
    <3>1. Rounds(o)'
      <4>1. \A d \in Cancellations : target[d] = o => pc[d] \in {"new", "failed"}
        BY <1>2, CallKinds DEF SerialInv, CancellationInv, Idle
      <4>2. \A p \in Products : ~GivingBack(o, p)'
        BY <2>1, <4>1 DEF GivingBack
      <4>3. status'[o] # "cancelled" /\ \A p \in Products : released'[o][p] = 0
        BY <1>2, <2>1, <2>2 DEF TurnInv
      <4>4. \A p \in Products : reserved'[o][p] \in Nat
        BY DEF Types, TypeOK
      <4>5. Cardinality(Ended(o)') \in Nat
        <5>1. Ended(o)' = Ended(o)
          BY <2>1 DEF Ended
        <5>. QED BY <5>1, EndedTypes
      <4>6. RoundsAre(o, 0)'
        BY <4>2, <4>3, <4>4, <4>5, Multiples DEF RoundsAre
      <4>. QED BY <4>6 DEF Rounds
    <3>. QED BY <1>2, <2>1, <2>2, <3>1 DEF TurnInv
  <2>3. CASE q # o
    <3>1. pc'[q] = pc[q]
      BY <1>2, <2>3, CallKinds
    <3>2. Rounds(q)'
      BY <2>1, <2>3, RoundsKept DEF TurnInv
    <3>. QED BY <2>1, <2>3, <3>1, <3>2 DEF TurnInv
  <2>. QED BY <2>2, <2>3
<1>. QED BY <1>2, <1>3, <1>4, <1>5 DEF SerialInv

(* A cancellation takes a step, or an addition does.                       *)
LEMMA OtherTurn ==
    ASSUME TakeTurns, Inv, SerialInv, NEW c \in Cancellations \cup Additions,
           NEW here \in {"new", "release", "append"}, NEW there \in PCs,
           Step(c, here, there), here = "new" => MayStart(c),
           UNCHANGED <<target, reserved, readOrder>>,
           \A q \in Placements :
              \/ status'[q] = status[q] /\ released'[q] = released[q]
              \/ /\ c \in Cancellations /\ target[c] = q /\ pc[q] = "ok"
                 /\ status'[q] # "none" /\ status[q] # "none",
           \A d \in Cancellations \ {c} : todo'[d] = todo[d],
           c \in Cancellations => CancellationInv(c)' /\ Rounds(target[c])',
           UNCHANGED queue \/ \E e \in Events : queue' = Append(queue, e) /\ e.type # "OrderPlaced"
    PROVE  SerialInv'
<1>1. Types /\ c \in Calls /\ c \notin Placements
  BY CallKinds DEF Inv
<1>2. /\ OneAtATime' /\ pc[c] = here /\ pc'[c] = there
      /\ \A d \in Calls \ {c} : Idle(d) /\ pc'[d] = pc[d]
  BY <1>1, OthersRest DEF SerialInv
<1>3. PlacedBefore'
  BY <1>1, StillPlaced DEF SerialInv
<1>4. ASSUME NEW d \in Cancellations, d # c PROVE CancellationInv(d)'
  <2>1. CancellationInv(d) /\ pc'[d] = pc[d] /\ target[d] \in Placements
    BY <1>1, <1>2, <1>4, CallKinds DEF SerialInv, Types, TypeOK
  <2>2. pc'[target[d]] = pc[target[d]]
    BY <1>1, <1>2, <2>1, CallKinds
  <2>. QED BY <2>1, <2>2 DEF CancellationInv
<1>5. ASSUME NEW q \in Placements PROVE TurnInv(q)'
  <2>1. TurnInv(q) /\ pc'[q] = pc[q]
    BY <1>1, <1>2, CallKinds DEF SerialInv
  <2>2. CASE ~(c \in Cancellations /\ target[c] = q)
    <3>1. status'[q] = status[q] /\ released'[q] = released[q]
      BY <2>2
    <3>2. \A d \in Cancellations : target[d] = q => pc'[d] = pc[d] /\ todo'[d] = todo[d]
      BY <1>2, <2>2, CallKinds
    <3>3. Rounds(q)'
      BY <2>1, <3>1, <3>2, RoundsKept DEF TurnInv
    <3>. QED BY <2>1, <3>1, <3>3 DEF TurnInv
  <2>3. CASE c \in Cancellations /\ target[c] = q
    BY <2>1, <2>3 DEF TurnInv
  <2>. QED BY <2>2, <2>3
<1>. QED BY <1>2, <1>3, <1>4, <1>5 DEF SerialInv

LEMMA PlacementSerial ==
    ASSUME TakeTurns, IsFiniteSet(Cancellations), Inv, Types', SerialInv,
           NEW o \in Placements, PlaceOrderStep(o)
    PROVE  SerialInv'
<1>1. Types /\ o \in Calls /\ o \notin Cancellations /\ TurnInv(o)
  BY CallKinds DEF Inv, SerialInv
<1>2. \A d \in Cancellations : /\ (ReadCart(o) \/ CheckStock(o) \/ Place(o) \/ Reserve(o))
                                    => todo'[d] = todo[d]
  <2>1. todo \in [Calls -> SUBSET Products] /\ Cancellations \subseteq Calls
    BY <1>1, CallKinds DEF Types, TypeOK
  <2>2. \A S : todo' = [todo EXCEPT ![o] = S] => \A d \in Cancellations : todo'[d] = todo[d]
    BY <1>1, <2>1
  <2>. QED BY <2>2 DEF ReadCart, CheckStock, Place, Reserve
<1>3. CASE ReadCart(o) \/ EmptyCart(o)
  <2>1. PICK there \in {"check", "failed"} : Step(o, "new", there) /\ MayStart(o)
    BY <1>3 DEF ReadCart, EmptyCart
  <2>2. status[o] = "none"
    BY <2>1 DEF Step, SerialInv, TurnInv
  <2>3. /\ UNCHANGED <<target, released, readOrder, status, reserved, queue>>
        /\ \A d \in Cancellations : todo'[d] = todo[d]
    BY <1>2, <1>3 DEF ReadCart, EmptyCart, requestVars, streamVars, readVars
  <2>. QED BY <2>1, <2>2, <2>3, PlacementTurn
<1>4. CASE CheckStock(o)
  <2>1. PICK there \in {"check", "failed"} : Step(o, "check", there)
    BY <1>4 DEF CheckStock
  <2>2. status[o] = "none"
    BY <2>1 DEF Step, SerialInv, TurnInv
  <2>3. UNCHANGED <<target, released, readOrder, status, reserved, queue>>
    BY <1>4 DEF CheckStock, streamVars, readVars
  <2>. QED BY <1>2, <1>4, <2>1, <2>2, <2>3, PlacementTurn
<1>5. CASE Place(o)
  <2>1. /\ Step(o, "check", "reserve")
        /\ status' = [status EXCEPT ![o] = "pending"]
        /\ queue' = Append(queue, OrderEvent("OrderPlaced", o))
    BY <1>5 DEF Place, TakeTurns, Emit, Recorded
  <2>2. UNCHANGED <<target, released, readOrder, reserved>>
    BY <1>5 DEF Place, readVars
  <2>3. status'[o] = "pending" /\ \A q \in Placements \ {o} : status'[q] = status[q]
    BY <1>1, <2>1 DEF Types, TypeOK
  <2>4. OrderEvent("OrderPlaced", o) \in Events /\ OrderEvent("OrderPlaced", o).order = o
    BY DEF OrderEvent, Events
  <2>. QED BY <1>2, <1>5, <2>1, <2>2, <2>3, <2>4, PlacementTurn
<1>6. CASE Reserve(o)
  <2>1. Step(o, "reserve", "reserve")
    BY <1>6 DEF Reserve, TakeTurns
  <2>2. \A q \in Placements \ {o} : reserved'[q] = reserved[q]
    BY <1>1, <1>6 DEF Reserve, Types, TypeOK
  <2>3. \E e \in Events : queue' = Append(queue, e) /\ e.type # "OrderPlaced"
    <3>1. \A s \in Products : StockEvent("StockReserved", o, s) \in Events
      BY DEF StockEvent, Events
    <3>2. todo[o] \subseteq Products
      BY <1>1 DEF Types, TypeOK
    <3>. QED BY <1>6, <3>1, <3>2 DEF Reserve, TakeTurns, Emit, Recorded, StockEvent
  <2>4. UNCHANGED <<target, released, readOrder, status>>
    BY <1>6 DEF Reserve, readVars
  <2>. QED BY <1>2, <1>6, <2>1, <2>2, <2>3, <2>4, PlacementTurn
<1>7. CASE ClearCart(o)
  <2>1. Step(o, "reserve", "ok") /\ UNCHANGED <<target, released, readOrder, status, reserved, todo>>
    BY <1>7 DEF ClearCart, requestVars, streamVars, readVars
  <2>2. \E e \in Events : queue' = Append(queue, e) /\ e.type # "OrderPlaced"
    <3>1. [type |-> "CartCleared", user |-> user[o]] \in Events
      BY <1>1 DEF Types, Events
    <3>. QED BY <1>7, <3>1 DEF ClearCart, TakeTurns, Emit, Recorded
  <2>. QED BY <2>1, <2>2, PlacementTurn
<1>8. CASE Compensate(o) \/ LoadOrder(o) \/ CancelOrder(o)
  BY <1>1, <1>8 DEF Compensate, LoadOrder, CancelOrder, Step, TurnInv
<1>. QED BY <1>3, <1>4, <1>5, <1>6, <1>7, <1>8 DEF PlaceOrderStep

(* An order whose placement went through has its whole cart reserved.      *)
LEMMA AllReserved ==
    ASSUME Inv, NEW o \in Placements, pc[o] = "ok", NEW p \in Products
    PROVE  /\ reserved[o][p] = items[o][p] /\ status[o] # "none"
           /\ p \notin InCart(o) => reserved[o][p] = 0
<1>1. PlacementInv(o) /\ items[o][p] \in Nat
  BY DEF Inv, OrderOK, Types, TypeOK
<1>2. CASE p \in held[o]
  BY <1>1, <1>2 DEF PlacementInv
<1>3. CASE p \notin held[o]
  BY <1>1, <1>3 DEF PlacementInv, InCart
<1>. QED BY <1>1, <1>2, <1>3 DEF PlacementInv, InCart

(* The order of the call that takes the step, as its rounds count it.      *)
LEMMA OneGives ==
    ASSUME NEW c \in Cancellations, NEW o, target[c] = o, UNCHANGED target,
           \A d \in Cancellations \ {c} : Idle(d) /\ pc'[d] = pc[d]
    PROVE  \A p : /\ GivingBack(o, p) <=>
                        pc[c] = "append" \/ (pc[c] = "release" /\ p \notin todo[c])
                  /\ GivingBack(o, p)' <=>
                        pc'[c] = "append" \/ (pc'[c] = "release" /\ p \notin todo'[c])
BY DEF GivingBack, Idle

LEMMA EndedOnce ==
    ASSUME IsFiniteSet(Cancellations), NEW c \in Cancellations, NEW o, target[c] = o,
           UNCHANGED target, pc[c] \notin {"ok", "failed"},
           \A d \in Cancellations \ {c} : pc'[d] = pc[d]
    PROVE  /\ Cardinality(Ended(o)) \in Nat
           /\ Cardinality(Ended(o))' =
                 Cardinality(Ended(o)) + IF pc'[c] \in {"ok", "failed"} THEN 1 ELSE 0
<1>1. IsFiniteSet(Ended(o)) /\ Cardinality(Ended(o)) \in Nat /\ c \notin Ended(o)
  BY EndedTypes DEF Ended
<1>2. CASE pc'[c] \in {"ok", "failed"}
  <2>1. Ended(o)' = Ended(o) \cup {c}
    BY <1>2 DEF Ended
  <2>. QED BY <1>1, <1>2, <2>1, FS_AddElement
<1>3. CASE pc'[c] \notin {"ok", "failed"}
  <2>1. Ended(o)' = Ended(o)
    BY <1>3 DEF Ended
  <2>. QED BY <1>1, <1>3, <2>1
<1>. QED BY <1>2, <1>3

LEMMA CancellationSerial ==
    ASSUME TakeTurns, IsFiniteSet(Cancellations), Inv, SerialInv,
           NEW c \in Cancellations, CancelOrderStep(c)
    PROVE  SerialInv'
<1> DEFINE o == target[c]
<1>1. /\ Types /\ c \in Calls /\ c \notin Placements /\ o \in Placements /\ o \in Calls /\ o # c
      /\ OneAtATime
  BY CallKinds DEF Inv, Types, TypeOK, SerialInv
<1>2. CancellationInv(c) /\ TurnInv(o) /\ OrderOf(c) = o
  BY <1>1 DEF SerialInv, OrderOf
<1>3. PICK k \in Nat : RoundsAre(o, k)
  BY <1>2 DEF TurnInv, Rounds
<1>4. todo \in [Calls -> SUBSET Products] /\ released \in [Placements -> [Products -> Nat]]
      /\ status \in [Placements -> Statuses] /\ reserved \in [Placements -> [Products -> Nat]]
  BY <1>1 DEF Types, TypeOK
<1>5. ASSUME NEW here \in {"new", "release", "append"}, NEW there \in PCs, Step(c, here, there),
             here = "new" => MayStart(c), UNCHANGED target
      PROVE  /\ pc[c] = here /\ pc'[c] = there /\ pc'[o] = pc[o]
             /\ Cardinality(Ended(o)) \in Nat
             /\ Cardinality(Ended(o))' =
                   Cardinality(Ended(o)) + IF there \in {"ok", "failed"} THEN 1 ELSE 0
             /\ \A p : /\ GivingBack(o, p) <=>
                              here = "append" \/ (here = "release" /\ p \notin todo[c])
                       /\ GivingBack(o, p)' <=>
                              there = "append" \/ (there = "release" /\ p \notin todo'[c])
  <2>1. /\ pc[c] = here /\ pc'[c] = there
        /\ \A d \in Calls \ {c} : Idle(d) /\ pc'[d] = pc[d]
    BY <1>1, <1>5, OthersRest
  <2>2. /\ \A d \in Cancellations \ {c} : Idle(d) /\ pc'[d] = pc[d]
        /\ pc[c] \notin {"ok", "failed"} /\ pc'[o] = pc[o]
    BY <1>1, <2>1, CallKinds
  <2>3. \A p : /\ GivingBack(o, p) <=>
                     pc[c] = "append" \/ (pc[c] = "release" /\ p \notin todo[c])
               /\ GivingBack(o, p)' <=>
                     pc'[c] = "append" \/ (pc'[c] = "release" /\ p \notin todo'[c])
    BY <1>5, <2>2, OneGives
  <2>4. /\ Cardinality(Ended(o)) \in Nat
        /\ Cardinality(Ended(o))' =
              Cardinality(Ended(o)) + IF pc'[c] \in {"ok", "failed"} THEN 1 ELSE 0
    BY <1>5, <2>2, EndedOnce
  <2>. QED BY <2>1, <2>2, <2>3, <2>4
<1>6. \A p \in Products : k * reserved[o][p] \in Nat /\ reserved[o][p] \in Nat
                          /\ (k + 1) * reserved[o][p] = k * reserved[o][p] + reserved[o][p]
  BY <1>1, <1>4, Multiples
<1>7. CASE ReadOrder(c)
  <2>1. /\ Step(c, "new", "release") /\ MayStart(c) /\ readOrder[o] # "none"
        /\ todo' = [todo EXCEPT ![c] = InCart(o)]
        /\ UNCHANGED <<target, reserved, readOrder, status, released, queue>>
    BY <1>7 DEF ReadOrder, streamVars, readVars
  <2>2. /\ pc[c] = "new" /\ pc'[c] = "release" /\ pc'[o] = pc[o] /\ "release" \in PCs
        /\ Cardinality(Ended(o))' = Cardinality(Ended(o))
        /\ \A p : ~GivingBack(o, p) /\ (GivingBack(o, p)' <=> p \notin todo'[c])
    BY <1>5, <2>1 DEF PCs
  <2>3. pc[o] = "ok"
    BY <1>1, <1>2, <2>1 DEF TurnInv, MayStart, TakeTurns
  <2>4. todo'[c] = InCart(o) /\ \A d \in Cancellations \ {c} : todo'[d] = todo[d]
    BY <1>1, <1>4, <2>1, CallKinds
  <2>5. \A p \in Products : p \notin InCart(o) => reserved[o][p] = 0
    BY <1>1, <2>3, AllReserved
  <2>6. RoundsAre(o, k)'
    BY <1>3, <1>6, <2>1, <2>2, <2>4, <2>5 DEF RoundsAre
  <2>7. CancellationInv(c)' /\ Rounds(target[c])'
    BY <1>2, <2>1, <2>2, <2>3, <2>6 DEF CancellationInv, Rounds
  <2>. QED BY <2>1, <2>2, <2>4, <2>7, OtherTurn
<1>8. CASE OrderNotFound(c)
  <2>1. /\ Step(c, "new", "failed") /\ MayStart(c)
        /\ UNCHANGED <<target, reserved, readOrder, status, released, queue, todo>>
    BY <1>8 DEF OrderNotFound, requestVars, streamVars, readVars
  <2>2. /\ pc[c] = "new" /\ pc'[c] = "failed" /\ pc'[o] = pc[o] /\ "failed" \in PCs
        /\ Cardinality(Ended(o)) \in Nat /\ Cardinality(Ended(o))' = Cardinality(Ended(o)) + 1
        /\ \A p : ~GivingBack(o, p) /\ ~GivingBack(o, p)'
    BY <1>5, <2>1 DEF PCs
  <2>3. RoundsAre(o, k)'
    BY <1>3, <2>1, <2>2 DEF RoundsAre
  <2>4. CancellationInv(c)' /\ Rounds(target[c])'
    BY <1>2, <2>1, <2>2, <2>3 DEF CancellationInv, Rounds
  <2>. QED BY <2>1, <2>2, <2>4, OtherTurn
<1>9. CASE Release(c)
  <2>1. PICK s \in todo[c] :
           /\ Step(c, "release", "release")
           /\ todo' = [todo EXCEPT ![c] = @ \ {s}]
           /\ released' = [released EXCEPT ![o][s] = @ + items[o][s]]
           /\ queue' = Append(queue, StockEvent("StockReleased", o, s))
    BY <1>9 DEF Release, TakeTurns, Emit, Recorded
  <2>2. UNCHANGED <<target, items, reserved, readOrder, status>>
    BY <1>9 DEF Release, readVars
  <2>3. /\ pc[c] = "release" /\ pc'[c] = "release" /\ pc'[o] = pc[o] /\ "release" \in PCs
        /\ Cardinality(Ended(o))' = Cardinality(Ended(o))
        /\ \A p : (GivingBack(o, p) <=> p \notin todo[c]) /\ (GivingBack(o, p)' <=> p \notin todo'[c])
    BY <1>5, <2>1, <2>2 DEF PCs
  <2>4. pc[o] = "ok" /\ status[o] # "none"
    BY <1>1, <1>2, <2>3, AllReserved DEF CancellationInv, Inv, OrderOK, PlacementInv
  <2>5. s \in Products /\ reserved[o][s] = items[o][s]
    BY <1>1, <1>4, <2>4, AllReserved
  <2>6. /\ released'[o][s] = released[o][s] + reserved[o][s]
        /\ \A p \in Products \ {s} : released'[o][p] = released[o][p]
        /\ \A q \in Placements \ {o} : released'[q] = released[q]
    BY <1>1, <1>4, <2>1, <2>5
  <2>7. todo'[c] = todo[c] \ {s} /\ \A d \in Cancellations \ {c} : todo'[d] = todo[d]
    BY <1>1, <1>4, <2>1, CallKinds
  <2>8. RoundsAre(o, k)'
    <3>1. ASSUME NEW p \in Products
          PROVE  released'[o][p] = k * reserved'[o][p]
                                   + IF GivingBack(o, p)' THEN reserved'[o][p] ELSE 0
      <4>1. released[o][p] = k * reserved[o][p]
                             + IF GivingBack(o, p) THEN reserved[o][p] ELSE 0
        BY <1>3 DEF RoundsAre
      <4>2. CASE p = s
        BY <1>6, <2>1, <2>2, <2>3, <2>6, <2>7, <4>1, <4>2
      <4>3. CASE p # s
        BY <2>2, <2>3, <2>6, <2>7, <4>1, <4>3
      <4>. QED BY <4>2, <4>3
    <3>. QED BY <1>3, <2>2, <2>3, <3>1 DEF RoundsAre
  <2>9. CancellationInv(c)' /\ Rounds(target[c])'
    BY <1>2, <2>2, <2>3, <2>4, <2>8 DEF CancellationInv, Rounds
  <2>10. \E e \in Events : queue' = Append(queue, e) /\ e.type # "OrderPlaced"
    <3>1. StockEvent("StockReleased", o, s) \in Events
      BY <1>1, <2>5 DEF StockEvent, Events
    <3>. QED BY <2>1, <3>1 DEF StockEvent
  <2>. QED BY <2>1, <2>2, <2>3, <2>4, <2>6, <2>7, <2>9, <2>10, OtherTurn
<1>10. CASE LoadOrder(c)
  <2>1. PICK there \in {"append", "failed"} :
           /\ todo[c] = {} /\ Step(c, "release", there)
           /\ there = "failed" => status[o] # "pending"
           /\ UNCHANGED <<target, reserved, readOrder, status, released, queue, todo>>
    BY <1>1, <1>2, <1>10 DEF LoadOrder, TakeTurns, OutcomesOf, requestVars, streamVars, readVars
  <2>2. /\ pc[c] = "release" /\ pc'[c] = there /\ pc'[o] = pc[o] /\ there \in PCs
        /\ Cardinality(Ended(o)) \in Nat
        /\ Cardinality(Ended(o))' =
              Cardinality(Ended(o)) + IF there = "failed" THEN 1 ELSE 0
        /\ \A p : GivingBack(o, p) /\ (GivingBack(o, p)' <=> there = "append")
    BY <1>5, <2>1 DEF PCs
  <2>3. pc[o] = "ok" /\ status[o] # "none"
    BY <1>1, <1>2, <2>2, AllReserved DEF CancellationInv, Inv, OrderOK, PlacementInv
  <2>4. Rounds(o)'
    <3>1. CASE there = "append"
      <4>1. RoundsAre(o, k)'
        BY <1>3, <2>1, <2>2, <3>1 DEF RoundsAre
      <4>. QED BY <4>1 DEF Rounds
    <3>2. CASE there = "failed"
      <4>1. status[o] = "cancelled"
        BY <1>1, <1>4, <2>1, <2>3, <3>2 DEF Statuses
      <4>2. RoundsAre(o, k + 1)'
        BY <1>3, <1>6, <2>1, <2>2, <3>2, <4>1 DEF RoundsAre
      <4>. QED BY <4>2 DEF Rounds
    <3>. QED BY <3>1, <3>2
  <2>5. CancellationInv(c)' /\ Rounds(target[c])'
    BY <1>2, <2>1, <2>2, <2>3, <2>4 DEF CancellationInv
  <2>. QED BY <2>1, <2>2, <2>5, OtherTurn
<1>11. CASE CancelOrder(c)
  <2>1. /\ Step(c, "append", "ok")
        /\ status' = [status EXCEPT ![o] = "cancelled"]
        /\ queue' = Append(queue, OrderEvent("OrderCancelled", o))
    BY <1>1, <1>2, <1>11 DEF CancelOrder, TakeTurns, OutcomesOf, Emit, Recorded
  <2>2. UNCHANGED <<target, reserved, readOrder, released, todo>>
    BY <1>11 DEF CancelOrder, requestVars, readVars
  <2>3. /\ pc[c] = "append" /\ pc'[c] = "ok" /\ pc'[o] = pc[o] /\ "ok" \in PCs
        /\ Cardinality(Ended(o)) \in Nat /\ Cardinality(Ended(o))' = Cardinality(Ended(o)) + 1
        /\ \A p : GivingBack(o, p) /\ ~GivingBack(o, p)'
    BY <1>5, <2>1, <2>2 DEF PCs
  <2>4. pc[o] = "ok" /\ status[o] # "none"
    BY <1>1, <1>2, <2>3, AllReserved DEF CancellationInv, Inv, OrderOK, PlacementInv
  <2>5. status'[o] = "cancelled" /\ \A q \in Placements \ {o} : status'[q] = status[q]
    BY <1>1, <1>4, <2>1
  <2>6. RoundsAre(o, k + 1)'
    BY <1>3, <1>6, <2>2, <2>3, <2>5 DEF RoundsAre
  <2>7. CancellationInv(c)' /\ Rounds(target[c])'
    BY <1>2, <2>2, <2>3, <2>4, <2>6 DEF CancellationInv, Rounds
  <2>8. \E e \in Events : queue' = Append(queue, e) /\ e.type # "OrderPlaced"
    <3>1. OrderEvent("OrderCancelled", o) \in Events
      BY <1>1 DEF OrderEvent, Events
    <3>. QED BY <2>1, <3>1 DEF OrderEvent
  <2>. QED BY <2>1, <2>2, <2>3, <2>4, <2>5, <2>7, <2>8, OtherTurn
<1>. QED BY <1>7, <1>8, <1>9, <1>10, <1>11 DEF CancelOrderStep

LEMMA AdditionSerial ==
    ASSUME TakeTurns, Inv, SerialInv, NEW a \in Additions, AddToCart(a)
    PROVE  SerialInv'
<1>1. UNCHANGED <<target, todo, reserved, readOrder, status, released>> /\ MayStart(a)
  BY DEF AddToCart, requestVars, streamVars, readVars
<1>2. PICK there \in PCs : Step(a, "new", there)
  BY DEF AddToCart, PCs
<1>3. user[a] \in Users /\ a \notin Cancellations
  BY CallKinds DEF Inv, Types
<1>4. \E e \in Events : queue' = Append(queue, e) /\ e.type # "OrderPlaced"
  <2>1. \A p \in Products : CartEvent("ItemAddedToCart", user[a], p) \in Events
    BY <1>3 DEF CartEvent, Events
  <2>. QED BY <2>1 DEF AddToCart, TakeTurns, Emit, Recorded, CartEvent
<1>. QED BY <1>1, <1>2, <1>3, <1>4, OtherTurn

(* The read model learns of an order from the order's event.               *)
LEMMA ProjectSerial ==
    ASSUME Inv, SerialInv, Project
    PROVE  SerialInv'
<1>1. UNCHANGED <<pc, target, todo, status, reserved, released>>
      /\ queue' = Tail(queue) /\ queue # <<>> /\ queue \in Seq(Events)
  BY DEF Project, requestVars, streamVars, Inv, Types
<1>2. PICK e \in Events : e = Head(queue)
  BY <1>1
<1>3. e.type = "OrderPlaced" => status[e.order] # "none"
  <2>1. 1 \in 1 .. Len(queue) /\ queue[1] = e
    BY <1>1, <1>2
  <2>. QED BY <2>1 DEF SerialInv, PlacedBefore
<1>4. ASSUME NEW o \in Placements, readOrder'[o] # "none" PROVE status[o] # "none"
  <2>1. readOrder[o] # "none" \/ (e.type = "OrderPlaced" /\ e.order = o)
    <3>1. e.type \in {"OrderPlaced", "OrderCancelled"} => e.order \in Placements
      BY DEF Events
    <3>2. readOrder \in [Placements -> Statuses]
      BY DEF Inv, Types, TypeOK
    <3>. QED BY <1>2, <1>4, <3>1, <3>2 DEF Project, ProjectEvent, ShowPlaced, ShowCancelled, ShowPiece, ShowCleared
  <2>. QED BY <1>3, <2>1 DEF SerialInv, TurnInv
<1>5. PlacedBefore'
  <2>1. \A i \in 1 .. Len(queue') : i + 1 \in 1 .. Len(queue) /\ queue'[i] = queue[i + 1]
    BY <1>1
  <2>. QED BY <1>1, <2>1 DEF SerialInv, PlacedBefore
<1>6. ASSUME NEW o \in Placements PROVE TurnInv(o)'
  <2>1. TurnInv(o)
    BY DEF SerialInv
  <2>2. Rounds(o)'
    BY <1>1, <2>1, RoundsKept DEF TurnInv
  <2>. QED BY <1>1, <1>4, <2>1, <2>2 DEF TurnInv
<1>7. \A c \in Cancellations : CancellationInv(c)'
  BY <1>1 DEF SerialInv, CancellationInv
<1>. QED BY <1>1, <1>5, <1>6, <1>7 DEF SerialInv, OneAtATime, Idle

LEMMA NextSerial ==
    ASSUME TakeTurns, IsFiniteSet(Cancellations), Inv, Inv', SerialInv, [Next]_vars
    PROVE  SerialInv'
<1>1. CASE UNCHANGED vars
  <2>1. UNCHANGED <<pc, target, todo, status, reserved, released, queue, readOrder>>
    BY <1>1 DEF vars, requestVars, streamVars, readVars
  <2>2. \A o \in Placements : TurnInv(o)'
    BY <2>1, RoundsKept DEF SerialInv, TurnInv
  <2>. QED BY <2>1, <2>2 DEF SerialInv, OneAtATime, Idle, PlacedBefore, CancellationInv
<1>2. Types'
  BY DEF Inv
<1>. QED BY <1>1, <1>2, PlacementSerial, CancellationSerial, AdditionSerial, ProjectSerial DEF Next

(* When nobody is in a handler, what was given back is whole rounds.       *)
LEMMA WholeRounds ==
    ASSUME SerialInv, Types, \A c \in Cancellations : Idle(c), NEW o \in Placements
    PROVE  \E k \in Nat :
              /\ k <= Cardinality(Ended(o))
              /\ k > 0 <=> status[o] = "cancelled"
              /\ \A p \in Products : released[o][p] = k * reserved[o][p]
<1>1. PICK k \in Nat : RoundsAre(o, k)
  BY DEF SerialInv, TurnInv, Rounds
<1>2. \A p \in Products : ~GivingBack(o, p)
  BY DEF GivingBack, Idle
<1>3. \A p \in Products : k * reserved[o][p] \in Nat
  BY Multiples DEF Types, TypeOK
<1>4. \A p \in Products : released[o][p] = k * reserved[o][p]
  BY <1>1, <1>2, <1>3 DEF RoundsAre
<1>. QED BY <1>1, <1>4 DEF RoundsAre

(* If requests take turns, do not fail and find the read models up to      *)
(* date, every call for an order that was placed gives back the whole of   *)
(* what it had reserved, the first and each further one, and only a        *)
(* cancelled order was given back.                                         *)
THEOREM CancellationsAreExact ==
    ASSUME TakeTurns, IsFiniteSet(Cancellations)
    PROVE  Spec => []CancellationIsExact
<1>1. Inv /\ SerialInv => CancellationIsExact
  <2> SUFFICES ASSUME Inv, SerialInv, \A c \in Calls : pc[c] \in {"new", "ok", "failed"},
                      NEW o \in Placements
               PROVE  \E k \in 0 .. Cardinality({c \in Cancellations : target[c] = o /\ pc[c] # "new"}) :
                         /\ \A p \in Products : released[o][p] = k * reserved[o][p]
                         /\ k > 0 <=> status[o] = "cancelled"
    BY DEF CancellationIsExact
  <2>1. PICK k \in Nat :
           /\ k <= Cardinality(Ended(o))
           /\ k > 0 <=> status[o] = "cancelled"
           /\ \A p \in Products : released[o][p] = k * reserved[o][p]
    BY CallKinds, WholeRounds DEF Inv, Idle
  <2>2. Ended(o) = {c \in Cancellations : target[c] = o /\ pc[c] # "new"}
    BY CallKinds DEF Ended
  <2>3. k \in 0 .. Cardinality(Ended(o))
    BY <2>1, EndedTypes
  <2>. QED BY <2>1, <2>2, <2>3
<1>2. Init => Inv /\ SerialInv
  BY InitInv, InitSerial
<1>3. Inv /\ SerialInv /\ [Next]_vars => Inv' /\ SerialInv'
  BY NextInv, NextSerial
<1>. QED BY <1>1, <1>2, <1>3, PTL DEF Spec

-----------------------------------------------------------------------------
(***************************************************************************)
(* The stock.  What a placement has checked stays there for it until it    *)
(* has reserved it, because nobody else takes a step.  A live order counts *)
(* with what it reserved, and what any order was given back beyond its     *)
(* reservation counts against that.                                        *)
(***************************************************************************)
Live(p) == [o \in Placements |-> IF status[o] = "cancelled" THEN 0 ELSE reserved[o][p]]
Again(p) == [o \in Placements |->
    IF released[o][p] > reserved[o][p] THEN released[o][p] - reserved[o][p] ELSE 0]
Holding(p) == [o \in Placements |-> Live(p)[o] - Again(p)[o]]
Held(p) == Total(Holding(p), Placements)

(* A product that order o has checked and not yet reserved.                *)
Claims(o, p) ==
    \/ pc[o] = "check" /\ p \in InCart(o) \ todo[o]
    \/ pc[o] = "reserve" /\ p \in todo[o]

StockInv ==
    /\ \A o \in Placements : pc[o] = "check" => queue = <<>>
    /\ \A p \in Products : Held(p) <= Stock[p]
    /\ \A o \in Placements, p \in Products :
          Claims(o, p) => Held(p) + items[o][p] <= Stock[p]

LEMMA HoldingTypes ==
    ASSUME NEW p \in Products
    PROVE  /\ Types => \A o \in Placements :
                 Live(p)[o] \in Nat /\ Again(p)[o] \in Nat /\ Holding(p)[o] \in Int
           /\ Types' => \A o \in Placements :
                 Live(p)'[o] \in Nat /\ Again(p)'[o] \in Nat /\ Holding(p)'[o] \in Int
<1>1. ASSUME NEW a \in Nat, NEW b \in Nat PROVE a > b => a - b \in Nat
  OBVIOUS
<1>2. ASSUME Types, NEW o \in Placements
      PROVE  Live(p)[o] \in Nat /\ Again(p)[o] \in Nat /\ Holding(p)[o] \in Int
  <2>1. reserved[o][p] \in Nat /\ released[o][p] \in Nat
    BY <1>2 DEF Types, TypeOK
  <2>. QED BY <1>1, <2>1 DEF Live, Again, Holding
<1>3. ASSUME Types', NEW o \in Placements
      PROVE  Live(p)'[o] \in Nat /\ Again(p)'[o] \in Nat /\ Holding(p)'[o] \in Int
  <2>1. reserved'[o][p] \in Nat /\ released'[o][p] \in Nat
    BY <1>3 DEF Types, TypeOK
  <2>. QED BY <1>1, <2>1 DEF Live, Again, Holding
<1>. QED BY <1>2, <1>3

LEMMA HeldTypes ==
    ASSUME IsFiniteSet(Placements), NEW p \in Products
    PROVE  (Types => Held(p) \in Int) /\ (Types' => Held(p)' \in Int)
<1>1. ASSUME Types PROVE Held(p) \in Int
  <2>1. \A o \in Placements : Holding(p)[o] \in Int
    BY <1>1, HoldingTypes
  <2>. QED BY <2>1, TotalType DEF Held
<1>2. ASSUME Types' PROVE Held(p)' \in Int
  <2>1. \A o \in Placements : Holding(p)'[o] \in Int
    BY <1>2, HoldingTypes
  <2>2. Total(Holding(p)', Placements) \in Int
    BY <2>1, TotalType
  <2>. QED BY <2>2 DEF Held, Total
<1>. QED BY <1>1, <1>2

LEMMA HeldStockIsHeld ==
    ASSUME IsFiniteSet(Placements), Types, NEW p \in Products
    PROVE  HeldStock(p) = Held(p) + GivenBackAgain(p) /\ GivenBackAgain(p) \in Int
<1> DEFINE R == {x \in Placements : status[x] # "cancelled"}
           f == [o \in R |-> reserved[o][p]]
<1>1. HeldStock(p) = Total(f, R)
  <2>1. DOMAIN f = R
    OBVIOUS
  <2>2. HeldStock(p) = Sum(f)
    BY DEF HeldStock
  <2> HIDE DEF f, R
  <2>. QED BY <2>1, <2>2, SumIsTotal
<1>2. \A o \in R : f[o] = Live(p)[o]
  BY DEF Live
<1>3. Total(f, R) = Total(Live(p), R)
  <2>1. IsFiniteSet(R)
    BY FS_Subset
  <2> HIDE DEF f, R
  <2>. QED BY <1>2, <2>1, TotalCongruence
<1>4. Total(Live(p), Placements) = Total(Live(p), R)
  <2>1. \A o \in Placements : Live(p)[o] \in Int
    BY HoldingTypes
  <2>2. R \in SUBSET Placements /\ \A o \in Placements \ R : Live(p)[o] = 0
    BY DEF Live
  <2> HIDE DEF R
  <2>. QED BY <2>1, <2>2, TotalWithoutZeros
<1>5. GivenBackAgain(p) = Total(Again(p), Placements)
  <2>1. DOMAIN Again(p) = Placements /\ GivenBackAgain(p) = Sum(Again(p))
    BY DEF Again, GivenBackAgain
  <2>. QED BY <2>1, SumIsTotal
<1>6. \A o \in Placements : Live(p)[o] \in Int /\ Again(p)[o] \in Int
  BY HoldingTypes
<1>7. Held(p) = Total(Live(p), Placements) - Total(Again(p), Placements)
  <2>1. \A o \in Placements : Holding(p)[o] = Live(p)[o] - Again(p)[o]
    BY DEF Holding
  <2>. QED BY <1>6, <2>1, TotalOfDifferences DEF Held
<1>8. Total(Live(p), Placements) \in Int /\ Total(Again(p), Placements) \in Int
  BY <1>6, TotalType
<1>. QED BY <1>1, <1>3, <1>4, <1>5, <1>7, <1>8

(* Nothing is under way: the read model shows what is held.                *)
LEMMA ReadStockIsHeld ==
    ASSUME IsFiniteSet(Placements), BooksInv, SerialInv, queue = <<>>,
           \A c \in Cancellations : Idle(c), NEW p \in Products
    PROVE  readStock[p] = Held(p)
<1>1. Types /\ Balance(p) /\ readStock[p] \in Int
  BY DEF BooksInv, Inv, Types, TypeOK
<1>2. \A o \in Placements : Differences(p)[o] = Holding(p)[o]
  <2> SUFFICES ASSUME NEW o \in Placements PROVE Differences(p)[o] = Holding(p)[o]
    OBVIOUS
  <2>1. /\ Differences(p)[o] = reserved[o][p] - released[o][p]
        /\ reserved[o][p] \in Nat /\ released[o][p] \in Nat
    BY <1>1 DEF Differences, Types, TypeOK
  <2>2. PICK k \in Nat : /\ k > 0 <=> status[o] = "cancelled"
                         /\ released[o][p] = k * reserved[o][p]
    BY <1>1, WholeRounds
  <2>3. IF status[o] = "cancelled" THEN released[o][p] >= reserved[o][p] ELSE released[o][p] = 0
    BY <2>1, <2>2, Multiples
  <2>. QED BY <2>1, <2>3 DEF Holding, Live, Again
<1>3. Total(Differences(p), Placements) = Held(p)
  BY <1>2, TotalCongruence DEF Held
<1>4. Total(Changes(p), 1 .. Len(queue)) = 0
  <2>1. 1 .. Len(queue) = {}
    OBVIOUS
  <2>. QED BY <2>1, TotalOfNothing
<1>. QED BY <1>1, <1>3, <1>4 DEF Balance

(* What is held of a product changes with one order.                       *)
LEMMA HeldKept ==
    ASSUME UNCHANGED <<reserved, released>>,
           \A o \in Placements : status'[o] = "cancelled" <=> status[o] = "cancelled", NEW p
    PROVE  Held(p)' = Held(p)
<1>1. Holding(p)' = Holding(p)
  BY DEF Holding, Live, Again
<1>. QED BY <1>1 DEF Held, Total

LEMMA HeldMoves ==
    ASSUME IsFiniteSet(Placements), Types, Types', NEW o \in Placements, NEW p \in Products,
           \A q \in Placements \ {o} :
              status'[q] = status[q] /\ reserved'[q] = reserved[q] /\ released'[q] = released[q]
    PROVE  Held(p)' = Held(p) + Holding(p)'[o] - Holding(p)[o]
<1> DEFINE f == Holding(p)
           g == Holding(p)'
<1>1. \A q \in Placements : f[q] \in Int /\ g[q] \in Int
  BY HoldingTypes
<1>2. \A q \in Placements \ {o} : g[q] = f[q]
  BY DEF Holding, Live, Again
<1>3. Total(g, Placements) = Total(f, Placements) + g[o] - f[o]
  <2> HIDE DEF f, g
  <2>. QED BY <1>1, <1>2, TotalUpdate
<1>. QED BY <1>3 DEF Held, Total

StockHypotheses ==
    TakeTurns /\ IsFiniteSet(Placements) /\ BooksInv /\ SerialInv /\ StockInv /\ Types'

(* A step that leaves all placements at rest only has to hold no more.     *)
LEMMA RestingStock ==
    ASSUME StockHypotheses,
           \A o \in Placements : pc'[o] \notin {"check", "reserve"},
           \A p \in Products : Held(p)' <= Held(p)
    PROVE  StockInv'
<1>1. \A p \in Products : Held(p) \in Int /\ Held(p)' \in Int /\ Stock[p] \in Nat
  BY HeldTypes, StockAssumption DEF StockHypotheses, BooksInv, Inv
<1>2. \A p \in Products : Held(p)' <= Stock[p]
  BY <1>1 DEF StockHypotheses, StockInv
<1>. QED BY <1>2 DEF StockInv, Claims

(* A step of placement o has its own claims to answer for.                 *)
LEMMA ClaimingStock ==
    ASSUME StockHypotheses, NEW o \in Placements,
           \A q \in Placements \ {o} : pc'[q] \notin {"check", "reserve"},
           pc'[o] = "check" => queue' = <<>>,
           \A p \in Products : Held(p)' <= Stock[p],
           \A p \in Products : Claims(o, p)' => Held(p)' + items'[o][p] <= Stock[p]
    PROVE  StockInv'
BY DEF StockInv, Claims

LEMMA PlacementStock ==
    ASSUME StockHypotheses, NEW o \in Placements, PlaceOrderStep(o)
    PROVE  StockInv'
<1>1. /\ Inv /\ Types /\ o \in Calls /\ o \notin Cancellations /\ TurnInv(o) /\ OneAtATime
      /\ TakeTurns /\ IsFiniteSet(Placements)
  BY CallKinds DEF StockHypotheses, BooksInv, Inv, SerialInv
<1>2. \A p \in Products : /\ Held(p) \in Int /\ Held(p)' \in Int /\ Stock[p] \in Nat
                          /\ Held(p) <= Stock[p] /\ items[o][p] \in Nat
  <2> SUFFICES ASSUME NEW p \in Products
               PROVE  /\ Held(p) \in Int /\ Held(p)' \in Int /\ Stock[p] \in Nat
                      /\ Held(p) <= Stock[p] /\ items[o][p] \in Nat
    OBVIOUS
  <2>1. items[o][p] \in Nat
    BY <1>1 DEF Types, TypeOK
  <2>. QED BY <1>1, <2>1, HeldTypes, StockAssumption DEF StockHypotheses, StockInv
<1>3. ASSUME NEW here \in {"new", "check", "reserve"}, NEW there \in PCs, Step(o, here, there),
             here = "new" => MayStart(o)
      PROVE  /\ pc[o] = here /\ pc'[o] = there
             /\ \A c \in Calls \ {o} : Idle(c)
             /\ \A q \in Placements \ {o} : pc'[q] \notin {"check", "reserve"}
  <2>1. /\ pc[o] = here /\ pc'[o] = there
        /\ \A c \in Calls \ {o} : Idle(c) /\ pc'[c] = pc[c]
    BY <1>1, <1>3, OthersRest
  <2>. QED BY <2>1, CallKinds DEF Idle
<1>4. /\ todo \in [Calls -> SUBSET Products] /\ items \in [Placements -> [Products -> Nat]]
      /\ reserved \in [Placements -> [Products -> Nat]] /\ status \in [Placements -> Statuses]
  BY <1>1 DEF Types, TypeOK
<1>5. CASE ReadCart(o)
  <2>1. /\ Step(o, "new", "check") /\ MayStart(o)
        /\ items' = [items EXCEPT ![o] = readCart[user[o]]]
        /\ todo' = [todo EXCEPT ![o] = {p \in Products : readCart[user[o]][p] > 0}]
        /\ UNCHANGED <<queue, status, reserved, released>>
    BY <1>5 DEF ReadCart, streamVars
  <2>2. pc'[o] = "check" /\ \A q \in Placements \ {o} : pc'[q] \notin {"check", "reserve"}
    BY <1>3, <2>1 DEF PCs
  <2>3. queue' = <<>>
    BY <1>1, <2>1 DEF MayStart, TakeTurns
  <2>4. todo'[o] = InCart(o)'
    BY <1>1, <1>4, <2>1 DEF InCart
  <2>5. \A p \in Products : Held(p)' = Held(p)
    BY <2>1, HeldKept
  <2>6. \A p \in Products : ~Claims(o, p)'
    BY <2>2, <2>4 DEF Claims
  <2>. QED BY <1>2, <2>2, <2>3, <2>5, <2>6, ClaimingStock
<1>6. CASE EmptyCart(o)
  <2>1. Step(o, "new", "failed") /\ MayStart(o) /\ UNCHANGED <<status, reserved, released>>
    BY <1>6 DEF EmptyCart, streamVars
  <2>2. \A q \in Placements : pc'[q] \notin {"check", "reserve"}
    BY <1>3, <2>1 DEF PCs
  <2>3. \A p \in Products : Held(p)' <= Held(p)
    BY <1>2, <2>1, HeldKept
  <2>. QED BY <2>2, <2>3, RestingStock
<1>7. CASE CheckStock(o)
  <2>1. UNCHANGED <<items, queue, status, reserved, released>>
    BY <1>7 DEF CheckStock, streamVars
  <2>2. \A p \in Products : Held(p)' = Held(p)
    BY <2>1, HeldKept
  <2>3. ASSUME NEW s \in todo[o], Step(o, "check", "check"), AvailableStock(s) >= items[o][s],
               todo' = [todo EXCEPT ![o] = @ \ {s}]
        PROVE  StockInv'
    <3>1. /\ pc[o] = "check" /\ pc'[o] = "check" /\ \A c \in Cancellations : Idle(c)
          /\ \A q \in Placements \ {o} : pc'[q] \notin {"check", "reserve"}
      BY <1>1, <1>3, <2>3, CallKinds DEF PCs
    <3>2. queue = <<>> /\ s \in Products /\ todo'[o] = todo[o] \ {s}
      BY <1>1, <1>4, <2>3, <3>1 DEF StockHypotheses, StockInv
    <3>3. readStock[s] = Held(s)
      BY <1>1, <3>1, <3>2, ReadStockIsHeld DEF StockHypotheses
    <3>4. Held(s) + items[o][s] <= Stock[s]
      BY <1>2, <2>3, <3>2, <3>3 DEF AvailableStock
    <3>5. ASSUME NEW p \in Products, Claims(o, p)' PROVE Held(p)' + items'[o][p] <= Stock[p]
      <4>1. p = s \/ Claims(o, p)
        BY <2>1, <3>1, <3>2, <3>5 DEF Claims, InCart
      <4>. QED BY <2>1, <2>2, <3>4, <4>1 DEF StockHypotheses, StockInv
    <3>. QED BY <1>2, <2>1, <2>2, <3>1, <3>2, <3>5, ClaimingStock
  <2>4. ASSUME Step(o, "check", "failed") PROVE StockInv'
    <3>1. \A q \in Placements : pc'[q] \notin {"check", "reserve"}
      BY <1>3, <2>4 DEF PCs
    <3>2. \A p \in Products : Held(p)' <= Held(p)
      BY <1>2, <2>2
    <3>. QED BY <3>1, <3>2, RestingStock
  <2>. QED BY <1>7, <2>3, <2>4 DEF CheckStock
<1>8. CASE Place(o)
  <2>1. /\ Step(o, "check", "reserve") /\ todo[o] = {}
        /\ todo' = [todo EXCEPT ![o] = InCart(o)]
        /\ status' = [status EXCEPT ![o] = "pending"]
        /\ UNCHANGED <<items, reserved, released>>
    BY <1>1, <1>8 DEF Place, TakeTurns, Recorded
  <2>2. /\ pc[o] = "check" /\ pc'[o] = "reserve"
        /\ \A q \in Placements \ {o} : pc'[q] \notin {"check", "reserve"}
    BY <1>3, <2>1 DEF PCs
  <2>3. todo'[o] = InCart(o) /\ status[o] = "none"
    BY <1>1, <1>4, <2>1, <2>2 DEF TurnInv
  <2>4. \A p \in Products : Held(p)' = Held(p)
    BY <1>4, <2>1, <2>3, HeldKept
  <2>5. \A p \in Products : Claims(o, p)' => Claims(o, p)
    BY <2>1, <2>2, <2>3 DEF Claims
  <2>6. \A p \in Products : Claims(o, p)' => Held(p)' + items'[o][p] <= Stock[p]
    BY <2>1, <2>4, <2>5 DEF StockHypotheses, StockInv
  <2>. QED BY <1>2, <2>2, <2>4, <2>6, ClaimingStock
<1>9. CASE Reserve(o)
  <2>1. PICK s \in todo[o] :
           /\ Step(o, "reserve", "reserve")
           /\ todo' = [todo EXCEPT ![o] = @ \ {s}]
           /\ reserved' = [reserved EXCEPT ![o][s] = @ + items[o][s]]
    BY <1>1, <1>9 DEF Reserve, TakeTurns, Recorded
  <2>2. UNCHANGED <<items, status, released>> /\ \A p \in Products : released[o][p] = 0
    BY <1>1, <1>9 DEF Reserve, Step, TurnInv
  <2>3. /\ pc[o] = "reserve" /\ pc'[o] = "reserve"
        /\ \A q \in Placements \ {o} : pc'[q] \notin {"check", "reserve"}
    BY <1>3, <2>1 DEF PCs
  <2>4. s \in Products /\ todo'[o] = todo[o] \ {s}
    BY <1>1, <1>4, <2>1
  <2>5. /\ \A q \in Placements \ {o} :
              status'[q] = status[q] /\ reserved'[q] = reserved[q] /\ released'[q] = released[q]
        /\ reserved'[o][s] = reserved[o][s] + items[o][s]
        /\ \A p \in Products \ {s} : reserved'[o][p] = reserved[o][p]
    BY <1>4, <2>1, <2>2, <2>4
  <2>6. ASSUME NEW p \in Products
        PROVE  Held(p)' <= Held(p) + IF p = s THEN items[o][s] ELSE 0
    <3>1. Held(p)' = Held(p) + Holding(p)'[o] - Holding(p)[o]
      BY <1>1, <2>5, HeldMoves DEF StockHypotheses
    <3>2. Holding(p)'[o] <= Holding(p)[o] + IF p = s THEN items[o][s] ELSE 0
      <4>1. Again(p)[o] = 0 /\ Again(p)'[o] = 0
        BY <1>4, <2>2, <2>4, <2>5, <1>2 DEF Again
      <4>2. Live(p)'[o] <= Live(p)[o] + IF p = s THEN items[o][s] ELSE 0
        BY <1>2, <1>4, <2>2, <2>4, <2>5 DEF Live
      <4>3. Live(p)[o] \in Nat /\ Live(p)'[o] \in Nat
        BY <1>1, HoldingTypes DEF StockHypotheses
      <4>. QED BY <1>2, <2>4, <4>1, <4>2, <4>3 DEF Holding
    <3>3. Holding(p)'[o] \in Int /\ Holding(p)[o] \in Int
      BY <1>1, HoldingTypes DEF StockHypotheses
    <3>. QED BY <1>2, <2>4, <3>1, <3>2, <3>3
  <2>7. Held(s) + items[o][s] <= Stock[s]
    BY <2>1, <2>3, <2>4 DEF StockHypotheses, StockInv, Claims
  <2>8. \A p \in Products : Held(p)' <= Stock[p]
    BY <1>2, <2>6, <2>7
  <2>9. ASSUME NEW p \in Products, Claims(o, p)' PROVE Held(p)' + items'[o][p] <= Stock[p]
    <3>1. Claims(o, p) /\ p # s
      BY <2>3, <2>4, <2>9 DEF Claims
    <3>2. Held(p) + items[o][p] <= Stock[p] /\ Held(p)' <= Held(p)
      BY <1>2, <2>6, <3>1 DEF StockHypotheses, StockInv
    <3>. QED BY <1>2, <2>2, <3>2
  <2>. QED BY <2>3, <2>8, <2>9, ClaimingStock
<1>10. CASE ClearCart(o)
  <2>1. Step(o, "reserve", "ok") /\ UNCHANGED <<status, reserved, released>>
    BY <1>10 DEF ClearCart, streamVars
  <2>2. \A q \in Placements : pc'[q] \notin {"check", "reserve"}
    BY <1>3, <2>1 DEF PCs
  <2>3. \A p \in Products : Held(p)' <= Held(p)
    BY <1>2, <2>1, HeldKept
  <2>. QED BY <2>2, <2>3, RestingStock
<1>11. CASE Compensate(o) \/ LoadOrder(o) \/ CancelOrder(o)
  BY <1>1, <1>11 DEF Compensate, LoadOrder, CancelOrder, Step, TurnInv
<1>. QED BY <1>5, <1>6, <1>7, <1>8, <1>9, <1>10, <1>11 DEF PlaceOrderStep

(* A cancellation gives back, an addition to a cart takes nothing.         *)
LEMMA OtherStock ==
    ASSUME StockHypotheses, NEW c \in Cancellations \cup Additions,
           (c \in Cancellations /\ CancelOrderStep(c)) \/ (c \in Additions /\ AddToCart(c))
    PROVE  StockInv'
<1>1. /\ Types /\ c \in Calls /\ c \notin Placements /\ TakeTurns /\ IsFiniteSet(Placements)
      /\ OneAtATime
  BY CallKinds DEF StockHypotheses, BooksInv, Inv, SerialInv
<1>2. \A o \in Placements : pc'[o] \notin {"check", "reserve"}
  <2>1. PICK here \in {"new", "release", "append"}, there \in PCs :
           Step(c, here, there) /\ (here = "new" => MayStart(c))
    BY <1>1 DEF CancelOrderStep, ReadOrder, OrderNotFound, Release, LoadOrder, CancelOrder,
                AddToCart, PCs
  <2>2. \A d \in Calls \ {c} : Idle(d) /\ pc'[d] = pc[d]
    BY <1>1, <2>1, OthersRest
  <2>. QED BY <1>1, <2>2, CallKinds DEF Idle
<1>3. UNCHANGED reserved
  BY DEF CancelOrderStep, ReadOrder, OrderNotFound, Release, LoadOrder, CancelOrder, AddToCart,
         streamVars
<1>4. ASSUME NEW p \in Products PROVE Held(p)' <= Held(p)
  <2>1. Held(p) \in Int /\ Held(p)' \in Int
    BY <1>1, HeldTypes DEF StockHypotheses
  <2>2. CASE UNCHANGED <<status, released>>
    BY <1>3, <2>1, <2>2, HeldKept
  <2>3. CASE c \in Cancellations /\ CancelOrder(c)
    <3>1. OrderOf(c) \in Placements
      BY <1>1, <2>3 DEF OrderOf, Types, TypeOK
    <3>2. /\ status' = [status EXCEPT ![OrderOf(c)] = "cancelled"]
          /\ status \in [Placements -> Statuses] /\ UNCHANGED released
      BY <1>1, <2>3 DEF CancelOrder, TakeTurns, OutcomesOf, Recorded, Types, TypeOK
    <3>3. /\ \A q \in Placements \ {OrderOf(c)} : status'[q] = status[q]
          /\ status'[OrderOf(c)] = "cancelled"
      BY <3>1, <3>2
    <3>4. PICK o \in Placements : o = OrderOf(c)
      BY <3>1
    <3>5. Held(p)' = Held(p) + Holding(p)'[o] - Holding(p)[o]
      BY <1>1, <1>3, <3>2, <3>3, <3>4, HeldMoves DEF StockHypotheses
    <3>6. /\ Live(p)'[o] = 0 /\ Live(p)[o] \in Nat /\ Again(p)[o] \in Nat
          /\ Again(p)'[o] = Again(p)[o]
      BY <1>1, <1>3, <3>2, <3>3, <3>4, HoldingTypes DEF Live, Again
    <3>7. Holding(p)'[o] <= Holding(p)[o] /\ Holding(p)'[o] \in Int /\ Holding(p)[o] \in Int
      BY <3>6 DEF Holding
    <3>. QED BY <2>1, <3>5, <3>7
  <2>4. CASE c \in Cancellations /\ Release(c)
    <3>1. PICK o \in Placements : o = target[c]
      BY <1>1, <2>4 DEF Types, TypeOK
    <3>2. PICK s \in todo[c] : released' = [released EXCEPT ![o][s] = @ + items[o][s]]
      BY <1>1, <2>4, <3>1 DEF Release, TakeTurns, Recorded
    <3>3. /\ released \in [Placements -> [Products -> Nat]] /\ s \in Products
          /\ items[o][s] \in Nat /\ UNCHANGED status
      <4>1. s \in Products
        BY <1>1 DEF Types, TypeOK
      <4>. QED BY <1>1, <2>4, <4>1 DEF Types, TypeOK, Release
    <3>4. /\ \A q \in Placements \ {o} : released'[q] = released[q]
          /\ released'[o][p] = IF p = s THEN released[o][p] + items[o][s] ELSE released[o][p]
      BY <3>2, <3>3
    <3>5. Held(p)' = Held(p) + Holding(p)'[o] - Holding(p)[o]
      BY <1>1, <1>3, <3>3, <3>4, HeldMoves DEF StockHypotheses
    <3>6. /\ Live(p)'[o] = Live(p)[o] /\ Live(p)[o] \in Nat
          /\ Again(p)[o] \in Nat /\ Again(p)'[o] \in Nat
      BY <1>1, <1>3, <3>3, HoldingTypes DEF Live, StockHypotheses
    <3>7. Again(p)'[o] >= Again(p)[o]
      <4>1. reserved[o][p] \in Nat /\ released[o][p] \in Nat /\ released'[o][p] >= released[o][p]
            /\ released'[o][p] \in Nat
        BY <1>1, <3>3, <3>4 DEF Types, TypeOK
      <4>. QED BY <1>3, <4>1 DEF Again
    <3>8. Holding(p)'[o] <= Holding(p)[o] /\ Holding(p)'[o] \in Int /\ Holding(p)[o] \in Int
      BY <3>6, <3>7 DEF Holding
    <3>. QED BY <2>1, <3>5, <3>8
  <2>. QED BY <2>2, <2>3, <2>4 DEF CancelOrderStep, ReadOrder, OrderNotFound, LoadOrder,
                                   AddToCart, streamVars
<1>. QED BY <1>2, <1>4, RestingStock

LEMMA NextStock ==
    ASSUME StockHypotheses, [Next]_vars PROVE StockInv'
<1>1. CASE Project \/ UNCHANGED vars
  <2>1. UNCHANGED <<pc, items, todo, status, reserved, released>>
    BY <1>1 DEF Project, vars, requestVars, streamVars
  <2>2. \A p \in Products : Held(p)' = Held(p)
    BY <2>1, HeldKept
  <2>3. \A o \in Placements : pc'[o] = "check" => queue' = <<>>
    BY <1>1, <2>1 DEF StockHypotheses, StockInv, Project, vars
  <2>4. \A o \in Placements, p \in Products : Claims(o, p)' => Claims(o, p)
    BY <2>1 DEF Claims, InCart
  <2>5. /\ \A p \in Products : Held(p)' <= Stock[p]
        /\ \A o \in Placements, p \in Products :
              Claims(o, p)' => Held(p)' + items'[o][p] <= Stock[p]
    BY <2>1, <2>2, <2>4 DEF StockHypotheses, StockInv
  <2>. QED BY <2>3, <2>5 DEF StockInv
<1>. QED BY <1>1, PlacementStock, OtherStock DEF Next

LEMMA InitStock == ASSUME IsFiniteSet(Placements), Init PROVE StockInv
<1>1. \A o \in Placements : pc[o] = "new"
  BY CallKinds DEF Init
<1>2. ASSUME NEW p \in Products PROVE Held(p) = 0
  <2>1. \A o \in Placements : Holding(p)[o] = 0
    BY DEF Init, Holding, Live, Again, Nothing
  <2>2. Total(Holding(p), Placements) = Total(Holding(p), {})
    <3>1. \A o \in Placements : Holding(p)[o] \in Int
      BY <2>1
    <3>. QED BY <2>1, <3>1, TotalWithoutZeros
  <2>. QED BY <2>2, TotalOfNothing DEF Held
<1>. QED BY <1>1, <1>2, StockAssumption DEF StockInv, Claims

(* If requests take turns, do not fail and find the read models up to      *)
(* date, whatever the carts hold and however often orders are cancelled,   *)
(* the live orders hold no more of a product than its stock and what       *)
(* repeated cancellations gave back of it.                                 *)
THEOREM NothingIsOversold ==
    ASSUME TakeTurns, IsFiniteSet(Placements), IsFiniteSet(Cancellations)
    PROVE  Spec => []NeverOversold
<1> DEFINE I == BooksInv /\ SerialInv /\ StockInv
<1>1. I => NeverOversold
  <2> SUFFICES ASSUME I, NEW p \in Products
               PROVE  HeldStock(p) <= Stock[p] + GivenBackAgain(p)
    BY DEF NeverOversold
  <2>1. Held(p) \in Int /\ Held(p) <= Stock[p] /\ Stock[p] \in Nat
    BY HeldTypes, StockAssumption DEF StockInv, BooksInv, Inv
  <2>2. HeldStock(p) = Held(p) + GivenBackAgain(p) /\ GivenBackAgain(p) \in Int
    BY HeldStockIsHeld DEF BooksInv, Inv
  <2>. QED BY <2>1, <2>2
<1>2. Init => I
  BY InitBooks, InitSerial, InitStock
<1>3. I /\ [Next]_vars => I'
  <2> SUFFICES ASSUME I, [Next]_vars PROVE I'
    OBVIOUS
  <2>1. BooksInv' /\ Inv'
    BY NextBooks DEF BooksInv
  <2>2. SerialInv'
    BY <2>1, NextSerial DEF BooksInv
  <2>3. StockInv'
    BY <2>1, NextStock DEF StockHypotheses, BooksInv, Inv
  <2>. QED BY <2>1, <2>2, <2>3
<1>. QED BY <1>1, <1>2, <1>3, PTL DEF Spec
=============================================================================
