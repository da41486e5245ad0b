----------------------- MODULE InventoryService_proofs -----------------------
(***************************************************************************)
(* Proofs about module InventoryService, and so about AggregateService as  *)
(* the inventory uses it: what the snapshots say, for any products, calls, *)
(* quantities and threshold.                                               *)
(***************************************************************************)
EXTENDS InventoryService, TLAPS

OwnEvents == AddStock \cup Reserve \cup Release \cup Deduct
AllEvents == OwnEvents \cup {ProductEvent}
Inventories == [total : Nat, reserved : Nat]

-----------------------------------------------------------------------------
(***************************************************************************)
(* Which version a snapshot names.                                         *)
(***************************************************************************)
TypeInv ==
    /\ log \in [Products -> Seq(AllEvents)]
    /\ snapshot \in [Products -> [version : Nat, state : Inventories]]
    /\ overwritten \in [Products -> SUBSET [version : Nat, state : Inventories]]
    /\ pc \in [Requests -> {"new", "append", "snapshot", "ok", "failed"}]
    /\ id \in [Requests -> Products]
    /\ event \in [Requests -> AllEvents]
    /\ loaded \in [Requests -> Inventories]
    /\ version \in [Requests -> Nat]

Working(r) == pc[r] \in {"append", "snapshot"}

(* What a call that may save has appended is there, at the version that it *)
(* was told.                                                               *)
SavesItsEvent(r) ==
    /\ Working(r) => event[r] \in OwnEvents
    /\ pc[r] = "snapshot" => /\ version[r] \in 1 .. Len(log[id[r]])
                             /\ log[id[r]][version[r]] = event[r]

ThresholdInv ==
    /\ TypeInv
    /\ \A r \in Requests : SavesItsEvent(r)
    /\ SnapshotAtThreshold

LEMMA EventFacts ==
    ASSUME NEW e \in AllEvents
    PROVE  e.quantity \in Nat /\ e.type \in StockEventTypes \cup {"ProductUpdated"}
<1>1. CASE e \in OwnEvents
  <2>1. e.quantity \in Quantities /\ e.type \in StockEventTypes
    BY <1>1 DEF OwnEvents, AddStock, Reserve, Release, Deduct, StockEventTypes
  <2>. QED BY <2>1, QuantitiesAssumption
<1>2. CASE e = ProductEvent
  BY <1>2 DEF ProductEvent
<1>. QED BY <1>1, <1>2 DEF AllEvents

LEMMA ApplyType ==
    ASSUME NEW inv \in Inventories, NEW e \in AllEvents
    PROVE  ApplyStockEvent(inv, e) \in Inventories
<1>1. e.quantity \in Nat /\ e.type \in StockEventTypes \cup {"ProductUpdated"}
  BY EventFacts
<1>2. \A n \in Int : Clamp(n) \in Nat
  BY DEF Clamp
<1>3. inv.total \in Nat /\ inv.reserved \in Nat /\ inv = [total |-> inv.total, reserved |-> inv.reserved]
  BY DEF Inventories
<1>4. CASE e.type = "StockAdded"
  BY <1>1, <1>3, <1>4 DEF ApplyStockEvent, Inventories
<1>5. CASE e.type = "StockReserved"
  BY <1>1, <1>3, <1>5 DEF ApplyStockEvent, Inventories
<1>6. CASE e.type = "StockReleased"
  <2>1. Clamp(inv.reserved - e.quantity) \in Nat
    BY <1>1, <1>2, <1>3
  <2>. QED BY <1>3, <1>6, <2>1 DEF ApplyStockEvent, Inventories
<1>7. CASE e.type = "StockDeducted"
  <2>1. Clamp(inv.reserved - e.quantity) \in Nat /\ Clamp(inv.total - e.quantity) \in Nat
    BY <1>1, <1>2, <1>3
  <2>. QED BY <1>7, <2>1 DEF ApplyStockEvent, Inventories
<1>8. CASE e.type = "ProductUpdated"
  BY <1>8 DEF ApplyStockEvent
<1>. QED BY <1>1, <1>4, <1>5, <1>6, <1>7, <1>8 DEF StockEventTypes

-----------------------------------------------------------------------------
(***************************************************************************)
(* Folds over the events of a product, up to the n-th.                     *)
(***************************************************************************)
TakeStock(e, inv) == ApplyStockEvent(inv, e)
CountAdded(e, sum) == IF e.type = "StockAdded" THEN sum + e.quantity ELSE sum
CountReserved(e, sum) == IF e.type = "StockReserved" THEN sum + e.quantity ELSE sum
Latest(S) == Max(S)

Stock == INSTANCE FoldLaws WITH op <- TakeStock, choose <- Latest
Additions == INSTANCE FoldLaws WITH op <- CountAdded, choose <- Latest
Reservations == INSTANCE FoldLaws WITH op <- CountReserved, choose <- Latest

StateAt(s, n) == Stock!Fold(EmptyInventory, s, 1 .. n)
AddedUpTo(s, n) == Additions!Fold(0, s, 1 .. n)
ReservedUpTo(s, n) == Reservations!Fold(0, s, 1 .. n)

LEMMA LatestIsLast ==
    Stock!ChoosesLast /\ Additions!ChoosesLast /\ Reservations!ChoosesLast
<1> SUFFICES ASSUME NEW n \in Nat, NEW T \in SUBSET (1 .. n), T # {}
             PROVE  Latest(T) \in T /\ \A i \in T : i <= Latest(T)
  BY DEF Stock!ChoosesLast, Additions!ChoosesLast, Reservations!ChoosesLast
<1>1. \E x \in T : \A y \in T : y <= x
  BY Stock!LastOfSome
<1>. QED BY <1>1 DEF Latest, Max

LEMMA AtNothing ==
    ASSUME NEW s
    PROVE  StateAt(s, 0) = EmptyInventory /\ AddedUpTo(s, 0) = 0 /\ ReservedUpTo(s, 0) = 0
<1>1. 1 .. 0 = {}
  OBVIOUS
<1>. QED BY <1>1, Stock!FoldEmpty, Additions!FoldEmpty, Reservations!FoldEmpty
         DEF StateAt, AddedUpTo, ReservedUpTo

LEMMA AtNext ==
    ASSUME NEW s, NEW n \in Nat
    PROVE  /\ StateAt(s, n + 1) = ApplyStockEvent(StateAt(s, n), s[n + 1])
           /\ AddedUpTo(s, n + 1) = CountAdded(s[n + 1], AddedUpTo(s, n))
           /\ ReservedUpTo(s, n + 1) = CountReserved(s[n + 1], ReservedUpTo(s, n))
BY LatestIsLast, Stock!FoldNext, Additions!FoldNext, Reservations!FoldNext
   DEF StateAt, AddedUpTo, ReservedUpTo, TakeStock

(* What was counted up to an event stays so when others are recorded.      *)
LEMMA AtAgrees ==
    ASSUME NEW s, NEW t, NEW n \in Nat, \A i \in 1 .. n : s[i] = t[i]
    PROVE  /\ StateAt(s, n) = StateAt(t, n)
           /\ AddedUpTo(s, n) = AddedUpTo(t, n)
           /\ ReservedUpTo(s, n) = ReservedUpTo(t, n)
<1>1. /\ Stock!IsFiniteSet(1 .. n) /\ Stock!ChoosesFrom(1 .. n)
      /\ Additions!IsFiniteSet(1 .. n) /\ Additions!ChoosesFrom(1 .. n)
      /\ Reservations!IsFiniteSet(1 .. n) /\ Reservations!ChoosesFrom(1 .. n)
  BY LatestIsLast, Stock!IntervalFacts, Additions!IntervalFacts, Reservations!IntervalFacts
<1>. QED BY <1>1, Stock!FoldCongruence, Additions!FoldCongruence, Reservations!FoldCongruence
         DEF StateAt, AddedUpTo, ReservedUpTo

LEMMA FoldLeftIs ==
    ASSUME NEW base, NEW s
    PROVE  FoldLeft(ApplyStockEvent, base, s) = Stock!Fold(base, s, DOMAIN s)
BY DEF FoldLeft, MapThenFoldSet, Stock!Fold, Stock!MapThenFoldSet, TakeStock, Latest

(* The state and the sums that the properties speak of are these folds.    *)
LEMMA CountsAre ==
    ASSUME TypeInv, NEW p \in Products, NEW n \in 0 .. Len(log[p])
    PROVE  /\ Replay(p, n) = StateAt(log[p], n)
           /\ Sum(p, n, "StockAdded") = AddedUpTo(log[p], n)
           /\ Sum(p, n, "StockReserved") = ReservedUpTo(log[p], n)
<1> DEFINE s == SubSeq(log[p], 1, n)
<1>1. n \in Nat /\ DOMAIN s = 1 .. n /\ \A i \in 1 .. n : s[i] = log[p][i]
  BY DEF TypeInv
<1> HIDE DEF s
<1>2. Replay(p, n) = StateAt(s, n)
  BY <1>1, FoldLeftIs DEF Replay, StateAt, s
<1>3. Sum(p, n, "StockAdded") = AddedUpTo(s, n)
  BY <1>1 DEF Sum, FoldLeft, MapThenFoldSet, Additions!Fold, Additions!MapThenFoldSet,
              CountAdded, Latest, AddedUpTo, s
<1>4. Sum(p, n, "StockReserved") = ReservedUpTo(s, n)
  BY <1>1 DEF Sum, FoldLeft, MapThenFoldSet, Reservations!Fold, Reservations!MapThenFoldSet,
              CountReserved, Latest, ReservedUpTo, s
<1>. QED BY <1>1, <1>2, <1>3, <1>4, AtAgrees

-----------------------------------------------------------------------------
(***************************************************************************)
(* What steps do.                                                          *)
(***************************************************************************)
LogGrows ==
    \A p \in Products :
        /\ Len(log[p]) \in Nat /\ Len(log'[p]) \in Nat /\ Len(log[p]) <= Len(log'[p])
        /\ \A i \in 1 .. Len(log[p]) : log'[p][i] = log[p][i]

LEMMA Recorded ==
    ASSUME TypeInv, NEW r \in Requests,
           log' = [log EXCEPT ![id[r]] = Append(@, event[r])]
    PROVE  /\ log' \in [Products -> Seq(AllEvents)]
           /\ LogGrows
           /\ Len(log'[id[r]]) = Len(log[id[r]]) + 1
           /\ log'[id[r]][Len(log[id[r]]) + 1] = event[r]
           /\ \A p \in Products \ {id[r]} : log'[p] = log[p]
<1>1. /\ id[r] \in Products /\ event[r] \in AllEvents
      /\ log \in [Products -> Seq(AllEvents)] /\ log[id[r]] \in Seq(AllEvents)
  BY DEF TypeInv
<1>2. log'[id[r]] = Append(log[id[r]], event[r])
  BY <1>1
<1>3. /\ Append(log[id[r]], event[r]) \in Seq(AllEvents)
      /\ Len(log[id[r]]) \in Nat
      /\ Len(Append(log[id[r]], event[r])) = Len(log[id[r]]) + 1
      /\ Append(log[id[r]], event[r])[Len(log[id[r]]) + 1] = event[r]
      /\ \A i \in 1 .. Len(log[id[r]]) : Append(log[id[r]], event[r])[i] = log[id[r]][i]
  BY <1>1
<1>4. \A p \in Products \ {id[r]} : log'[p] = log[p]
  BY <1>1
<1>5. log' \in [Products -> Seq(AllEvents)]
  BY <1>1, <1>3
<1>6. \A p \in Products : Len(log[p]) \in Nat
  BY <1>1
<1>7. LogGrows
  BY <1>2, <1>3, <1>4, <1>6 DEF LogGrows
<1>. QED BY <1>2, <1>3, <1>4, <1>5, <1>7

(* A set of a function of sets grows by one element.                       *)
LEMMA OneMore ==
    ASSUME NEW I, NEW S, NEW f \in [I -> SUBSET S], NEW i \in I, NEW x \in S
    PROVE  /\ [f EXCEPT ![i] = @ \cup {x}] \in [I -> SUBSET S]
           /\ \A j \in I : \A y \in [f EXCEPT ![i] = @ \cup {x}][j] :
                 y \in f[j] \/ (j = i /\ y = x)
OBVIOUS

(* A snapshot holds the state of the call that saves it.                   *)
LEMMA Saved ==
    ASSUME TypeInv, NEW r \in Requests, MaybeCreateSnapshot(r)
    PROVE  /\ pc[r] = "snapshot" /\ pc' = [pc EXCEPT ![r] = "ok"]
           /\ UNCHANGED <<log, id, event, loaded, version>>
           /\ snapshot' \in [Products -> [version : Nat, state : Inventories]]
           /\ \A p \in Products :
                 \/ snapshot'[p] = snapshot[p]
                 \/ /\ p = id[r] /\ version[r] % SnapshotThreshold = 0
                    /\ snapshot'[p].version = version[r]
                    /\ snapshot'[p].state = ApplyStockEvent(loaded[r], event[r])
           /\ overwritten' \in [Products -> SUBSET [version : Nat, state : Inventories]]
           /\ \A p \in Products : \A s \in overwritten'[p] :
                 s \in overwritten[p] \/ s = snapshot[p]
<1>1. /\ id[r] \in Products /\ version[r] \in Nat
      /\ ApplyStockEvent(loaded[r], event[r]) \in Inventories
      /\ snapshot \in [Products -> [version : Nat, state : Inventories]]
  BY ApplyType DEF TypeInv
<1>2. \/ /\ version[r] % SnapshotThreshold = 0
         /\ snapshot' = [snapshot EXCEPT ![id[r]] =
              [version |-> version[r], state |-> ApplyStockEvent(loaded[r], event[r])]]
      \/ snapshot' = snapshot
  BY DEF MaybeCreateSnapshot
<1>3. /\ pc[r] = "snapshot" /\ pc' = [pc EXCEPT ![r] = "ok"]
      /\ UNCHANGED <<log, id, event, loaded, version>>
  BY DEF MaybeCreateSnapshot, Step
<1>4. \/ overwritten' = [overwritten EXCEPT ![id[r]] = @ \cup {snapshot[id[r]]}]
      \/ overwritten' = overwritten
  BY DEF MaybeCreateSnapshot
<1>5. /\ overwritten' \in [Products -> SUBSET [version : Nat, state : Inventories]]
      /\ \A p \in Products : \A s \in overwritten'[p] :
            s \in overwritten[p] \/ s = snapshot[p]
  <2> DEFINE Items == [version : Nat, state : Inventories]
  <2>1. id[r] \in Products /\ snapshot[id[r]] \in Items /\ overwritten \in [Products -> SUBSET Items]
    BY <1>1 DEF TypeInv
  <2> HIDE DEF Items
  <2>2. /\ overwritten' \in [Products -> SUBSET Items]
        /\ \A p \in Products : \A s \in overwritten'[p] :
              s \in overwritten[p] \/ s = snapshot[p]
    <3>1. CASE overwritten' = [overwritten EXCEPT ![id[r]] = @ \cup {snapshot[id[r]]}]
      BY <2>1, <3>1, OneMore
    <3>2. CASE overwritten' = overwritten
      BY <2>1, <3>2
    <3>. QED BY <1>4, <3>1, <3>2
  <2>. QED BY <2>2 DEF Items
<1>. QED BY <1>1, <1>2, <1>3, <1>5

(* Whatever is loaded is an inventory.                                     *)
LEMMA FoldsAreInventories ==
    ASSUME NEW base \in Inventories, NEW t, NEW k \in Nat, \A i \in 1 .. k : t[i] \in AllEvents
    PROVE  \A n \in 0 .. k : Stock!Fold(base, t, 1 .. n) \in Inventories
<1> DEFINE A == {n \in Nat : n <= k => Stock!Fold(base, t, 1 .. n) \in Inventories}
<1>1. 0 \in A
  <2>1. 1 .. 0 = {}
    OBVIOUS
  <2>. QED BY <2>1, Stock!FoldEmpty
<1>2. ASSUME NEW n \in Nat, n \in A PROVE n + 1 \in A
  <2> SUFFICES ASSUME n + 1 <= k PROVE Stock!Fold(base, t, 1 .. n + 1) \in Inventories
    OBVIOUS
  <2>1. Stock!Fold(base, t, 1 .. n) \in Inventories /\ t[n + 1] \in AllEvents
    BY <1>2
  <2>2. Stock!Fold(base, t, 1 .. n + 1) = TakeStock(t[n + 1], Stock!Fold(base, t, 1 .. n))
    BY LatestIsLast, Stock!FoldNext
  <2>. QED BY <2>1, <2>2, ApplyType DEF TakeStock
<1>3. Nat \subseteq A
  <2> HIDE DEF A
  <2>. QED BY <1>1, <1>2, Stock!NatSetInduction
<1>. QED BY <1>3

(* LoadAggregate is a fold over the events behind the snapshot.            *)
LEMMA LoadIs ==
    ASSUME TypeInv, NEW p \in Products, NEW s \in [version : Nat, state : Inventories],
           NEW k \in 0 .. Len(log[p])
    PROVE  \E t : \E n \in Nat :
              /\ n = IF s.version <= k THEN k - s.version ELSE 0
              /\ \A i \in 1 .. n : t[i] = log[p][s.version + i]
              /\ \A i \in 1 .. n : t[i] \in AllEvents
              /\ LoadAggregate(p, s, k) = Stock!Fold(s.state, t, 1 .. n)
              /\ LoadAggregate(p, s, k) \in Inventories
<1> DEFINE t == SubSeq(log[p], s.version + 1, k)
           n == IF s.version <= k THEN k - s.version ELSE 0
<1>1. log[p] \in Seq(AllEvents) /\ s.version \in Nat /\ s.state \in Inventories /\ k \in Nat
  BY DEF TypeInv
<1>2. n \in Nat
  BY <1>1
<1>3. DOMAIN t = 1 .. n
  BY <1>1
<1>4. \A i \in 1 .. n : s.version + i \in 1 .. Len(log[p])
  BY <1>1
<1>5. \A i \in 1 .. n : t[i] = log[p][s.version + i]
  BY <1>1, <1>4
<1>6. \A i \in 1 .. n : t[i] \in AllEvents
  BY <1>1, <1>4, <1>5
<1>7. LoadAggregate(p, s, k) = Stock!Fold(s.state, t, 1 .. n)
  BY <1>3, FoldLeftIs DEF LoadAggregate
<1>8. Stock!Fold(s.state, t, 1 .. n) \in Inventories
  <2>1. n \in 0 .. n
    BY <1>2
  <2> HIDE DEF t, n
  <2>. QED BY <1>1, <1>2, <1>6, <2>1, FoldsAreInventories
<1>9. n = IF s.version <= k THEN k - s.version ELSE 0
  OBVIOUS
<1> HIDE DEF t, n
<1>. QED BY <1>2, <1>5, <1>6, <1>7, <1>8, <1>9

(* Every load, also of a stale snapshot, and the fresh inventory that a    *)
(* load that fails is replaced by.                                         *)
LEMMA Loaded ==
    ASSUME TypeInv, SnapshotAtThreshold, NEW r \in Requests, Load(r) \/ LoadFails(r)
    PROVE  /\ pc[r] = "new" /\ pc' = [pc EXCEPT ![r] = "append"]
           /\ event[r] \in OwnEvents
           /\ UNCHANGED <<log, snapshot, overwritten, id, event, version>>
           /\ loaded' \in [Requests -> Inventories]
           /\ \A q \in Requests \ {r} : loaded'[q] = loaded[q]
           /\ \/ /\ MayStart(r)
                 /\ \E s \in SeenSnapshots(id[r]), k \in SeenLengths(id[r]) :
                       /\ s \in [version : Nat, state : Inventories]
                       /\ k \in 0 .. Len(log[id[r]])
                       /\ loaded'[r] = LoadAggregate(id[r], s, k)
              \/ id[r] \in Contended /\ loaded'[r] = EmptyInventory
<1>1. /\ id[r] \in Products /\ loaded \in [Requests -> Inventories]
      /\ snapshot[id[r]] \in [version : Nat, state : Inventories]
      /\ \A s \in overwritten[id[r]] : s \in [version : Nat, state : Inventories]
      /\ log[id[r]] \in Seq(AllEvents)
  BY DEF TypeInv
<1>2. EmptyInventory \in Inventories /\ NoSnapshot \in [version : Nat, state : Inventories]
  BY DEF EmptyInventory, NoSnapshot, Inventories
<1>3. /\ pc[r] = "new" /\ pc' = [pc EXCEPT ![r] = "append"]
      /\ event[r] \in OwnEvents
      /\ UNCHANGED <<log, snapshot, overwritten, id, event, version>>
  BY DEF Load, LoadFails, Step, OwnEvents
<1>4. CASE Load(r)
  <2>1. PICK s \in SeenSnapshots(id[r]), k \in SeenLengths(id[r]) :
           loaded' = [loaded EXCEPT ![r] = LoadAggregate(id[r], s, k)]
    BY <1>4 DEF Load
  <2>2. s \in [version : Nat, state : Inventories]
    BY <1>1, <1>2 DEF SeenSnapshots
  <2>3. k \in 0 .. Len(log[id[r]])
    BY <1>1 DEF SeenLengths
  <2>4. LoadAggregate(id[r], s, k) \in Inventories
    BY <1>1, <2>2, <2>3, LoadIs
  <2>5. MayStart(r)
    BY <1>4 DEF Load
  <2>6. /\ loaded' \in [Requests -> Inventories]
        /\ \A q \in Requests \ {r} : loaded'[q] = loaded[q]
        /\ loaded'[r] = LoadAggregate(id[r], s, k)
    BY <1>1, <2>1, <2>4
  <2>. QED BY <1>3, <2>2, <2>3, <2>5, <2>6
<1>5. CASE LoadFails(r)
  BY <1>1, <1>2, <1>3, <1>5 DEF LoadFails
<1>. QED BY <1>4, <1>5

(* Both kinds of appends.                                                  *)
LEMMA Appended ==
    ASSUME TypeInv, NEW r \in Requests, AppendEvent(r) \/ AppendForeign(r)
    PROVE  /\ log' \in [Products -> Seq(AllEvents)] /\ LogGrows
           /\ Len(log'[id[r]]) = Len(log[id[r]]) + 1
           /\ log'[id[r]][Len(log[id[r]]) + 1] = event[r]
           /\ \A p \in Products \ {id[r]} : log'[p] = log[p]
           /\ version' = [version EXCEPT ![r] = Len(log[id[r]]) + 1]
           /\ version' \in [Requests -> Nat]
           /\ UNCHANGED <<snapshot, overwritten, id, event, loaded>>
           /\ \/ pc[r] = "append" /\ pc' = [pc EXCEPT ![r] = "snapshot"]
              \/ pc[r] = "append" /\ pc' = [pc EXCEPT ![r] = "failed"]
              \/ /\ pc[r] = "new" /\ pc' = [pc EXCEPT ![r] = "ok"]
                 /\ MayStart(r)
<1>1. /\ log' = [log EXCEPT ![id[r]] = Append(@, event[r])]
      /\ version' = [version EXCEPT ![r] = Len(log[id[r]]) + 1]
      /\ UNCHANGED <<snapshot, overwritten, id, event, loaded>>
      /\ \/ pc[r] = "append" /\ pc' = [pc EXCEPT ![r] = "snapshot"]
         \/ pc[r] = "append" /\ pc' = [pc EXCEPT ![r] = "failed"]
         \/ /\ pc[r] = "new" /\ pc' = [pc EXCEPT ![r] = "ok"]
            /\ MayStart(r)
  BY DEF AppendEvent, AppendForeign, Step
<1>2. Len(log[id[r]]) + 1 \in Nat /\ version \in [Requests -> Nat]
  BY DEF TypeInv
<1>. QED BY <1>1, <1>2, Recorded

-----------------------------------------------------------------------------
LEMMA InitThreshold == Init => ThresholdInv
<1> SUFFICES ASSUME Init PROVE ThresholdInv
  OBVIOUS
<1>1. EmptyInventory \in Inventories
  BY DEF EmptyInventory, Inventories
<1>2. TypeInv
  BY <1>1 DEF Init, TypeInv, NoSnapshot, AllEvents, OwnEvents
<1>. QED BY <1>2 DEF Init, ThresholdInv, SavesItsEvent, Working, SnapshotAtThreshold, NoSnapshot

LEMMA LoadThreshold ==
    ASSUME ThresholdInv, NEW r \in Requests, Load(r) \/ LoadFails(r)
    PROVE  ThresholdInv'
<1>1. TypeInv /\ SnapshotAtThreshold
  BY DEF ThresholdInv
<1>2. /\ pc[r] = "new" /\ pc' = [pc EXCEPT ![r] = "append"]
      /\ event[r] \in OwnEvents
      /\ UNCHANGED <<log, snapshot, overwritten, id, event, version>>
      /\ loaded' \in [Requests -> Inventories]
  BY <1>1, Loaded
<1>3. TypeInv'
  BY <1>1, <1>2 DEF TypeInv
<1>4. \A q \in Requests : SavesItsEvent(q)'
  BY <1>1, <1>2 DEF ThresholdInv, TypeInv, SavesItsEvent, Working
<1>. QED BY <1>1, <1>2, <1>3, <1>4 DEF ThresholdInv, SnapshotAtThreshold

LEMMA AppendThreshold ==
    ASSUME ThresholdInv, NEW r \in Requests, AppendEvent(r) \/ AppendForeign(r)
    PROVE  ThresholdInv'
<1>1. TypeInv /\ SnapshotAtThreshold /\ \A q \in Requests : SavesItsEvent(q)
  BY DEF ThresholdInv
<1>2. /\ log' \in [Products -> Seq(AllEvents)] /\ LogGrows
      /\ Len(log'[id[r]]) = Len(log[id[r]]) + 1
      /\ log'[id[r]][Len(log[id[r]]) + 1] = event[r]
      /\ version' = [version EXCEPT ![r] = Len(log[id[r]]) + 1]
      /\ version' \in [Requests -> Nat]
      /\ UNCHANGED <<snapshot, overwritten, id, event, loaded>>
      /\ \/ pc[r] = "append" /\ pc' = [pc EXCEPT ![r] = "snapshot"]
         \/ pc[r] = "append" /\ pc' = [pc EXCEPT ![r] = "failed"]
         \/ pc[r] = "new" /\ pc' = [pc EXCEPT ![r] = "ok"]
  BY <1>1, Appended
<1>3. TypeInv'
  BY <1>1, <1>2 DEF TypeInv
<1>4. ASSUME NEW q \in Requests PROVE SavesItsEvent(q)'
  <2>1. id[q] \in Products /\ pc \in [Requests -> {"new", "append", "snapshot", "ok", "failed"}]
        /\ version \in [Requests -> Nat]
    BY <1>1 DEF TypeInv
  <2>2. CASE q = r
    <3>1. pc'[r] = "snapshot" => pc[r] = "append"
      BY <1>2, <2>1
    <3>2. pc'[r] # "append"
      BY <1>2, <2>1
    <3>3. /\ version'[r] = Len(log[id[r]]) + 1 /\ Len(log[id[r]]) \in Nat
      BY <1>2, <2>1, <2>2 DEF LogGrows
    <3>. QED BY <1>1, <1>2, <2>2, <3>1, <3>2, <3>3 DEF SavesItsEvent, Working
  <2>3. CASE q # r
    <3>1. pc'[q] = pc[q] /\ version'[q] = version[q] /\ event'[q] = event[q] /\ id'[q] = id[q]
      BY <1>2, <2>1, <2>3
    <3>2. version[q] \in 1 .. Len(log[id[q]]) =>
             /\ version[q] \in 1 .. Len(log'[id[q]])
             /\ log'[id[q]][version[q]] = log[id[q]][version[q]]
      BY <1>2, <2>1 DEF LogGrows
    <3>. QED BY <1>1, <3>1, <3>2 DEF SavesItsEvent, Working
  <2>. QED BY <2>2, <2>3
<1>5. SnapshotAtThreshold'
  <2> SUFFICES ASSUME NEW p \in Products, snapshot[p].version > 0
               PROVE  /\ snapshot[p].version \in 1 .. Len(log'[p])
                      /\ snapshot[p].version % SnapshotThreshold = 0
                      /\ log'[p][snapshot[p].version] \in OwnEvents
    BY <1>2 DEF SnapshotAtThreshold, OwnEvents
  <2>1. /\ snapshot[p].version \in 1 .. Len(log[p])
        /\ snapshot[p].version % SnapshotThreshold = 0
        /\ log[p][snapshot[p].version] \in OwnEvents
    BY <1>1 DEF SnapshotAtThreshold, OwnEvents
  <2>. QED BY <1>2, <2>1 DEF LogGrows
<1>. QED BY <1>3, <1>4, <1>5 DEF ThresholdInv

LEMMA SaveThreshold ==
    ASSUME ThresholdInv, NEW r \in Requests, MaybeCreateSnapshot(r)
    PROVE  ThresholdInv'
<1>1. TypeInv /\ SnapshotAtThreshold /\ \A q \in Requests : SavesItsEvent(q)
  BY DEF ThresholdInv
<1>2. /\ pc[r] = "snapshot" /\ pc' = [pc EXCEPT ![r] = "ok"]
      /\ UNCHANGED <<log, id, event, loaded, version>>
      /\ snapshot' \in [Products -> [version : Nat, state : Inventories]]
      /\ overwritten' \in [Products -> SUBSET [version : Nat, state : Inventories]]
      /\ \A p \in Products :
            \/ snapshot'[p] = snapshot[p]
            \/ /\ p = id[r] /\ version[r] % SnapshotThreshold = 0
               /\ snapshot'[p].version = version[r]
  BY <1>1, Saved
<1>3. TypeInv'
  BY <1>1, <1>2 DEF TypeInv
<1>4. \A q \in Requests : SavesItsEvent(q)'
  BY <1>1, <1>2 DEF TypeInv, SavesItsEvent, Working
<1>5. SnapshotAtThreshold'
  <2> SUFFICES ASSUME NEW p \in Products, snapshot'[p].version > 0
               PROVE  /\ snapshot'[p].version \in 1 .. Len(log[p])
                      /\ snapshot'[p].version % SnapshotThreshold = 0
                      /\ log[p][snapshot'[p].version] \in OwnEvents
    BY <1>2 DEF SnapshotAtThreshold, OwnEvents
  <2>1. CASE snapshot'[p] = snapshot[p]
    BY <1>1, <2>1 DEF SnapshotAtThreshold, OwnEvents
  <2>2. CASE p = id[r] /\ version[r] % SnapshotThreshold = 0 /\ snapshot'[p].version = version[r]
    BY <1>1, <1>2, <2>2 DEF SavesItsEvent, Working
  <2>. QED BY <1>2, <2>1, <2>2
<1>. QED BY <1>3, <1>4, <1>5 DEF ThresholdInv

LEMMA OthersThreshold ==
    ASSUME ThresholdInv, (\E r \in Requests : AppendFails(r)) \/ UNCHANGED vars
    PROVE  ThresholdInv'
<1>1. /\ UNCHANGED <<log, snapshot, overwritten, id, event, loaded, version>>
      /\ \/ pc' = pc
         \/ \E r \in Requests : pc' = [pc EXCEPT ![r] = "failed"]
  BY DEF AppendFails, Step, vars
<1>2. TypeInv'
  BY <1>1 DEF ThresholdInv, TypeInv
<1>3. \A q \in Requests : SavesItsEvent(q)'
  BY <1>1 DEF ThresholdInv, TypeInv, SavesItsEvent, Working
<1>. QED BY <1>1, <1>2, <1>3 DEF ThresholdInv, SnapshotAtThreshold

LEMMA NextThreshold == ASSUME ThresholdInv, [Next]_vars PROVE ThresholdInv'
BY LoadThreshold, AppendThreshold, SaveThreshold, OthersThreshold DEF Next

(* A snapshot names an existing version that is a multiple of the          *)
(* threshold and holds an event of the inventory, however calls overlap,   *)
(* loads fail and the product's own events come in between.                *)
THEOREM SnapshotsAreAtThreshold == Spec => []SnapshotAtThreshold
<1>1. Init => ThresholdInv
  BY InitThreshold
<1>2. ThresholdInv /\ [Next]_vars => ThresholdInv'
  BY NextThreshold
<1>3. ThresholdInv => SnapshotAtThreshold
  BY DEF ThresholdInv
<1>. QED BY <1>1, <1>2, <1>3, PTL DEF Spec

-----------------------------------------------------------------------------
(***************************************************************************)
(* What the snapshots of calm products say.  Their calls take turns; what  *)
(* a call loaded is the state of now, and what it saves that of its event. *)
(***************************************************************************)
OneAtATime ==
    \A q, r \in Requests :
        Working(q) /\ Working(r) /\ id[q] = id[r] /\ id[q] \notin Contended => q = r

LoadedIsTrue(r) ==
    id[r] \notin Contended =>
        /\ pc[r] = "append" => loaded[r] = StateAt(log[id[r]], Len(log[id[r]]))
        /\ pc[r] = "snapshot" => /\ version[r] = Len(log[id[r]])
                                 /\ loaded[r] = StateAt(log[id[r]], version[r] - 1)

SnapshotIsState(p) == snapshot[p].state = StateAt(log[p], snapshot[p].version)

CalmInv ==
    /\ ThresholdInv
    /\ OneAtATime
    /\ \A r \in Requests : LoadedIsTrue(r)
    /\ \A p \in Calm : SnapshotIsState(p)

(* The events behind a true snapshot bring it up to date.                  *)
LEMMA LoadedFromTrue ==
    ASSUME TypeInv, NEW p \in Products, NEW s \in [version : Nat, state : Inventories],
           s.version <= Len(log[p]), s.state = StateAt(log[p], s.version)
    PROVE  LoadAggregate(p, s, Len(log[p])) = StateAt(log[p], Len(log[p]))
<1>1. Len(log[p]) \in 0 .. Len(log[p]) /\ Len(log[p]) \in Nat /\ s.version \in Nat
  BY DEF TypeInv
<1> DEFINE k == Len(log[p])
           l == log[p]
           v == s.version
<1>2. PICK t : \E n \in Nat :
        /\ n = IF s.version <= k THEN k - s.version ELSE 0
        /\ \A i \in 1 .. n : t[i] = log[p][s.version + i]
        /\ \A i \in 1 .. n : t[i] \in AllEvents
        /\ LoadAggregate(p, s, k) = Stock!Fold(s.state, t, 1 .. n)
        /\ LoadAggregate(p, s, k) \in Inventories
  <2>1. k \in 0 .. Len(log[p])
    BY <1>1
  <2> HIDE DEF k
  <2>. QED BY <2>1, LoadIs
<1>3. PICK n \in Nat :
        /\ n = IF s.version <= k THEN k - s.version ELSE 0
        /\ \A i \in 1 .. n : t[i] = l[v + i]
        /\ LoadAggregate(p, s, Len(log[p])) = Stock!Fold(s.state, t, 1 .. n)
  BY <1>2
<1>4. Stock!Fold(Stock!Fold(EmptyInventory, l, 1 .. v), t, 1 .. n)
        = Stock!Fold(EmptyInventory, l, 1 .. v + n)
  <2>1. v \in Nat /\ \A i \in 1 .. n : t[i] = l[v + i]
    BY <1>1, <1>3
  <2> HIDE DEF l, v
  <2>. QED BY <2>1, LatestIsLast, Stock!FoldOn
<1>5. s.version + n = Len(log[p])
  BY <1>1, <1>3
<1>. QED BY <1>3, <1>4, <1>5 DEF StateAt

LEMMA VersionsExist ==
    ASSUME ThresholdInv, NEW p \in Products
    PROVE  snapshot[p].version \in Nat /\ snapshot[p].version <= Len(log[p])
<1>1. snapshot[p].version \in Nat /\ Len(log[p]) \in Nat
  BY DEF ThresholdInv, TypeInv
<1>. QED BY <1>1 DEF ThresholdInv, SnapshotAtThreshold

LEMMA InitCalm == Init => CalmInv
<1> SUFFICES ASSUME Init PROVE CalmInv
  OBVIOUS
<1>1. \A p \in Calm : SnapshotIsState(p)
  BY AtNothing DEF Init, SnapshotIsState, NoSnapshot, Calm
<1>. QED BY <1>1, InitThreshold DEF Init, CalmInv, OneAtATime, LoadedIsTrue, Working

LEMMA LoadCalm ==
    ASSUME CalmInv, NEW r \in Requests, Load(r) \/ LoadFails(r) PROVE CalmInv'
<1>1. ThresholdInv /\ TypeInv /\ SnapshotAtThreshold
  BY DEF CalmInv, ThresholdInv
<1>2. /\ pc[r] = "new" /\ pc' = [pc EXCEPT ![r] = "append"]
      /\ UNCHANGED <<log, snapshot, overwritten, id, event, version>>
      /\ \A q \in Requests \ {r} : loaded'[q] = loaded[q]
  BY <1>1, Loaded
<1>3. \A q \in Requests : pc'[q] = IF q = r THEN "append" ELSE pc[q]
  BY <1>1, <1>2 DEF TypeInv
<1>4. ASSUME id[r] \notin Contended
      PROVE  ~Busy(id[r]) /\ loaded'[r] = StateAt(log[id[r]], Len(log[id[r]]))
  <2>1. PICK s \in SeenSnapshots(id[r]), k \in SeenLengths(id[r]) :
           s \in [version : Nat, state : Inventories] /\ loaded'[r] = LoadAggregate(id[r], s, k)
    BY <1>1, <1>4, Loaded
  <2>2. MayStart(r)
    BY <1>1, <1>4, Loaded
  <2>3. s = snapshot[id[r]] /\ k = Len(log[id[r]])
    BY <1>4, <2>1 DEF SeenSnapshots, SeenLengths
  <2>4. id[r] \in Products /\ id[r] \in Calm
    BY <1>1, <1>4 DEF TypeInv, Calm
  <2>5. s.version <= Len(log[id[r]]) /\ s.state = StateAt(log[id[r]], s.version)
    BY <1>1, <2>3, <2>4, VersionsExist DEF CalmInv, SnapshotIsState
  <2>6. loaded'[r] = StateAt(log[id[r]], Len(log[id[r]]))
    BY <1>1, <2>1, <2>3, <2>4, <2>5, LoadedFromTrue
  <2>. QED BY <1>4, <2>2, <2>6 DEF MayStart
<1>5. OneAtATime'
  BY <1>2, <1>3, <1>4 DEF CalmInv, OneAtATime, Working, Busy
<1>6. \A q \in Requests : LoadedIsTrue(q)'
  BY <1>2, <1>3, <1>4 DEF CalmInv, LoadedIsTrue
<1>7. \A p \in Calm : SnapshotIsState(p)'
  BY <1>2 DEF CalmInv, SnapshotIsState
<1>8. ThresholdInv'
  BY <1>1, LoadThreshold
<1>. QED BY <1>5, <1>6, <1>7, <1>8 DEF CalmInv

LEMMA AppendCalm ==
    ASSUME CalmInv, NEW r \in Requests, AppendEvent(r) \/ AppendForeign(r) PROVE CalmInv'
<1>1. ThresholdInv /\ TypeInv
  BY DEF CalmInv, ThresholdInv
<1>2. /\ LogGrows
      /\ Len(log'[id[r]]) = Len(log[id[r]]) + 1
      /\ \A p \in Products \ {id[r]} : log'[p] = log[p]
      /\ version' = [version EXCEPT ![r] = Len(log[id[r]]) + 1]
      /\ UNCHANGED <<snapshot, overwritten, id, event, loaded>>
      /\ \/ pc[r] = "append" /\ pc' = [pc EXCEPT ![r] = "snapshot"]
         \/ pc[r] = "append" /\ pc' = [pc EXCEPT ![r] = "failed"]
         \/ pc[r] = "new" /\ pc' = [pc EXCEPT ![r] = "ok"] /\ MayStart(r)
  BY <1>1, Appended
<1>3. /\ id \in [Requests -> Products] /\ version \in [Requests -> Nat]
      /\ \A q \in Requests \ {r} : pc'[q] = pc[q] /\ version'[q] = version[q]
      /\ version'[r] = Len(log[id[r]]) + 1
      /\ Len(log[id[r]]) \in Nat
      /\ pc'[r] # "append"
      /\ Working(r)' => pc[r] = "append" /\ pc'[r] = "snapshot"
  BY <1>1, <1>2 DEF TypeInv, Working
<1>4. ASSUME NEW q \in Requests, Working(q), q # r, id[q] = id[r]
      PROVE  id[r] \in Contended
  BY <1>2, <1>4 DEF CalmInv, OneAtATime, Working, MayStart, Busy
<1>5. OneAtATime'
  BY <1>2, <1>3 DEF CalmInv, OneAtATime, Working
<1>6. ASSUME NEW q \in Requests PROVE LoadedIsTrue(q)'
  <2> SUFFICES ASSUME id[q] \notin Contended
               PROVE  /\ pc'[q] = "append" => loaded[q] = StateAt(log'[id[q]], Len(log'[id[q]]))
                      /\ pc'[q] = "snapshot" =>
                            /\ version'[q] = Len(log'[id[q]])
                            /\ loaded[q] = StateAt(log'[id[q]], version'[q] - 1)
    BY <1>2 DEF LoadedIsTrue
  <2>1. CASE q = r
    <3> SUFFICES ASSUME pc'[r] = "snapshot"
                 PROVE  /\ version'[r] = Len(log'[id[r]])
                        /\ loaded[r] = StateAt(log'[id[r]], version'[r] - 1)
      BY <1>3, <2>1
    <3>1. pc[r] = "append"
      BY <1>3 DEF Working
    <3>2. loaded[r] = StateAt(log[id[r]], Len(log[id[r]]))
      BY <2>1, <3>1 DEF CalmInv, LoadedIsTrue
    <3>3. version'[r] - 1 = Len(log[id[r]]) /\ version'[r] = Len(log'[id[r]])
      BY <1>2, <1>3
    <3>4. \A i \in 1 .. Len(log[id[r]]) : log[id[r]][i] = log'[id[r]][i]
      BY <1>2, <1>3 DEF LogGrows
    <3>5. StateAt(log[id[r]], Len(log[id[r]])) = StateAt(log'[id[r]], Len(log[id[r]]))
      <4> DEFINE old == log[id[r]]
                 new == log'[id[r]]
                 n == Len(log[id[r]])
      <4>1. n \in Nat /\ \A i \in 1 .. n : old[i] = new[i]
        BY <1>3, <3>4
      <4> HIDE DEF old, new, n
      <4>2. StateAt(old, n) = StateAt(new, n)
        BY <4>1, AtAgrees
      <4>. QED BY <4>2 DEF old, new, n
    <3>. QED BY <3>2, <3>3, <3>5
  <2>2. CASE q # r /\ ~Working(q)
    BY <1>3, <2>2 DEF Working
  <2>3. CASE q # r /\ Working(q)
    <3>1. id[q] # id[r]
      BY <1>4, <2>3
    <3>2. log'[id[q]] = log[id[q]]
      BY <1>2, <1>3, <3>1
    <3>. QED BY <1>3, <2>3, <3>2 DEF CalmInv, LoadedIsTrue
  <2>. QED BY <2>1, <2>2, <2>3
<1>7. ASSUME NEW p \in Calm PROVE SnapshotIsState(p)'
  <2>1. p \in Products /\ snapshot[p].version \in Nat /\ snapshot[p].version <= Len(log[p])
    BY <1>1, VersionsExist DEF Calm
  <2>2. \A i \in 1 .. snapshot[p].version : log[p][i] = log'[p][i]
    BY <1>2, <2>1 DEF LogGrows
  <2>3. StateAt(log[p], snapshot[p].version) = StateAt(log'[p], snapshot[p].version)
    BY <2>1, <2>2, AtAgrees
  <2>. QED BY <1>2, <2>3 DEF CalmInv, SnapshotIsState
<1>8. ThresholdInv'
  BY <1>1, AppendThreshold
<1>. QED BY <1>5, <1>6, <1>7, <1>8 DEF CalmInv

LEMMA SaveCalm ==
    ASSUME CalmInv, NEW r \in Requests, MaybeCreateSnapshot(r) PROVE CalmInv'
<1>1. ThresholdInv /\ TypeInv
  BY DEF CalmInv, ThresholdInv
<1>2. /\ pc[r] = "snapshot" /\ pc' = [pc EXCEPT ![r] = "ok"]
      /\ UNCHANGED <<log, id, event, loaded, version>>
      /\ \A p \in Products :
            \/ snapshot'[p] = snapshot[p]
            \/ /\ p = id[r] /\ snapshot'[p].version = version[r]
               /\ snapshot'[p].state = ApplyStockEvent(loaded[r], event[r])
  BY <1>1, Saved
<1>3. \A q \in Requests : pc'[q] = IF q = r THEN "ok" ELSE pc[q]
  BY <1>1, <1>2 DEF TypeInv
<1>4. OneAtATime' /\ \A q \in Requests : LoadedIsTrue(q)'
  BY <1>2, <1>3 DEF CalmInv, OneAtATime, Working, LoadedIsTrue
<1>5. ASSUME NEW p \in Calm PROVE SnapshotIsState(p)'
  <2>1. CASE snapshot'[p] = snapshot[p]
    BY <1>2, <2>1 DEF CalmInv, SnapshotIsState
  <2>2. CASE /\ p = id[r] /\ snapshot'[p].version = version[r]
             /\ snapshot'[p].state = ApplyStockEvent(loaded[r], event[r])
    <3>1. /\ loaded[r] = StateAt(log[p], version[r] - 1)
          /\ version[r] \in 1 .. Len(log[p]) /\ log[p][version[r]] = event[r]
      BY <1>1, <1>2, <2>2 DEF CalmInv, LoadedIsTrue, ThresholdInv, SavesItsEvent, Calm
    <3>2. version[r] - 1 \in Nat /\ version[r] - 1 + 1 = version[r]
      BY <3>1
    <3>3. StateAt(log[p], version[r]) = ApplyStockEvent(StateAt(log[p], version[r] - 1), event[r])
      BY <3>1, <3>2, AtNext
    <3>. QED BY <1>2, <2>2, <3>1, <3>3 DEF SnapshotIsState
  <2>. QED BY <1>2, <2>1, <2>2 DEF Calm
<1>6. ThresholdInv'
  BY <1>1, SaveThreshold
<1>. QED BY <1>4, <1>5, <1>6 DEF CalmInv

LEMMA OthersCalm ==
    ASSUME CalmInv, (\E r \in Requests : AppendFails(r)) \/ UNCHANGED vars PROVE CalmInv'
<1>1. ThresholdInv /\ TypeInv
  BY DEF CalmInv, ThresholdInv
<1>2. /\ UNCHANGED <<log, snapshot, overwritten, id, event, loaded, version>>
      /\ \A q \in Requests : pc'[q] = pc[q] \/ pc'[q] = "failed"
  BY <1>1 DEF AppendFails, Step, vars, TypeInv
<1>3. ThresholdInv'
  BY <1>1, OthersThreshold
<1>. QED BY <1>2, <1>3 DEF CalmInv, OneAtATime, Working, LoadedIsTrue, SnapshotIsState

(* If the calls for a product take turns and its queries do not lag or     *)
(* fail, each of its snapshots is the state that replaying its events up   *)
(* to the snapshot's version gives, for any number of calls.               *)
THEOREM SnapshotsAreReplays == Spec => []SnapshotIsReplay
<1>1. Init => CalmInv
  BY InitCalm
<1>2. CalmInv /\ [Next]_vars => CalmInv'
  BY LoadCalm, AppendCalm, SaveCalm, OthersCalm DEF Next
<1>3. CalmInv => SnapshotIsReplay
  <2> SUFFICES ASSUME CalmInv, NEW p \in Calm
               PROVE  snapshot[p].state = Replay(p, snapshot[p].version)
    BY DEF SnapshotIsReplay
  <2>1. p \in Products /\ ThresholdInv /\ TypeInv
    BY DEF Calm, CalmInv, ThresholdInv
  <2>2. snapshot[p].version \in 0 .. Len(log[p])
    BY <2>1, VersionsExist DEF TypeInv
  <2>. QED BY <2>1, <2>2, CountsAre DEF CalmInv, SnapshotIsState
<1>. QED BY <1>1, <1>2, <1>3, PTL DEF Spec

-----------------------------------------------------------------------------
(***************************************************************************)
(* What the snapshots of any product say.  No state that a call works on   *)
(* shows more than was added and reserved up to now: it is a fold over     *)
(* some of the events, and no event but an addition adds to it.            *)
(***************************************************************************)
HasEvents(s, k) == k \in Nat /\ \A i \in 1 .. k : s[i] \in AllEvents

Within(inv, s, n) == inv.total <= AddedUpTo(s, n) /\ inv.reserved <= ReservedUpTo(s, n)

LEMMA SumsAreNat ==
    ASSUME NEW s, NEW k, HasEvents(s, k), NEW n \in 0 .. k
    PROVE  AddedUpTo(s, n) \in Nat /\ ReservedUpTo(s, n) \in Nat
<1> DEFINE A == {m \in Nat : m <= k => AddedUpTo(s, m) \in Nat /\ ReservedUpTo(s, m) \in Nat}
<1>1. 0 \in A
  BY AtNothing
<1>2. ASSUME NEW m \in Nat, m \in A PROVE m + 1 \in A
  <2> SUFFICES ASSUME m + 1 <= k
               PROVE  AddedUpTo(s, m + 1) \in Nat /\ ReservedUpTo(s, m + 1) \in Nat
    OBVIOUS
  <2>1. s[m + 1] \in AllEvents /\ AddedUpTo(s, m) \in Nat /\ ReservedUpTo(s, m) \in Nat
    BY <1>2 DEF HasEvents
  <2>2. s[m + 1].quantity \in Nat
    BY <2>1, EventFacts
  <2>3. /\ AddedUpTo(s, m + 1) = CountAdded(s[m + 1], AddedUpTo(s, m))
        /\ ReservedUpTo(s, m + 1) = CountReserved(s[m + 1], ReservedUpTo(s, m))
    BY AtNext
  <2>. QED BY <2>1, <2>2, <2>3 DEF CountAdded, CountReserved
<1>3. Nat \subseteq A
  <2> HIDE DEF A
  <2>. QED BY <1>1, <1>2, Stock!NatSetInduction
<1>. QED BY <1>3 DEF HasEvents

LEMMA WithinNext ==
    ASSUME NEW s, NEW k, HasEvents(s, k), NEW n \in Nat, n + 1 <= k,
           NEW inv \in Inventories, Within(inv, s, n)
    PROVE  /\ Within(inv, s, n + 1)
           /\ Within(ApplyStockEvent(inv, s[n + 1]), s, n + 1)
<1> DEFINE e == s[n + 1]
           a == AddedUpTo(s, n)
           b == ReservedUpTo(s, n)
<1>1. e \in AllEvents /\ n \in 0 .. k
  BY DEF HasEvents
<1>2. /\ e.quantity \in Nat /\ e.type \in StockEventTypes \cup {"ProductUpdated"}
      /\ a \in Nat /\ b \in Nat
  BY <1>1, EventFacts, SumsAreNat
<1>3. AddedUpTo(s, n + 1) = CountAdded(e, a) /\ ReservedUpTo(s, n + 1) = CountReserved(e, b)
  BY AtNext
<1>4. inv.total \in Nat /\ inv.reserved \in Nat /\ inv.total <= a /\ inv.reserved <= b
  BY DEF Inventories, Within
<1> HIDE DEF e, a, b
<1>5. inv.total <= CountAdded(e, a) /\ inv.reserved <= CountReserved(e, b)
  BY <1>2, <1>4 DEF CountAdded, CountReserved
<1>6. /\ ApplyStockEvent(inv, e).total <= CountAdded(e, a)
      /\ ApplyStockEvent(inv, e).reserved <= CountReserved(e, b)
  <2>1. inv = [total |-> inv.total, reserved |-> inv.reserved]
    BY DEF Inventories
  <2>2. CASE e.type = "StockAdded"
    BY <1>2, <1>4, <2>1, <2>2 DEF ApplyStockEvent, CountAdded, CountReserved
  <2>3. CASE e.type = "StockReserved"
    BY <1>2, <1>4, <2>1, <2>3 DEF ApplyStockEvent, CountAdded, CountReserved
  <2>4. CASE e.type = "StockReleased"
    BY <1>2, <1>4, <2>1, <2>4 DEF ApplyStockEvent, Clamp, CountAdded, CountReserved
  <2>5. CASE e.type = "StockDeducted"
    BY <1>2, <1>4, <2>1, <2>5 DEF ApplyStockEvent, Clamp, CountAdded, CountReserved
  <2>6. CASE e.type = "ProductUpdated"
    BY <1>4, <2>6 DEF ApplyStockEvent, CountAdded, CountReserved
  <2>. QED BY <1>2, <2>2, <2>3, <2>4, <2>5, <2>6 DEF StockEventTypes
<1>. QED BY <1>3, <1>5, <1>6 DEF Within, e

LEMMA WithinLater ==
    ASSUME NEW s, NEW k, HasEvents(s, k), NEW m \in Nat, NEW n \in 0 .. k, m <= n,
           NEW inv \in Inventories, Within(inv, s, m)
    PROVE  Within(inv, s, n)
<1> DEFINE A == {j \in Nat : m + j <= k => Within(inv, s, m + j)}
<1>0. k \in Nat
  BY DEF HasEvents
<1>1. 0 \in A
  OBVIOUS
<1>2. ASSUME NEW j \in Nat, j \in A PROVE j + 1 \in A
  <2> SUFFICES ASSUME m + (j + 1) <= k PROVE Within(inv, s, m + (j + 1))
    OBVIOUS
  <2>1. m + j \in Nat /\ (m + j) + 1 <= k /\ Within(inv, s, m + j) /\ (m + j) + 1 = m + (j + 1)
    BY <1>0, <1>2
  <2>2. Within(inv, s, (m + j) + 1)
    BY <2>1, WithinNext
  <2>. QED BY <2>1, <2>2
<1>3. Nat \subseteq A
  <2> HIDE DEF A
  <2>. QED BY <1>1, <1>2, Stock!NatSetInduction
<1>4. n - m \in A /\ m + (n - m) = n
  <2>1. n - m \in Nat /\ m + (n - m) = n
    BY <1>0
  <2>. QED BY <1>3, <2>1
<1>. QED BY <1>0, <1>4

LEMMA WithinFold ==
    ASSUME NEW s, NEW k, HasEvents(s, k), NEW m \in Nat, NEW n \in Nat, m + n <= k,
           NEW t, \A i \in 1 .. n : t[i] = s[m + i],
           NEW base \in Inventories, Within(base, s, m)
    PROVE  Within(Stock!Fold(base, t, 1 .. n), s, m + n)
<1> DEFINE A == {j \in Nat : j <= n => /\ Stock!Fold(base, t, 1 .. j) \in Inventories
                                      /\ Within(Stock!Fold(base, t, 1 .. j), s, m + j)}
<1>0. k \in Nat
  BY DEF HasEvents
<1>1. 0 \in A
  <2>1. 1 .. 0 = {} /\ m + 0 = m
    OBVIOUS
  <2>. QED BY <2>1, Stock!FoldEmpty
<1>2. ASSUME NEW j \in Nat, j \in A PROVE j + 1 \in A
  <2> SUFFICES ASSUME j + 1 <= n
               PROVE  /\ Stock!Fold(base, t, 1 .. j + 1) \in Inventories
                      /\ Within(Stock!Fold(base, t, 1 .. j + 1), s, m + (j + 1))
    OBVIOUS
  <2> DEFINE inv == Stock!Fold(base, t, 1 .. j)
  <2>1. inv \in Inventories /\ Within(inv, s, m + j)
    BY <1>2
  <2>2. m + j \in Nat /\ (m + j) + 1 <= k /\ (m + j) + 1 = m + (j + 1) /\ j + 1 \in 1 .. n
    BY <1>0
  <2>3. t[j + 1] = s[(m + j) + 1] /\ s[(m + j) + 1] \in AllEvents
    BY <2>2 DEF HasEvents
  <2>4. Stock!Fold(base, t, 1 .. j + 1) = ApplyStockEvent(inv, t[j + 1])
    BY LatestIsLast, Stock!FoldNext DEF TakeStock
  <2> HIDE DEF inv
  <2>5. Within(ApplyStockEvent(inv, s[(m + j) + 1]), s, (m + j) + 1)
    BY <2>1, <2>2, WithinNext
  <2>6. ApplyStockEvent(inv, t[j + 1]) \in Inventories
    BY <2>1, <2>3, ApplyType
  <2>. QED BY <2>2, <2>3, <2>4, <2>5, <2>6
<1>3. Nat \subseteq A
  <2> HIDE DEF A
  <2>. QED BY <1>1, <1>2, Stock!NatSetInduction
<1>. QED BY <1>3

(* A load shows no more, however stale the snapshot or the query.          *)
LEMMA LoadedWithin ==
    ASSUME TypeInv, NEW p \in Products, NEW s \in [version : Nat, state : Inventories],
           NEW k \in 0 .. Len(log[p]), s.version <= Len(log[p]),
           Within(s.state, log[p], s.version)
    PROVE  Within(LoadAggregate(p, s, k), log[p], Len(log[p]))
<1> DEFINE l == log[p]
           v == s.version
           end == Len(log[p])
           base == s.state
<1>1. PICK t : \E n \in Nat :
        /\ n = IF s.version <= k THEN k - s.version ELSE 0
        /\ \A i \in 1 .. n : t[i] = log[p][s.version + i]
        /\ \A i \in 1 .. n : t[i] \in AllEvents
        /\ LoadAggregate(p, s, k) = Stock!Fold(s.state, t, 1 .. n)
        /\ LoadAggregate(p, s, k) \in Inventories
  BY LoadIs
<1>2. PICK n \in Nat :
        /\ n = IF v <= k THEN k - v ELSE 0
        /\ \A i \in 1 .. n : t[i] = l[v + i]
        /\ LoadAggregate(p, s, k) = Stock!Fold(base, t, 1 .. n)
        /\ LoadAggregate(p, s, k) \in Inventories
  BY <1>1
<1>3. /\ v \in Nat /\ end \in Nat /\ k \in Nat /\ k <= end /\ v <= end
      /\ base \in Inventories /\ Within(base, l, v) /\ HasEvents(l, end)
  BY DEF TypeInv, HasEvents
<1> HIDE DEF l, v, end, base
<1>4. v + n \in Nat /\ v + n <= end /\ end \in 0 .. end
  BY <1>2, <1>3
<1>5. Within(Stock!Fold(base, t, 1 .. n), l, v + n)
  BY <1>2, <1>3, <1>4, WithinFold
<1>6. Within(LoadAggregate(p, s, k), l, end)
  BY <1>2, <1>3, <1>4, <1>5, WithinLater
<1>. QED BY <1>6 DEF l, end

-----------------------------------------------------------------------------
LoadedWasThere(r) ==
    /\ pc[r] = "append" => Within(loaded[r], log[id[r]], Len(log[id[r]]))
    /\ pc[r] = "snapshot" => Within(loaded[r], log[id[r]], version[r] - 1)

SnapshotWasThere(p) == Within(snapshot[p].state, log[p], snapshot[p].version)

OverwrittenWasThere(p) ==
    \A s \in overwritten[p] :
        s.version <= Len(log[p]) /\ Within(s.state, log[p], s.version)

BoundInv ==
    /\ ThresholdInv
    /\ \A r \in Requests : LoadedWasThere(r)
    /\ \A p \in Products : SnapshotWasThere(p) /\ OverwrittenWasThere(p)

LEMMA LogHasEvents ==
    ASSUME TypeInv, NEW p \in Products PROVE HasEvents(log[p], Len(log[p]))
BY DEF TypeInv, HasEvents

(* What is recorded later changes nothing for what was there.              *)
LEMMA WithinAgrees ==
    ASSUME NEW s, NEW t, NEW n \in Nat, \A i \in 1 .. n : s[i] = t[i], NEW inv, Within(inv, s, n)
    PROVE  Within(inv, t, n)
<1>1. AddedUpTo(s, n) = AddedUpTo(t, n) /\ ReservedUpTo(s, n) = ReservedUpTo(t, n)
  BY AtAgrees
<1>. QED BY <1>1 DEF Within

LEMMA NothingIsWithin ==
    ASSUME TypeInv, NEW p \in Products, NEW n \in 0 .. Len(log[p])
    PROVE  Within(EmptyInventory, log[p], n)
<1>1. AddedUpTo(log[p], n) \in Nat /\ ReservedUpTo(log[p], n) \in Nat
  BY LogHasEvents, SumsAreNat
<1>. QED BY <1>1 DEF Within, EmptyInventory

LEMMA InitBound == Init => BoundInv
<1> SUFFICES ASSUME Init PROVE BoundInv
  OBVIOUS
<1>1. ThresholdInv /\ TypeInv
  BY InitThreshold DEF ThresholdInv
<1>2. ASSUME NEW p \in Products PROVE SnapshotWasThere(p)
  <2>1. snapshot[p].state = EmptyInventory /\ snapshot[p].version = 0 /\ 0 \in 0 .. Len(log[p])
    BY DEF Init, NoSnapshot
  <2>. QED BY <1>1, <2>1, NothingIsWithin DEF SnapshotWasThere
<1>3. \A p \in Products : OverwrittenWasThere(p)
  BY DEF Init, OverwrittenWasThere
<1>. QED BY <1>1, <1>2, <1>3 DEF Init, BoundInv, LoadedWasThere

LEMMA LoadBound ==
    ASSUME BoundInv, NEW r \in Requests, Load(r) \/ LoadFails(r) PROVE BoundInv'
<1>1. ThresholdInv /\ TypeInv /\ SnapshotAtThreshold
  BY DEF BoundInv, ThresholdInv
<1>2. /\ pc[r] = "new" /\ pc' = [pc EXCEPT ![r] = "append"]
      /\ UNCHANGED <<log, snapshot, overwritten, id, event, version>>
      /\ \A q \in Requests \ {r} : loaded'[q] = loaded[q]
  BY <1>1, Loaded
<1>3. \A q \in Requests : pc'[q] = IF q = r THEN "append" ELSE pc[q]
  BY <1>1, <1>2 DEF TypeInv
<1>4. id[r] \in Products /\ Len(log[id[r]]) \in 0 .. Len(log[id[r]])
  BY <1>1 DEF TypeInv
<1>5. Within(loaded'[r], log[id[r]], Len(log[id[r]]))
  <2>1. CASE loaded'[r] = EmptyInventory
    BY <1>1, <1>4, <2>1, NothingIsWithin
  <2>2. CASE \E s \in SeenSnapshots(id[r]), k \in SeenLengths(id[r]) :
                /\ s \in [version : Nat, state : Inventories]
                /\ k \in 0 .. Len(log[id[r]])
                /\ loaded'[r] = LoadAggregate(id[r], s, k)
    <3>1. PICK s \in SeenSnapshots(id[r]), k \in SeenLengths(id[r]) :
                /\ s \in [version : Nat, state : Inventories]
                /\ k \in 0 .. Len(log[id[r]])
                /\ loaded'[r] = LoadAggregate(id[r], s, k)
      BY <2>2
    <3>2. \/ s = snapshot[id[r]] \/ s \in overwritten[id[r]]
          \/ s.version = 0 /\ s.state = EmptyInventory
      BY DEF SeenSnapshots, NoSnapshot
    <3>3. s.version <= Len(log[id[r]]) /\ Within(s.state, log[id[r]], s.version)
      <4>1. CASE s = snapshot[id[r]]
        BY <1>1, <1>4, <4>1, VersionsExist DEF BoundInv, SnapshotWasThere
      <4>2. CASE s.version = 0 /\ s.state = EmptyInventory
        <5>1. 0 \in 0 .. Len(log[id[r]]) /\ 0 <= Len(log[id[r]])
          BY <1>4
        <5>. QED BY <1>1, <1>4, <4>2, <5>1, NothingIsWithin
      <4>3. CASE s \in overwritten[id[r]]
        BY <1>4, <4>3 DEF BoundInv, OverwrittenWasThere
      <4>. QED BY <3>2, <4>1, <4>2, <4>3
    <3>. QED BY <1>1, <1>4, <3>1, <3>3, LoadedWithin
  <2>. QED BY <1>1, <2>1, <2>2, Loaded
<1>6. \A q \in Requests : LoadedWasThere(q)'
  BY <1>2, <1>3, <1>5 DEF BoundInv, LoadedWasThere
<1>7. ThresholdInv'
  BY <1>1, LoadThreshold
<1>. QED BY <1>2, <1>6, <1>7 DEF BoundInv, SnapshotWasThere, OverwrittenWasThere

LEMMA AppendBound ==
    ASSUME BoundInv, NEW r \in Requests, AppendEvent(r) \/ AppendForeign(r) PROVE BoundInv'
<1>1. ThresholdInv /\ TypeInv
  BY DEF BoundInv, ThresholdInv
<1>2. /\ LogGrows
      /\ version' = [version EXCEPT ![r] = Len(log[id[r]]) + 1]
      /\ UNCHANGED <<snapshot, overwritten, id, event, loaded>>
      /\ \/ pc[r] = "append" /\ pc' = [pc EXCEPT ![r] = "snapshot"]
         \/ pc[r] = "append" /\ pc' = [pc EXCEPT ![r] = "failed"]
         \/ pc[r] = "new" /\ pc' = [pc EXCEPT ![r] = "ok"]
  BY <1>1, Appended
<1>3. ThresholdInv' /\ TypeInv'
  BY <1>1, AppendThreshold DEF ThresholdInv
<1>4. /\ \A q \in Requests \ {r} : pc'[q] = pc[q] /\ version'[q] = version[q]
      /\ version'[r] = Len(log[id[r]]) + 1
      /\ pc'[r] # "append"
      /\ pc'[r] = "snapshot" => pc[r] = "append"
  BY <1>1, <1>2 DEF TypeInv
<1>5. ASSUME NEW q \in Requests PROVE LoadedWasThere(q)'
  <2> DEFINE old == log[id[q]]
             new == log'[id[q]]
             n == Len(log[id[q]])
             m == Len(log'[id[q]])
             v == version[q]
             inv == loaded[q]
  <2>1. /\ id[q] \in Products /\ inv \in Inventories /\ v \in Nat
        /\ n \in Nat /\ m \in Nat /\ n <= m /\ \A i \in 1 .. n : old[i] = new[i]
    BY <1>1, <1>2 DEF TypeInv, LogGrows
  <2>2. HasEvents(new, m)
    BY <1>2, <1>3, <2>1, LogHasEvents DEF TypeInv, HasEvents
  <2>3. /\ pc[q] = "append" => Within(inv, old, n)
        /\ pc[q] = "snapshot" => /\ Within(inv, old, v - 1)
                                 /\ v \in 1 .. n
    BY <1>1 DEF BoundInv, LoadedWasThere, ThresholdInv, SavesItsEvent
  <2>4. /\ pc'[q] = "append" => pc[q] = "append" /\ q # r
        /\ pc'[q] = "snapshot" => \/ q = r /\ pc[q] = "append" /\ version'[q] = n + 1
                                  \/ pc[q] = "snapshot" /\ version'[q] = v
    BY <1>4
  <2> HIDE DEF old, new, n, m, v, inv
  <2>5. ASSUME Within(inv, old, n) PROVE Within(inv, new, n) /\ Within(inv, new, m)
    <3>1. Within(inv, new, n)
      BY <2>1, <2>5, WithinAgrees
    <3>2. m \in 0 .. m
      BY <2>1
    <3>. QED BY <2>1, <2>2, <3>1, <3>2, WithinLater
  <2>6. ASSUME Within(inv, old, v - 1), v \in 1 .. n PROVE Within(inv, new, v - 1)
    <3>1. v - 1 \in Nat /\ \A i \in 1 .. v - 1 : old[i] = new[i]
      BY <2>1, <2>6
    <3>. QED BY <2>6, <3>1, WithinAgrees
  <2>7. pc'[q] = "append" => Within(inv, new, m)
    BY <2>3, <2>4, <2>5
  <2>8. pc'[q] = "snapshot" => Within(inv, new, version'[q] - 1)
    <3>1. CASE q = r /\ pc[q] = "append" /\ version'[q] = n + 1
      <4>1. version'[q] - 1 = n /\ Within(inv, new, n)
        BY <2>1, <2>3, <2>5, <3>1
      <4>. QED BY <4>1
    <3>2. CASE pc[q] = "snapshot" /\ version'[q] = v
      BY <2>3, <2>6, <3>2
    <3>. QED BY <2>4, <3>1, <3>2
  <2>. QED BY <1>2, <2>7, <2>8 DEF LoadedWasThere, new, m, inv
<1>6. ASSUME NEW p \in Products PROVE SnapshotWasThere(p)'
  <2> DEFINE old == log[p]
             new == log'[p]
             v == snapshot[p].version
  <2>1. v \in Nat /\ v <= Len(old)
    BY <1>1, VersionsExist
  <2>2. \A i \in 1 .. v : old[i] = new[i]
    BY <1>2, <2>1 DEF LogGrows
  <2>3. Within(snapshot[p].state, old, v)
    BY DEF BoundInv, SnapshotWasThere
  <2> HIDE DEF old, new, v
  <2>4. Within(snapshot[p].state, new, v)
    BY <2>1, <2>2, <2>3, WithinAgrees
  <2>. QED BY <1>2, <2>4 DEF SnapshotWasThere, new, v
<1>7. ASSUME NEW p \in Products PROVE OverwrittenWasThere(p)'
  <2> SUFFICES ASSUME NEW s \in overwritten[p]
               PROVE  s.version <= Len(log'[p]) /\ Within(s.state, log'[p], s.version)
    BY <1>2 DEF OverwrittenWasThere
  <2> DEFINE old == log[p]
             new == log'[p]
             v == s.version
  <2>1. v \in Nat /\ v <= Len(old) /\ Len(old) \in Nat
        /\ Len(new) \in Nat /\ Len(old) <= Len(new)
    BY <1>1, <1>2 DEF BoundInv, OverwrittenWasThere, TypeInv, LogGrows
  <2>2. \A i \in 1 .. v : old[i] = new[i]
    BY <1>2, <2>1 DEF LogGrows
  <2>3. Within(s.state, old, v)
    BY DEF BoundInv, OverwrittenWasThere
  <2> HIDE DEF old, new, v
  <2>4. Within(s.state, new, v)
    BY <2>1, <2>2, <2>3, WithinAgrees
  <2>5. v <= Len(new)
    BY <2>1
  <2>. QED BY <2>4, <2>5 DEF new, v
<1>. QED BY <1>3, <1>5, <1>6, <1>7 DEF BoundInv

LEMMA SaveBound ==
    ASSUME BoundInv, NEW r \in Requests, MaybeCreateSnapshot(r) PROVE BoundInv'
<1>1. ThresholdInv /\ TypeInv
  BY DEF BoundInv, ThresholdInv
<1>2. /\ pc[r] = "snapshot" /\ pc' = [pc EXCEPT ![r] = "ok"]
      /\ UNCHANGED <<log, id, event, loaded, version>>
      /\ \A p \in Products :
            \/ snapshot'[p] = snapshot[p]
            \/ /\ p = id[r] /\ snapshot'[p].version = version[r]
               /\ snapshot'[p].state = ApplyStockEvent(loaded[r], event[r])
      /\ \A p \in Products : \A s \in overwritten'[p] :
            s \in overwritten[p] \/ s = snapshot[p]
  BY <1>1, Saved
<1>3. \A q \in Requests : pc'[q] = IF q = r THEN "ok" ELSE pc[q]
  BY <1>1, <1>2 DEF TypeInv
<1>4. \A q \in Requests : LoadedWasThere(q)'
  BY <1>2, <1>3 DEF BoundInv, LoadedWasThere
<1>5. Within(ApplyStockEvent(loaded[r], event[r]), log[id[r]], version[r])
  <2> DEFINE s == log[id[r]]
             n == version[r] - 1
             k == Len(log[id[r]])
  <2>1. /\ id[r] \in Products /\ loaded[r] \in Inventories
        /\ version[r] \in 1 .. k /\ s[version[r]] = event[r] /\ Within(loaded[r], s, n)
        /\ k \in Nat
    BY <1>1, <1>2 DEF TypeInv, ThresholdInv, SavesItsEvent, BoundInv, LoadedWasThere
  <2>2. n \in Nat /\ n + 1 <= k /\ n + 1 = version[r]
    BY <2>1
  <2>3. HasEvents(s, k)
    BY <1>1, <2>1, LogHasEvents
  <2> HIDE DEF s, n, k
  <2>4. Within(ApplyStockEvent(loaded[r], s[n + 1]), s, n + 1)
    BY <2>1, <2>2, <2>3, WithinNext
  <2>. QED BY <2>1, <2>2, <2>4 DEF s
<1>6. \A p \in Products : SnapshotWasThere(p)'
  BY <1>2, <1>5 DEF BoundInv, SnapshotWasThere
<1>7. ThresholdInv'
  BY <1>1, SaveThreshold
<1>8. \A p \in Products : OverwrittenWasThere(p)'
  <2> SUFFICES ASSUME NEW p \in Products, NEW s \in overwritten'[p]
               PROVE  s.version <= Len(log[p]) /\ Within(s.state, log[p], s.version)
    BY <1>2 DEF OverwrittenWasThere
  <2>1. CASE s = snapshot[p]
    BY <1>1, <2>1, VersionsExist DEF BoundInv, SnapshotWasThere
  <2>2. CASE s \in overwritten[p]
    BY <2>2 DEF BoundInv, OverwrittenWasThere
  <2>. QED BY <1>2, <2>1, <2>2
<1>. QED BY <1>4, <1>6, <1>7, <1>8 DEF BoundInv

LEMMA OthersBound ==
    ASSUME BoundInv, (\E r \in Requests : AppendFails(r)) \/ UNCHANGED vars PROVE BoundInv'
<1>1. ThresholdInv /\ TypeInv
  BY DEF BoundInv, ThresholdInv
<1>2. /\ UNCHANGED <<log, snapshot, overwritten, id, event, loaded, version>>
      /\ \A q \in Requests : pc'[q] = pc[q] \/ pc'[q] = "failed"
  BY <1>1 DEF AppendFails, Step, vars, TypeInv
<1>3. ThresholdInv'
  BY <1>1, OthersThreshold
<1>. QED BY <1>2, <1>3 DEF BoundInv, LoadedWasThere, SnapshotWasThere, OverwrittenWasThere

(* However calls overlap, whatever stale snapshots and events they load    *)
(* and however often a load fails, no snapshot shows more stock than was   *)
(* added, or more reservations than were made, up to its version.          *)
THEOREM SnapshotsInventNothing == Spec => []SnapshotInventsNothing
<1>1. Init => BoundInv
  BY InitBound
<1>2. BoundInv /\ [Next]_vars => BoundInv'
  BY LoadBound, AppendBound, SaveBound, OthersBound DEF Next
<1>3. BoundInv => SnapshotInventsNothing
  <2> SUFFICES ASSUME BoundInv, NEW p \in Products
               PROVE  /\ snapshot[p].state.total <= Sum(p, snapshot[p].version, "StockAdded")
                      /\ snapshot[p].state.reserved <= Sum(p, snapshot[p].version, "StockReserved")
    BY DEF SnapshotInventsNothing
  <2>1. ThresholdInv /\ TypeInv
    BY DEF BoundInv, ThresholdInv
  <2>2. snapshot[p].version \in 0 .. Len(log[p])
    BY <2>1, VersionsExist DEF TypeInv
  <2>. QED BY <2>1, <2>2, CountsAre DEF BoundInv, SnapshotWasThere, Within
<1>. QED BY <1>1, <1>2, <1>3, PTL DEF Spec
=============================================================================
