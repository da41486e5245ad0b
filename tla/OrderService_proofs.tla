------------------------- MODULE OrderService_proofs -------------------------
(***************************************************************************)
(* Proofs about the order service, for any orders, requests and snapshot   *)
(* threshold.                                                              *)
(*                                                                         *)
(* What a request loaded may be out of date when it appends, so the        *)
(* strengthening only says that it was true once: the loaded status is the *)
(* status at some version of the log, which never changes (LoadedWasTrue). *)
(* That is enough for every event to be legal after some earlier event.    *)
(* When the requests of an order do not overlap and queries do not lag,    *)
(* the loaded status is still the status of the order at the append        *)
(* (LoadedIsTrue), and the service implements the order lifecycle.         *)
(***************************************************************************)
EXTENDS OrderService, SequenceTheorems, TLAPS

(* A request that is about to append loaded a status the order once had.   *)
LoadedWasTrue ==
    \A r \in Requests : pc[r] = "append" /\ op[r] # "Place" =>
        /\ CanTransitionTo(loaded[r], StatusAfter[EventOf[op[r]]])
        /\ \E j \in 1 .. Len(log[order[r]]) : StatusAt(order[r], j) = loaded[r]

(* The log of an order is empty until its one Place has appended.          *)
PlaceComesFirst ==
    \A r \in Requests : op[r] = "Place" =>
        /\ pc[r] \in {"new", "append"} => log[order[r]] = <<>>
        /\ \A q \in Requests \ {r} : op[q] = "Place" => order[q] # order[r]

(* A version is only taken by a call once its event is stored.             *)
VersionsExist ==
    \A r \in Requests : version[r] <= Len(log[order[r]])

(* A snapshot that was overwritten is as true as it was.                   *)
OverwrittenWereTrue ==
    \A o \in Orders : \A s \in overwritten[o] : s.version > 0 =>
        s.version <= Len(log[o]) /\ s.status = StatusAt(o, s.version)

IInv ==
    /\ TypeOK
    /\ OverwrittenWereTrue
    /\ LoadedWasTrue
    /\ PlaceComesFirst
    /\ VersionsExist
    /\ PlacedOnceAndFirst
    /\ EveryEventWasLegal
    /\ SnapshotIsTrue
    /\ SuccessIsRecorded

-----------------------------------------------------------------------------
(* Every method appends an event of its own type.                          *)
LEMMA EventTypes ==
    /\ \A o \in Ops : EventOf[o] \in Events /\ (EventOf[o] = "OrderPlaced" <=> o = "Place")
    /\ \A e \in Events : StatusAfter[e] \in Statuses
    /\ \A s, t \in Statuses : CanTransitionTo(s, t) => t # "pending"
    /\ \A s \in Statuses : CanTransitionTo(s, "shipped") => s = "paid"
    /\ \A e \in Events : StatusAfter[e] = "paid" => e = "OrderPaid"
BY DEF Ops, EventOf, Events, StatusAfter, Statuses, CanTransitionTo,
       validTransitions

(* Appending leaves the earlier events where they are.                     *)
LEMMA Appended ==
    ASSUME NEW S, NEW s \in Seq(S), NEW e \in S
    PROVE  /\ Append(s, e) \in Seq(S)
           /\ Len(s) \in Nat
           /\ Len(Append(s, e)) = Len(s) + 1
           /\ \A i \in 1 .. Len(s) : Append(s, e)[i] = s[i]
           /\ Append(s, e)[Len(s) + 1] = e
           /\ \A i \in 1 .. Len(Append(s, e)) : i \in 1 .. Len(s) \/ i = Len(s) + 1
BY AppendProperties

(* A set of a function of sets grows by one element.                       *)
LEMMA OneMore ==
    ASSUME NEW I, NEW S, NEW f \in [I -> SUBSET S], NEW i \in I, NEW s \in S
    PROVE  /\ [f EXCEPT ![i] = @ \cup {s}] \in [I -> SUBSET S]
           /\ \A j \in I : \A t \in [f EXCEPT ![i] = @ \cup {s}][j] :
                 t \in f[j] \/ (j = i /\ t = s)
OBVIOUS

LEMMA InitIInv == Init => IInv
<1> SUFFICES ASSUME Init PROVE IInv
  OBVIOUS
<1>1. TypeOK
  BY DEF Init, TypeOK, NoSnapshot, PCs, Statuses
<1>2. LoadedWasTrue /\ PlaceComesFirst /\ VersionsExist
  BY DEF Init, LoadedWasTrue, PlaceComesFirst, VersionsExist
<1>3. /\ PlacedOnceAndFirst /\ EveryEventWasLegal /\ SnapshotIsTrue /\ SuccessIsRecorded
      /\ OverwrittenWereTrue
  BY DEF Init, PlacedOnceAndFirst, EveryEventWasLegal, SnapshotIsTrue, NoSnapshot,
         SuccessIsRecorded, OverwrittenWereTrue
<1> QED BY <1>1, <1>2, <1>3 DEF IInv

(* A loaded status is the status at a version the log really has.          *)
LEMMA LoadSeesThePast ==
    ASSUME IInv, NEW o \in Orders, NEW s \in SeenSnapshots(o),
           NEW k \in SeenLengths(o), s.version > 0 \/ k > 0
    PROVE  /\ LoadedStatus(o, s, k) \in Statuses
           /\ \E j \in 1 .. Len(log[o]) : StatusAt(o, j) = LoadedStatus(o, s, k)
<1>1. Len(log[o]) \in Nat /\ k \in 0 .. Len(log[o])
  BY DEF IInv, TypeOK, SeenLengths
<1>2. s.version \in Nat /\ s.status \in Statuses
  BY DEF IInv, TypeOK, SeenSnapshots, NoSnapshot, Statuses
<1>3. CASE k > s.version
  <2>1. k \in 1 .. Len(log[o])
    BY <1>1, <1>2, <1>3
  <2>2. StatusAt(o, k) \in Statuses
    BY <2>1, EventTypes DEF IInv, TypeOK, StatusAt
  <2> QED BY <1>3, <2>1, <2>2 DEF LoadedStatus
<1>4. CASE ~(k > s.version)
  <2>1. s.version > 0
    BY <1>1, <1>2, <1>4
  <2>2. s = snapshot[o] \/ s \in overwritten[o]
    BY <2>1 DEF SeenSnapshots, NoSnapshot
  <2>3. s.version \in 1 .. Len(log[o]) /\ s.status = StatusAt(o, s.version)
    BY <1>1, <1>2, <2>1, <2>2 DEF IInv, SnapshotIsTrue, OverwrittenWereTrue
  <2> QED BY <1>2, <1>4, <2>3 DEF LoadedStatus
<1> QED BY <1>3, <1>4

(* Every action preserves the invariant.                                   *)
LEMMA NextIInv == IInv /\ [Next]_vars => IInv'
<1> SUFFICES ASSUME IInv, [Next]_vars PROVE IInv'
  OBVIOUS
<1> USE DEF IInv
<1>1. ASSUME NEW r \in Requests, Place(r) \/ Reject(r) \/ LoadFails(r) \/ AppendFails(r)
      PROVE  IInv'
  <2>1. UNCHANGED <<log, snapshot, overwritten, op, order, loaded, version>>
    BY <1>1 DEF Place, Reject, LoadFails, AppendFails
  <2>2. \/ op[r] = "Place" /\ pc[r] = "new" /\ pc' = [pc EXCEPT ![r] = "append"]
        \/ pc' = [pc EXCEPT ![r] = "failed"]
    BY <1>1 DEF Place, Reject, LoadFails, AppendFails, Step
  <2>3. TypeOK'
    BY <2>1, <2>2 DEF TypeOK, PCs
  <2>4. LoadedWasTrue' /\ PlaceComesFirst' /\ VersionsExist'
    BY <2>1, <2>2 DEF LoadedWasTrue, PlaceComesFirst, VersionsExist, TypeOK, StatusAt
  <2>5. PlacedOnceAndFirst' /\ EveryEventWasLegal' /\ SnapshotIsTrue' /\ OverwrittenWereTrue'
    BY <2>1 DEF PlacedOnceAndFirst, EveryEventWasLegal, SnapshotIsTrue, StatusAt,
                OverwrittenWereTrue
  <2>6. SuccessIsRecorded'
    BY <2>1, <2>2 DEF SuccessIsRecorded, TypeOK
  <2> QED BY <2>3, <2>4, <2>5, <2>6
<1>2. ASSUME NEW r \in Requests, Load(r) PROVE IInv'
  <2> DEFINE o == order[r]
  <2>1. PICK s \in SeenSnapshots(o), k \in SeenLengths(o) :
          /\ s.version > 0 \/ k > 0
          /\ CanTransitionTo(LoadedStatus(o, s, k), StatusAfter[EventOf[op[r]]])
          /\ loaded' = [loaded EXCEPT ![r] = LoadedStatus(o, s, k)]
    BY <1>2 DEF Load
  <2>2. /\ op[r] # "Place"
        /\ pc' = [pc EXCEPT ![r] = "append"]
        /\ UNCHANGED <<log, snapshot, overwritten, op, order, version>>
    BY <1>2 DEF Load, Step
  <2>3. o \in Orders
    BY DEF TypeOK
  <2>4. /\ LoadedStatus(o, s, k) \in Statuses
        /\ \E j \in 1 .. Len(log[o]) : StatusAt(o, j) = LoadedStatus(o, s, k)
    BY <2>1, <2>3, LoadSeesThePast
  <2>5. TypeOK'
    BY <2>1, <2>2, <2>4 DEF TypeOK, PCs
  <2>6. LoadedWasTrue'
    <3>1. ASSUME NEW q \in Requests, pc'[q] = "append", op'[q] # "Place"
          PROVE  /\ CanTransitionTo(loaded'[q], StatusAfter[EventOf[op'[q]]])
                 /\ \E j \in 1 .. Len(log'[order'[q]]) :
                       StatusAfter[log'[order'[q]][j]] = loaded'[q]
      <4>1. CASE q = r
        BY <2>1, <2>2, <2>4, <4>1 DEF TypeOK, StatusAt
      <4>2. CASE q # r
        BY <2>1, <2>2, <3>1, <4>2 DEF TypeOK, StatusAt, LoadedWasTrue
      <4> QED BY <4>1, <4>2
    <3> QED BY <3>1 DEF LoadedWasTrue, StatusAt, CanTransitionTo
  <2>7. PlaceComesFirst' /\ VersionsExist'
    BY <2>2 DEF PlaceComesFirst, VersionsExist, TypeOK
  <2>8. PlacedOnceAndFirst' /\ EveryEventWasLegal' /\ SnapshotIsTrue' /\ OverwrittenWereTrue'
    BY <2>2 DEF PlacedOnceAndFirst, EveryEventWasLegal, SnapshotIsTrue, StatusAt,
                OverwrittenWereTrue
  <2>9. SuccessIsRecorded'
    BY <2>2 DEF SuccessIsRecorded, TypeOK
  <2> QED BY <2>5, <2>6, <2>7, <2>8, <2>9
<1>3. ASSUME NEW r \in Requests, AppendEvent(r) PROVE IInv'
  <2> DEFINE o == order[r]
             e == EventOf[op[r]]
             n == Len(log[o])
  <2>1. /\ pc[r] = "append"
        /\ pc' = [pc EXCEPT ![r] = "snapshot"] \/ pc' = [pc EXCEPT ![r] = "failed"]
        /\ log' = [log EXCEPT ![o] = Append(log[o], e)]
        /\ version' = [version EXCEPT ![r] = n + 1]
        /\ UNCHANGED <<snapshot, overwritten, op, order, loaded>>
    BY <1>3 DEF AppendEvent, Step
  <2>2. o \in Orders /\ op[r] \in Ops /\ log[o] \in Seq(Events) /\ e \in Events
    BY EventTypes DEF TypeOK
  <2>3. /\ log'[o] \in Seq(Events)
        /\ n \in Nat
        /\ Len(log'[o]) = n + 1
        /\ \A i \in 1 .. n : log'[o][i] = log[o][i]
        /\ log'[o][n + 1] = e
        /\ \A i \in 1 .. Len(log'[o]) : i \in 1 .. n \/ i = n + 1
    <3>1. log'[o] = Append(log[o], e)
      BY <2>1, <2>2 DEF TypeOK
    <3> QED BY <2>2, <3>1, Appended
  <2>4. \A p \in Orders \ {o} : log'[p] = log[p]
    BY <2>1 DEF TypeOK
  <2>5. \A p \in Orders : /\ Len(log[p]) \in Nat
                          /\ Len(log'[p]) \in Nat
                          /\ Len(log[p]) <= Len(log'[p])
                          /\ \A i \in 1 .. Len(log[p]) : log'[p][i] = log[p][i]
    <3>1. \A p \in Orders : Len(log[p]) \in Nat
      BY DEF TypeOK
    <3>2. ASSUME NEW p \in Orders, p # o
          PROVE  log'[p] = log[p]
      BY <2>4, <3>2
    <3>3. ASSUME NEW p \in Orders
          PROVE  /\ Len(log'[p]) \in Nat
                 /\ Len(log[p]) <= Len(log'[p])
                 /\ \A i \in 1 .. Len(log[p]) : log'[p][i] = log[p][i]
      <4>1. CASE p = o
        BY <2>3, <4>1
      <4>2. CASE p # o
        BY <3>1, <3>2, <4>2
      <4> QED BY <4>1, <4>2
    <3> QED BY <3>1, <3>3
  <2>6. TypeOK'
    <3>1. log' \in [Orders -> Seq(Events)]
      BY <2>1, <2>3, <2>4 DEF TypeOK
    <3>2. pc' \in [Requests -> PCs]
      BY <2>1 DEF TypeOK, PCs
    <3>3. version' \in [Requests -> Nat]
      <4>1. n + 1 \in Nat
        BY <2>3
      <4> HIDE DEF n
      <4> QED BY <2>1, <4>1 DEF TypeOK
    <3> QED BY <2>1, <3>1, <3>2, <3>3 DEF TypeOK
  <2>7. LoadedWasTrue'
    <3>1. ASSUME NEW q \in Requests, pc'[q] = "append", op'[q] # "Place"
          PROVE  /\ CanTransitionTo(loaded'[q], StatusAfter[EventOf[op'[q]]])
                 /\ \E j \in 1 .. Len(log'[order'[q]]) :
                       StatusAfter[log'[order'[q]][j]] = loaded'[q]
      <4>1. q # r /\ pc[q] = "append" /\ op[q] # "Place"
        BY <2>1, <3>1 DEF TypeOK
      <4>2. PICK j \in 1 .. Len(log[order[q]]) :
              StatusAfter[log[order[q]][j]] = loaded[q]
        BY <4>1 DEF LoadedWasTrue, StatusAt
      <4>3. order[q] \in Orders
        BY DEF TypeOK
      <4>4. /\ j \in 1 .. Len(log'[order[q]])
            /\ log'[order[q]][j] = log[order[q]][j]
        BY <2>5, <4>2, <4>3
      <4> QED BY <2>1, <4>1, <4>2, <4>4 DEF LoadedWasTrue
    <3> QED BY <3>1 DEF LoadedWasTrue, StatusAt, CanTransitionTo
  <2>8. PlaceComesFirst'
    <3>1. ASSUME NEW q \in Requests, op[q] = "Place", pc'[q] \in {"new", "append"}
          PROVE  log'[order[q]] = <<>>
      <4>1. q # r /\ pc[q] \in {"new", "append"}
        BY <2>1, <3>1 DEF TypeOK
      <4>2. log[order[q]] = <<>>
        BY <3>1, <4>1 DEF PlaceComesFirst
      <4>3. order[q] # o
        <5>1. CASE op[r] = "Place"
          BY <3>1, <4>1, <5>1 DEF PlaceComesFirst
        <5>2. CASE op[r] # "Place"
          BY <2>1, <2>3, <4>2, <5>2 DEF LoadedWasTrue
        <5> QED BY <5>1, <5>2
      <4> QED BY <2>4, <4>2, <4>3 DEF TypeOK
    <3> QED BY <2>1, <3>1 DEF PlaceComesFirst
  <2>9. VersionsExist'
    <3>1. ASSUME NEW q \in Requests PROVE version'[q] <= Len(log'[order[q]])
      <4>1. CASE q = r
        BY <2>1, <2>3, <4>1 DEF TypeOK
      <4>2. CASE q # r
        BY <2>1, <2>5, <4>2 DEF TypeOK, VersionsExist
      <4> QED BY <4>1, <4>2
    <3> QED BY <2>1, <3>1 DEF VersionsExist
  <2>10. op[r] = "Place" <=> n = 0
    <3>1. CASE op[r] = "Place"
      BY <2>1, <3>1 DEF PlaceComesFirst
    <3>2. CASE op[r] # "Place"
      BY <2>1, <2>3, <3>2 DEF LoadedWasTrue
    <3> QED BY <3>1, <3>2
  <2>11. PlacedOnceAndFirst'
    <3>1. ASSUME NEW p \in Orders, NEW i \in 1 .. Len(log'[p])
          PROVE  log'[p][i] = "OrderPlaced" <=> i = 1
      <4>1. CASE p = o /\ i = n + 1
        BY <2>2, <2>3, <2>10, <4>1, EventTypes
      <4>2. CASE ~(p = o /\ i = n + 1)
        <5>1. i \in 1 .. Len(log[p]) /\ log'[p][i] = log[p][i]
          BY <2>3, <2>4, <3>1, <4>2
        <5> QED BY <5>1 DEF PlacedOnceAndFirst
      <4> QED BY <4>1, <4>2
    <3> QED BY <3>1 DEF PlacedOnceAndFirst
  <2>12. EveryEventWasLegal'
    <3>1. ASSUME NEW p \in Orders, NEW i \in 2 .. Len(log'[p])
          PROVE  \E j \in 1 .. i - 1 :
                    CanTransitionTo(StatusAfter[log'[p][j]], StatusAfter[log'[p][i]])
      <4>1. CASE p = o /\ i = n + 1
        <5>1. op[r] # "Place"
          BY <2>3, <2>10, <4>1
        <5>2. PICK j \in 1 .. n : StatusAfter[log[o][j]] = loaded[r]
          BY <2>1, <5>1 DEF LoadedWasTrue, StatusAt
        <5>3. CanTransitionTo(loaded[r], StatusAfter[e])
          BY <2>1, <5>1 DEF LoadedWasTrue
        <5>4. /\ j \in 1 .. i - 1
              /\ log'[p][j] = log[o][j]
              /\ log'[p][i] = e
          BY <2>3, <4>1
        <5> QED BY <5>2, <5>3, <5>4
      <4>2. CASE ~(p = o /\ i = n + 1)
        <5>1. i \in 2 .. Len(log[p]) /\ log'[p][i] = log[p][i]
          BY <2>3, <2>4, <3>1, <4>2
        <5>2. PICK j \in 1 .. i - 1 :
                CanTransitionTo(StatusAfter[log[p][j]], StatusAfter[log[p][i]])
          BY <5>1 DEF EveryEventWasLegal, StatusAt
        <5>3. log'[p][j] = log[p][j]
          BY <2>5, <5>1, <5>2
        <5> QED BY <5>1, <5>2, <5>3
      <4> QED BY <4>1, <4>2
    <3> QED BY <3>1 DEF EveryEventWasLegal, StatusAt, CanTransitionTo
  <2>13. SnapshotIsTrue'
    <3>1. ASSUME NEW p \in Orders, snapshot[p].version > 0
          PROVE  /\ snapshot[p].version <= Len(log'[p])
                 /\ snapshot[p].status = StatusAfter[log'[p][snapshot[p].version]]
      <4>1. snapshot[p].version \in 1 .. Len(log[p])
        BY <2>5, <3>1 DEF SnapshotIsTrue, TypeOK
      <4>2. snapshot[p].status = StatusAfter[log[p][snapshot[p].version]]
        BY <3>1 DEF SnapshotIsTrue, StatusAt
      <4> QED BY <2>5, <4>1, <4>2
    <3> QED BY <2>1, <3>1 DEF SnapshotIsTrue, StatusAt
  <2>14. SuccessIsRecorded'
    <3>1. ASSUME NEW q \in Requests, pc'[q] \in {"snapshot", "ok"}
          PROVE  /\ version'[q] \in 1 .. Len(log'[order[q]])
                 /\ log'[order[q]][version'[q]] = EventOf[op[q]]
                 /\ \A p \in Requests \ {q} :
                       order[p] = order[q] => version'[p] # version'[q]
      <4>1. \A p \in Requests : /\ order[p] \in Orders
                                /\ version[p] \in Nat
                                /\ version[p] <= Len(log[order[p]])
                                /\ version'[p] = IF p = r THEN n + 1 ELSE version[p]
        BY <2>1 DEF TypeOK, VersionsExist
      <4>2. CASE q = r
        BY <2>3, <4>1, <4>2
      <4>3. CASE q # r
        <5>1. pc[q] \in {"snapshot", "ok"}
          BY <2>1, <3>1, <4>3 DEF TypeOK
        <5>2. /\ version[q] \in 1 .. Len(log[order[q]])
              /\ log[order[q]][version[q]] = EventOf[op[q]]
              /\ \A p \in Requests \ {q} : order[p] = order[q] => version[p] # version[q]
          BY <5>1 DEF SuccessIsRecorded
        <5>3. /\ version[q] \in 1 .. Len(log'[order[q]])
              /\ log'[order[q]][version[q]] = log[order[q]][version[q]]
          BY <2>5, <4>1, <5>2
        <5>4. order[q] = o => version[q] # n + 1
          BY <2>3, <4>1
        <5> QED BY <4>1, <4>3, <5>2, <5>3, <5>4
      <4> QED BY <4>2, <4>3
    <3> QED BY <2>1, <3>1 DEF SuccessIsRecorded
  <2>15. OverwrittenWereTrue'
    <3>1. ASSUME NEW p \in Orders, NEW s \in overwritten[p], s.version > 0
          PROVE  /\ s.version <= Len(log'[p])
                 /\ s.status = StatusAfter[log'[p][s.version]]
      <4>1. s.version \in 1 .. Len(log[p])
        BY <2>5, <3>1 DEF OverwrittenWereTrue, TypeOK
      <4>2. s.status = StatusAfter[log[p][s.version]]
        BY <3>1 DEF OverwrittenWereTrue, StatusAt
      <4> QED BY <2>5, <4>1, <4>2
    <3> QED BY <2>1, <3>1 DEF OverwrittenWereTrue, StatusAt
  <2> QED BY <2>6, <2>7, <2>8, <2>9, <2>11, <2>12, <2>13, <2>14, <2>15
<1>4. ASSUME NEW r \in Requests, MaybeCreateSnapshot(r) PROVE IInv'
  <2> DEFINE o == order[r]
             new == [version |-> version[r], status |-> StatusAfter[EventOf[op[r]]]]
  <2>1. /\ pc[r] = "snapshot"
        /\ pc' = [pc EXCEPT ![r] = "ok"]
        /\ UNCHANGED <<log, op, order, loaded, version>>
    BY <1>4 DEF MaybeCreateSnapshot, Step
  <2>2. \/ /\ snapshot' = [snapshot EXCEPT ![o] = new]
           /\ overwritten' = [overwritten EXCEPT ![o] = @ \cup {snapshot[o]}]
        \/ UNCHANGED <<snapshot, overwritten>>
    BY <1>4 DEF MaybeCreateSnapshot
  <2>3. /\ o \in Orders
        /\ new \in [version : Nat, status : Statuses]
    BY EventTypes DEF TypeOK
  <2>4. TypeOK'
    <3> HIDE DEF new
    <3>1. snapshot' \in [Orders -> [version : Nat, status : Statuses]]
      BY <2>2, <2>3 DEF TypeOK
    <3>2. overwritten' \in [Orders -> SUBSET [version : Nat, status : Statuses]]
      <4>1. snapshot[o] \in [version : Nat, status : Statuses]
        BY <2>3 DEF TypeOK
      <4>2. overwritten \in [Orders -> SUBSET [version : Nat, status : Statuses]]
        BY DEF TypeOK
      <4> QED BY <2>2, <2>3, <4>1, <4>2, OneMore
    <3> QED BY <2>1, <3>1, <3>2 DEF TypeOK, PCs
  <2>5. LoadedWasTrue' /\ PlaceComesFirst' /\ VersionsExist'
    BY <2>1 DEF LoadedWasTrue, PlaceComesFirst, VersionsExist, TypeOK, StatusAt
  <2>6. PlacedOnceAndFirst' /\ EveryEventWasLegal'
    BY <2>1 DEF PlacedOnceAndFirst, EveryEventWasLegal, StatusAt
  <2>7. SnapshotIsTrue'
    <3>1. /\ version[r] \in 1 .. Len(log[o])
          /\ log[o][version[r]] = EventOf[op[r]]
      BY <2>1 DEF SuccessIsRecorded
    <3>2. /\ new.version <= Len(log[o])
          /\ new.status = StatusAfter[log[o][new.version]]
      BY <2>3, <3>1 DEF TypeOK
    <3>3. \A p \in Orders : snapshot'[p] = snapshot[p] \/ (p = o /\ snapshot'[p] = new)
      BY <2>2, <2>3 DEF TypeOK
    <3> QED BY <2>1, <3>2, <3>3 DEF SnapshotIsTrue, StatusAt
  <2>8. SuccessIsRecorded'
    BY <2>1 DEF SuccessIsRecorded, TypeOK
  <2>9. OverwrittenWereTrue'
    <3>1. \A p \in Orders : \A s \in overwritten'[p] : s \in overwritten[p] \/ s = snapshot[p]
      <4> HIDE DEF new
      <4>1. snapshot[o] \in [version : Nat, status : Statuses]
        BY <2>3 DEF TypeOK
      <4>2. overwritten \in [Orders -> SUBSET [version : Nat, status : Statuses]]
        BY DEF TypeOK
      <4> QED BY <2>2, <2>3, <4>1, <4>2, OneMore
    <3> QED BY <2>1, <3>1 DEF OverwrittenWereTrue, SnapshotIsTrue, StatusAt
  <2> QED BY <2>4, <2>5, <2>6, <2>7, <2>8, <2>9
<1>5. ASSUME UNCHANGED vars PROVE IInv'
  <2> USE <1>5 DEF vars
  <2>1. TypeOK' /\ LoadedWasTrue' /\ PlaceComesFirst' /\ VersionsExist'
    BY DEF TypeOK, LoadedWasTrue, PlaceComesFirst, VersionsExist, StatusAt
  <2>2. PlacedOnceAndFirst' /\ EveryEventWasLegal' /\ SnapshotIsTrue'
    BY DEF PlacedOnceAndFirst, EveryEventWasLegal, SnapshotIsTrue, StatusAt
  <2>3. SuccessIsRecorded' /\ OverwrittenWereTrue'
    BY DEF SuccessIsRecorded, OverwrittenWereTrue, StatusAt
  <2> QED BY <2>1, <2>2, <2>3
<1> QED BY <1>1, <1>2, <1>3, <1>4, <1>5 DEF Next

(* The inductive invariant holds in every reachable state.                 *)
LEMMA Invariance == Spec => []IInv
BY InitIInv, NextIInv, PTL DEF Spec

-----------------------------------------------------------------------------
(* The log, the snapshots and the requests keep their types.               *)
THEOREM TypeCorrect == Spec => []TypeOK
<1>1. IInv => TypeOK
  BY DEF IInv
<1> QED BY <1>1, Invariance, PTL

(* However requests overlap, the first event of an order, and no other, is *)
(* OrderPlaced.                                                            *)
THEOREM PlacedFirst == Spec => []PlacedOnceAndFirst
<1>1. IInv => PlacedOnceAndFirst
  BY DEF IInv
<1> QED BY <1>1, Invariance, PTL

(* However requests overlap and queries lag, every event of an order was a *)
(* legal transition from a status the order once had.                      *)
THEOREM EventsWereLegal == Spec => []EveryEventWasLegal
<1>1. IInv => EveryEventWasLegal
  BY DEF IInv
<1> QED BY <1>1, Invariance, PTL

(* An unpaid order is never shipped: the only way to shipped is from paid. *)
THEOREM ShippedOrdersWerePaid == Spec => []ShippedWasPaid
<1>1. IInv => ShippedWasPaid
  <2> SUFFICES ASSUME IInv, NEW o \in Orders, NEW i \in 1 .. Len(log[o]),
                      log[o][i] = "OrderShipped"
               PROVE  \E j \in 1 .. i - 1 : log[o][j] = "OrderPaid"
    BY DEF ShippedWasPaid
  <2>1. Len(log[o]) \in Nat /\ \A j \in 1 .. Len(log[o]) : log[o][j] \in Events
    BY DEF IInv, TypeOK
  <2>2. i \in 2 .. Len(log[o])
    BY <2>1 DEF IInv, PlacedOnceAndFirst
  <2>3. PICK j \in 1 .. i - 1 : CanTransitionTo(StatusAt(o, j), StatusAt(o, i))
    BY <2>2 DEF IInv, EveryEventWasLegal
  <2>4. log[o][j] \in Events
    BY <2>1, <2>2, <2>3
  <2>5. StatusAt(o, i) = "shipped" /\ StatusAt(o, j) \in Statuses
    BY <2>4, EventTypes DEF StatusAt, StatusAfter
  <2>6. StatusAt(o, j) = "paid"
    BY <2>3, <2>5, EventTypes
  <2> QED BY <2>4, <2>6, EventTypes DEF StatusAt
<1> QED BY <1>1, Invariance, PTL

(* Snapshots of orders are true even when other requests append between    *)
(* the load and the save, because an event overwrites the whole status.    *)
THEOREM OrderSnapshotsAreTrue == Spec => []SnapshotIsTrue
<1>1. IInv => SnapshotIsTrue
  BY DEF IInv
<1> QED BY <1>1, Invariance, PTL

(* A call that succeeds has recorded an event of its own.                  *)
THEOREM SuccessesAreRecorded == Spec => []SuccessIsRecorded
<1>1. IInv => SuccessIsRecorded
  BY DEF IInv
<1> QED BY <1>1, Invariance, PTL

-----------------------------------------------------------------------------
(* The order lifecycle, when requests of an order do not overlap and       *)
(* queries do not lag.                                                     *)

(* At most one request of an order is between its load and its end.        *)
OneAtATime ==
    \A q, r \in Requests :
        /\ q # r
        /\ pc[q] \in {"append", "snapshot"}
        /\ pc[r] \in {"append", "snapshot"}
        /\ order[r] \in Calm
        => order[q] # order[r]

(* What a request loaded is still the status of its order.                 *)
LoadedIsTrue ==
    \A r \in Requests :
        pc[r] = "append" /\ op[r] # "Place" /\ order[r] \in Calm =>
            Status(order[r]) = loaded[r]

SerialInv == OneAtATime /\ LoadedIsTrue

LEMMA InitSerial == Init => SerialInv
BY DEF Init, SerialInv, OneAtATime, LoadedIsTrue

(* A request for a calm order loads its present status.                    *)
LEMMA LoadSeesThePresent ==
    ASSUME IInv, NEW o \in Calm, NEW s \in SeenSnapshots(o),
           NEW k \in SeenLengths(o), s.version > 0 \/ k > 0
    PROVE  LoadedStatus(o, s, k) = Status(o)
<1>1. Len(log[o]) \in Nat /\ k = Len(log[o]) /\ s = snapshot[o]
  BY DEF Calm, IInv, TypeOK, SeenLengths, SeenSnapshots
<1>2. s.version \in Nat
  BY <1>1 DEF Calm, IInv, TypeOK
<1>3. log[o] # <<>> /\ Status(o) = StatusAt(o, Len(log[o]))
  BY <1>1, <1>2 DEF Calm, IInv, SnapshotIsTrue, Status
<1>4. ~(k > s.version) => s.version = k /\ s.status = StatusAt(o, k)
  BY <1>1, <1>2 DEF Calm, IInv, SnapshotIsTrue
<1> QED BY <1>1, <1>3, <1>4 DEF LoadedStatus

LEMMA NextSerial == IInv /\ SerialInv /\ [Next]_vars => SerialInv'
<1> SUFFICES ASSUME IInv, SerialInv, [Next]_vars PROVE SerialInv'
  OBVIOUS
<1> USE DEF SerialInv
<1>1. ASSUME NEW r \in Requests, Place(r) \/ Load(r) PROVE SerialInv'
  <2>1. /\ pc[r] = "new" /\ (order[r] \in Calm => ~Busy(order[r]))
        /\ pc' = [pc EXCEPT ![r] = "append"] \/ pc' = [pc EXCEPT ![r] = "failed"]
        /\ UNCHANGED <<log, op, order>>
    BY <1>1 DEF Place, Load, MayStart, Step, Calm
  <2>2. OneAtATime'
    BY <2>1 DEF OneAtATime, Busy, IInv, TypeOK
  <2>3. \A q \in Requests \ {r} : pc'[q] = pc[q] /\ loaded'[q] = loaded[q]
    BY <1>1, <2>1 DEF Place, Load, IInv, TypeOK
  <2>4. op[r] # "Place" /\ order[r] \in Calm => Status(order[r]) = loaded'[r]
    <3>1. CASE Place(r)
      BY <3>1 DEF Place
    <3>2. CASE Load(r)
      <4>1. PICK s \in SeenSnapshots(order[r]), k \in SeenLengths(order[r]) :
              /\ s.version > 0 \/ k > 0
              /\ loaded' = [loaded EXCEPT ![r] = LoadedStatus(order[r], s, k)]
        BY <3>2 DEF Load
      <4>2. order[r] \in Calm => LoadedStatus(order[r], s, k) = Status(order[r])
        BY <4>1, LoadSeesThePresent DEF IInv
      <4> QED BY <4>1, <4>2 DEF IInv, TypeOK
    <3> QED BY <1>1, <3>1, <3>2
  <2>5. LoadedIsTrue'
    BY <2>1, <2>3, <2>4 DEF LoadedIsTrue, Status, StatusAt
  <2> QED BY <2>2, <2>5
<1>2. ASSUME NEW r \in Requests,
             Reject(r) \/ LoadFails(r) \/ AppendFails(r) \/ MaybeCreateSnapshot(r)
      PROVE  SerialInv'
  <2>1. /\ pc' = [pc EXCEPT ![r] = "failed"] \/ pc' = [pc EXCEPT ![r] = "ok"]
        /\ UNCHANGED <<log, op, order, loaded>>
    BY <1>2 DEF Reject, LoadFails, AppendFails, MaybeCreateSnapshot, Step
  <2> QED BY <2>1 DEF OneAtATime, LoadedIsTrue, Status, StatusAt, IInv, TypeOK
<1>3. ASSUME NEW r \in Requests, AppendEvent(r) PROVE SerialInv'
  <2>1. /\ pc[r] = "append"
        /\ pc' = [pc EXCEPT ![r] = "snapshot"] \/ pc' = [pc EXCEPT ![r] = "failed"]
        /\ \A o \in Orders \ {order[r]} : log'[o] = log[o]
        /\ UNCHANGED <<op, order, loaded>>
    BY <1>3 DEF AppendEvent, Step, IInv, TypeOK
  <2>2. OneAtATime'
    BY <2>1 DEF OneAtATime, IInv, TypeOK
  <2>3. ASSUME NEW q \in Requests, pc'[q] = "append", order[q] \in Calm
        PROVE  /\ log'[order[q]] = log[order[q]]
               /\ pc[q] = "append"
    <3>1. q # r /\ pc[q] = "append"
      BY <2>1, <2>3 DEF IInv, TypeOK
    <3>2. order[q] # order[r]
      BY <1>3, <2>1, <2>3, <3>1 DEF OneAtATime
    <3> QED BY <2>1, <3>1, <3>2 DEF IInv, TypeOK
  <2>4. LoadedIsTrue'
    BY <2>1, <2>3 DEF LoadedIsTrue, Status, StatusAt
  <2> QED BY <2>2, <2>4
<1>4. ASSUME UNCHANGED vars PROVE SerialInv'
  BY <1>4 DEF vars, OneAtATime, LoadedIsTrue, Status, StatusAt
<1> QED BY <1>1, <1>2, <1>3, <1>4 DEF Next

LEMMA InitLifecycle == Init => Lifecycle!Init
BY DEF Init, Lifecycle!Init, Status, Calm

LEMMA NextLifecycle ==
    IInv /\ SerialInv /\ [Next]_vars
        => [Lifecycle!Next]_[o \in Calm |-> Status(o)]
<1> DEFINE status == [o \in Calm |-> Status(o)]
<1> SUFFICES ASSUME IInv, SerialInv, [Next]_vars
             PROVE  [Lifecycle!Next]_status
  OBVIOUS
<1>1. ASSUME NEW r \in Requests, AppendEvent(r)
      PROVE  Lifecycle!Next \/ UNCHANGED status
  <2>1. PICK o \in Orders, e \in Events :
          /\ o = order[r] /\ e = EventOf[op[r]] /\ op[r] \in Ops
          /\ pc[r] = "append" /\ log[o] \in Seq(Events)
          /\ log' = [log EXCEPT ![o] = Append(log[o], e)]
    BY <1>1, EventTypes DEF AppendEvent, Step, IInv, TypeOK
  <2>2. /\ log'[o] = Append(log[o], e)
        /\ \A p \in Orders \ {o} : log'[p] = log[p]
    BY <2>1 DEF IInv, TypeOK
  <2>3. Status(o)' = StatusAfter[e]
    <3>1. /\ Len(log[o]) \in Nat
          /\ Len(log'[o]) = Len(log[o]) + 1
          /\ log'[o][Len(log[o]) + 1] = e
      BY <2>1, <2>2, Appended
    <3>2. log'[o] # <<>> /\ StatusAfter[log'[o][Len(log'[o])]] = StatusAfter[e]
      BY <3>1
    <3> QED BY <3>2 DEF Status, StatusAt
  <2>4. \A p \in Orders \ {o} : Status(p)' = Status(p)
    BY <2>2 DEF Status, StatusAt
  <2>5. CASE o \notin Calm
    <3>1. \A p \in Calm : p \in Orders \ {o}
      BY <2>5 DEF Calm
    <3>2. UNCHANGED status
      BY <2>4, <3>1
    <3> QED BY <3>2
  <2>6. CASE o \in Calm
    <3>1. \A p \in Calm \ {o} : Status(p)' = Status(p)
      BY <2>4 DEF Calm
    <3>2. status' = [status EXCEPT ![o] = StatusAfter[e]]
      BY <2>3, <2>6, <3>1
    <3>3. StatusAfter[e] \in Lifecycle!Allowed[Status(o)]
      <4>1. CASE op[r] = "Place"
        <5>1. Status(o) = "none"
          BY <2>1, <4>1 DEF IInv, PlaceComesFirst, Status
        <5> QED BY <2>1, <4>1, <5>1 DEF Lifecycle!Allowed, EventOf, StatusAfter
      <4>2. CASE op[r] # "Place"
        <5>1. /\ Status(o) = loaded[r]
              /\ CanTransitionTo(loaded[r], StatusAfter[e])
              /\ loaded[r] \in Statuses
          BY <2>1, <2>6, <4>2 DEF IInv, SerialInv, LoadedWasTrue, LoadedIsTrue, TypeOK
        <5> QED BY <5>1 DEF CanTransitionTo, validTransitions, Statuses,
                            Lifecycle!Allowed
      <4> QED BY <4>1, <4>2
    <3>4. status[o] = Status(o)
      BY <2>6
    <3> QED BY <2>6, <3>2, <3>3, <3>4 DEF Lifecycle!Next
  <2> QED BY <2>1, <2>5, <2>6
<1>2. ASSUME UNCHANGED log PROVE UNCHANGED status
  BY <1>2 DEF Status, StatusAt
<1> QED BY <1>1, <1>2 DEF Next, vars, Place, Load, Reject, LoadFails, AppendFails,
                          MaybeCreateSnapshot

(* Orders whose requests come one at a time and see what was appended      *)
(* follow the order lifecycle, however contended the others are.  Those do *)
(* not: a contended order can be cancelled and then paid.                  *)
THEOREM CalmOrdersImplementLifecycle == Spec => ImplementsLifecycle
<1>1. Spec => []SerialInv
  BY InitSerial, NextSerial, Invariance, PTL DEF Spec
<1> QED BY <1>1, InitLifecycle, NextLifecycle, Invariance, PTL
        DEF Spec, ImplementsLifecycle, Lifecycle!Spec
=============================================================================
