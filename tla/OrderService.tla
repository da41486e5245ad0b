---------------------------- MODULE OrderService ----------------------------
(***************************************************************************)
(* The order aggregate and its service (internal/domain/order/aggregate.go *)
(* with internal/domain/aggregate/base.go), on top of the append-only log  *)
(* of EventLog.  Place, Pay, Ship and Cancel each load the order, check    *)
(* the transition, append one event and perhaps save a snapshot; other     *)
(* requests run between these steps.                                       *)
(*                                                                         *)
(* Every event of an order overwrites the status and nothing else that a   *)
(* decision depends on, so an order is its status.  Items, totals and      *)
(* times are left out.                                                     *)
(***************************************************************************)
EXTENDS Naturals, Sequences

CONSTANTS
    Orders,             \* order ids (uuids)
    Requests,           \* calls of the service, each made at most once
    SnapshotThreshold,  \* store.SnapshotThreshold
    Contended           \* the orders whose requests may overlap and whose
                        \* queries may miss recent puts, or fail

ASSUME ThresholdAssumption == SnapshotThreshold \in Nat \ {0}
ASSUME ContendedAssumption == Contended \subseteq Orders

Calm == Orders \ Contended

VARIABLES
    log,       \* log[o]: the types of the events of order o
    snapshot,  \* snapshot[o]: the item of the snapshots table, version 0: none
    overwritten, \* overwritten[o]: the items that were there before
    pc,        \* pc[r]: where request r is
    op,        \* op[r]: the method called
    order,     \* order[r]: its orderID
    loaded,    \* loaded[r]: the status of the order as loaded by the request
    version    \* version[r]: the version of the stored event

vars == <<log, snapshot, overwritten, pc, op, order, loaded, version>>

PCs == {"new", "append", "snapshot", "ok", "failed"}

EventOf == [Place |-> "OrderPlaced", Pay |-> "OrderPaid",
            Ship |-> "OrderShipped", Cancel |-> "OrderCancelled"]

Ops == DOMAIN EventOf

(* ApplyEvent: the status after an event of this type.                     *)
StatusAfter == [OrderPlaced |-> "pending", OrderPaid |-> "paid",
                OrderShipped |-> "shipped", OrderCancelled |-> "cancelled"]

Events == DOMAIN StatusAfter
Statuses == {"pending", "paid", "shipped", "cancelled"}

(* Mutant of validTransitions: shipped orders can be cancelled.            *)
CancelShippedTransitions ==
    [pending   |-> {"paid", "cancelled"},
     paid      |-> {"shipped", "cancelled"},
     shipped   |-> {"cancelled"},
     cancelled |-> {}]

validTransitions ==
    [pending   |-> {"paid", "cancelled"},
     paid      |-> {"shipped", "cancelled"},
     shipped   |-> {},
     cancelled |-> {}]

CanTransitionTo(status, target) == target \in validTransitions[status]

NoSnapshot == [version |-> 0, status |-> "pending"]

(* rebuildStatus: the status after the first k events of order o.          *)
StatusAt(o, k) == StatusAfter[log[o][k]]

Init ==
    /\ log = [o \in Orders |-> <<>>]
    /\ snapshot = [o \in Orders |-> NoSnapshot]
    /\ overwritten = [o \in Orders |-> {}]
    /\ pc = [r \in Requests |-> "new"]
    /\ op \in [Requests -> Ops]
    /\ order \in [Requests -> Orders]
    /\ \A q, r \in Requests :  \* a new uuid for every Place
          q # r /\ op[q] = "Place" /\ op[r] = "Place" => order[q] # order[r]
    /\ loaded = [r \in Requests |-> "pending"]
    /\ version = [r \in Requests |-> 0]

Step(r, here, there) ==
    /\ pc[r] = here
    /\ pc' = [pc EXCEPT ![r] = there]

Busy(o) == \E q \in Requests : pc[q] \in {"append", "snapshot"} /\ order[q] = o

MayStart(r) == order[r] \in Contended \/ ~Busy(order[r])

(***************************************************************************)
(* Place: nothing to load, the order is new.  Without items it fails.      *)
(***************************************************************************)
Place(r) ==
    /\ op[r] = "Place"
    /\ MayStart(r)
    /\ \/ Step(r, "new", "append")
       \/ Step(r, "new", "failed")
    /\ UNCHANGED <<log, snapshot, overwritten, op, order, loaded, version>>

(***************************************************************************)
(* LoadAggregate: the snapshot, if one is seen, and the events after it as *)
(* far as the query saw them: all events up to some k.  A query that fails *)
(* yields none.  The reads are not consistent ones, so that the snapshot   *)
(* may be one that has been overwritten.                                   *)
(***************************************************************************)
SeenSnapshots(o) ==
    IF o \in Contended THEN {snapshot[o], NoSnapshot} \cup overwritten[o]
                       ELSE {snapshot[o]}

SeenLengths(o) == IF o \in Contended THEN 0 .. Len(log[o]) ELSE {Len(log[o])}

LoadedStatus(o, s, k) == IF k > s.version THEN StatusAt(o, k) ELSE s.status

(* Mutants of Load: the check of the transition is missing; an order       *)
(* without events counts as pending.                                       *)
LoadUnchecked(r) ==
    /\ op[r] # "Place"
    /\ MayStart(r)
    /\ Step(r, "new", "append")
    /\ \E s \in SeenSnapshots(order[r]), k \in SeenLengths(order[r]) :
          /\ s.version > 0 \/ k > 0
          /\ loaded' = [loaded EXCEPT ![r] = LoadedStatus(order[r], s, k)]
    /\ UNCHANGED <<log, snapshot, overwritten, op, order, version>>
LoadNotFound(r) ==
    /\ op[r] # "Place"
    /\ MayStart(r)
    /\ Step(r, "new", "append")
    /\ \E s \in SeenSnapshots(order[r]), k \in SeenLengths(order[r]) :
          /\ CanTransitionTo(LoadedStatus(order[r], s, k),
                             StatusAfter[EventOf[op[r]]])
          /\ loaded' = [loaded EXCEPT ![r] = LoadedStatus(order[r], s, k)]
    /\ UNCHANGED <<log, snapshot, overwritten, op, order, version>>

(* The order is loaded and may make the transition.                        *)
Load(r) ==
    /\ op[r] # "Place"
    /\ MayStart(r)
    /\ Step(r, "new", "append")
    /\ \E s \in SeenSnapshots(order[r]), k \in SeenLengths(order[r]) :
          /\ s.version > 0 \/ k > 0
          /\ CanTransitionTo(LoadedStatus(order[r], s, k),
                             StatusAfter[EventOf[op[r]]])
          /\ loaded' = [loaded EXCEPT ![r] = LoadedStatus(order[r], s, k)]
    /\ UNCHANGED <<log, snapshot, overwritten, op, order, version>>

(* ErrOrderNotFound, or the transitionError.                               *)
Reject(r) ==
    /\ op[r] # "Place"
    /\ MayStart(r)
    /\ Step(r, "new", "failed")
    /\ \E s \in SeenSnapshots(order[r]), k \in SeenLengths(order[r]) :
          \/ s.version = 0 /\ k = 0
          \/ ~CanTransitionTo(LoadedStatus(order[r], s, k),
                              StatusAfter[EventOf[op[r]]])
    /\ UNCHANGED <<log, snapshot, overwritten, op, order, loaded, version>>

(* GetSnapshot returns an error: so does the operation.                    *)
LoadFails(r) ==
    /\ op[r] # "Place"
    /\ MayStart(r)
    /\ Step(r, "new", "failed")
    /\ UNCHANGED <<log, snapshot, overwritten, op, order, loaded, version>>

(***************************************************************************)
(* Append records the event; an error may be reported all the same         *)
(* (EventStore!ReplyLost).                                                 *)
(***************************************************************************)
AppendEvent(r) ==
    /\ \/ Step(r, "append", "snapshot")
       \/ Step(r, "append", "failed")
    /\ log' = [log EXCEPT ![order[r]] = Append(@, EventOf[op[r]])]
    /\ version' = [version EXCEPT ![r] = Len(log[order[r]]) + 1]
    /\ UNCHANGED <<snapshot, overwritten, op, order, loaded>>

(* Mutant of AppendFails: the error of Append is not looked at.            *)
AppendErrorIgnored(r) ==
    /\ Step(r, "append", "snapshot")
    /\ UNCHANGED <<log, snapshot, overwritten, op, order, loaded, version>>

(* A version conflict or a failure of the store.                           *)
AppendFails(r) ==
    /\ Step(r, "append", "failed")
    /\ UNCHANGED <<log, snapshot, overwritten, op, order, loaded, version>>

(* Mutant of MaybeCreateSnapshot: the order is not updated before it is    *)
(* saved.                                                                  *)
SnapshotBeforeUpdate(r) ==
    /\ Step(r, "snapshot", "ok")
    /\ \/ /\ version[r] % SnapshotThreshold = 0
          /\ snapshot' = [snapshot EXCEPT ![order[r]] =
                [version |-> version[r], status |-> loaded[r]]]
          /\ overwritten' = [overwritten EXCEPT ![order[r]] = @ \cup {snapshot[order[r]]}]
       \/ UNCHANGED <<snapshot, overwritten>>
    /\ UNCHANGED <<log, op, order, loaded, version>>

(***************************************************************************)
(* MaybeCreateSnapshot, with the status the request has just set.  That a  *)
(* snapshot could not be saved is only logged.                             *)
(***************************************************************************)
MaybeCreateSnapshot(r) ==
    /\ Step(r, "snapshot", "ok")
    /\ \/ /\ version[r] % SnapshotThreshold = 0
          /\ snapshot' = [snapshot EXCEPT ![order[r]] =
                [version |-> version[r], status |-> StatusAfter[EventOf[op[r]]]]]
          /\ overwritten' = [overwritten EXCEPT ![order[r]] = @ \cup {snapshot[order[r]]}]
       \/ UNCHANGED <<snapshot, overwritten>>
    /\ UNCHANGED <<log, op, order, loaded, version>>

Next ==
    \E r \in Requests :
        \/ Place(r) \/ Load(r) \/ Reject(r) \/ LoadFails(r) \/ AppendEvent(r)
        \/ AppendFails(r) \/ MaybeCreateSnapshot(r)

Spec == Init /\ [][Next]_vars

-----------------------------------------------------------------------------
(***************************************************************************)
(* Properties.                                                             *)
(***************************************************************************)

(* The type of the log, the snapshots table and the requests' locals.      *)
TypeOK ==
    /\ log \in [Orders -> Seq(Events)]
    /\ snapshot \in [Orders -> [version : Nat, status : Statuses]]
    /\ overwritten \in [Orders -> SUBSET [version : Nat, status : Statuses]]
    /\ pc \in [Requests -> PCs]
    /\ op \in [Requests -> Ops]
    /\ order \in [Requests -> Orders]
    /\ loaded \in [Requests -> Statuses]
    /\ version \in [Requests -> Nat]

(* An order begins with OrderPlaced and is never placed again, although    *)
(* Place does not look whether the order exists.                           *)
PlacedOnceAndFirst ==
    \A o \in Orders : \A i \in 1 .. Len(log[o]) :
        log[o][i] = "OrderPlaced" <=> i = 1

(* Whatever requests overlap and whatever old state they decided on, every *)
(* event was legal after some earlier event of its order.                  *)
EveryEventWasLegal ==
    \A o \in Orders : \A i \in 2 .. Len(log[o]) :
        \E j \in 1 .. i - 1 : CanTransitionTo(StatusAt(o, j), StatusAt(o, i))

(* Even under races no order is shipped that has not been paid.            *)
ShippedWasPaid ==
    \A o \in Orders : \A i \in 1 .. Len(log[o]) :
        log[o][i] = "OrderShipped" => \E j \in 1 .. i - 1 : log[o][j] = "OrderPaid"

(* A snapshot shows the order as it was at the version the snapshot names, *)
(* even if other events were appended since its author loaded the order.   *)
SnapshotIsTrue ==
    \A o \in Orders : snapshot[o].version > 0 =>
        /\ snapshot[o].version <= Len(log[o])
        /\ snapshot[o].status = StatusAt(o, snapshot[o].version)

(* A call that reported success has its own event in the log, one that no  *)
(* other call has taken for its own.                                       *)
SuccessIsRecorded ==
    \A r \in Requests : pc[r] \in {"snapshot", "ok"} =>
        /\ version[r] \in 1 .. Len(log[order[r]])
        /\ log[order[r]][version[r]] = EventOf[op[r]]
        /\ \A q \in Requests \ {r} :
              order[q] = order[r] => version[q] # version[r]

(* The status the log of an order amounts to.                              *)
Status(o) == IF log[o] = <<>> THEN "none" ELSE StatusAt(o, Len(log[o]))

Lifecycle == INSTANCE OrderLifecycle WITH
    Orders <- Calm, status <- [o \in Calm |-> Status(o)]

(* The orders whose requests do not overlap and see each other's events    *)
(* follow the order lifecycle, whatever happens to the other orders.       *)
ImplementsLifecycle == Lifecycle!Spec
=============================================================================
