-------------------------- MODULE AggregateService --------------------------
(***************************************************************************)
(* An aggregate service that keeps snapshots: the generic LoadAggregate    *)
(* and MaybeCreateSnapshot (internal/domain/aggregate/base.go) and the     *)
(* method that every operation of the cart and the inventory service       *)
(* follows: load the aggregate (falling back on a fresh one when the load  *)
(* fails), append one event, bring the loaded aggregate up to date, save   *)
(* it when the version is a multiple of the threshold.  It runs on the     *)
(* append-only log of EventLog.                                            *)
(*                                                                         *)
(* The aggregate is a parameter, as it is in the code.                     *)
(***************************************************************************)
EXTENDS Naturals, SequencesExt

CONSTANTS
    Ids,                \* aggregate ids
    Requests,           \* calls of the service, each made at most once
    Events,             \* the events of the service
    ForeignEvents,      \* events others put in the same stream
    New,                \* newAggregate()
    Fresh,              \* what an operation goes on with when the load fails
    ApplyEvent(_, _),   \* T.ApplyEvent
    Update(_, _),       \* the change made in memory after the append
    HasID(_),           \* GetID() is not the empty string
    SnapshotThreshold,  \* store.SnapshotThreshold
    Contended           \* the aggregates whose calls may overlap and whose
                        \* queries may miss recent puts, or fail

Calm == Ids \ Contended

VARIABLES
    log,       \* log[i]: the events of aggregate i
    snapshot,  \* snapshot[i]: the item of the snapshots table, version 0: none
    overwritten, \* overwritten[i]: the items that were there before
    pc,        \* pc[r]: where call r is
    id,        \* id[r]: the aggregate it is for
    event,     \* event[r]: the event it is to append
    loaded,    \* loaded[r]: the aggregate it works on
    version    \* version[r]: the version of the stored event

vars == <<log, snapshot, overwritten, pc, id, event, loaded, version>>

NoSnapshot == [version |-> 0, state |-> New]

Init ==
    /\ log = [i \in Ids |-> <<>>]
    /\ snapshot = [i \in Ids |-> NoSnapshot]
    /\ overwritten = [i \in Ids |-> {}]
    /\ pc = [r \in Requests |-> "new"]
    /\ id \in [Requests -> Ids]
    /\ event \in [Requests -> Events \cup ForeignEvents]
    /\ loaded = [r \in Requests |-> New]
    /\ version = [r \in Requests |-> 0]

Step(r, here, there) ==
    /\ pc[r] = here
    /\ pc' = [pc EXCEPT ![r] = there]

Busy(i) == \E q \in Requests : pc[q] \in {"append", "snapshot"} /\ id[q] = i

MayStart(r) == id[r] \in Contended \/ ~Busy(id[r])

(***************************************************************************)
(* LoadAggregate: a snapshot and the events after it, up to some k.  The   *)
(* reads are not consistent ones: GetItem may return an item that has been *)
(* overwritten, or none, the query may miss recent events.                 *)
(***************************************************************************)
SeenSnapshots(i) ==
    IF i \in Contended THEN {snapshot[i], NoSnapshot} \cup overwritten[i]
                       ELSE {snapshot[i]}

SeenLengths(i) == IF i \in Contended THEN 0 .. Len(log[i]) ELSE {Len(log[i])}

(* Mutant of LoadAggregate: the snapshot's own event is applied again.     *)
LoadAgain(i, s, k) ==
    FoldLeft(ApplyEvent, s.state,
             SubSeq(log[i], IF s.version = 0 THEN 1 ELSE s.version, k))

LoadAggregate(i, s, k) ==
    FoldLeft(ApplyEvent, s.state, SubSeq(log[i], s.version + 1, k))

Load(r) ==
    /\ event[r] \in Events
    /\ MayStart(r)
    /\ Step(r, "new", "append")
    /\ \E s \in SeenSnapshots(id[r]), k \in SeenLengths(id[r]) :
          loaded' = [loaded EXCEPT ![r] = LoadAggregate(id[r], s, k)]
    /\ UNCHANGED <<log, snapshot, overwritten, id, event, version>>

(* GetSnapshot fails: the operation goes on with a fresh aggregate.        *)
LoadFails(r) ==
    /\ id[r] \in Contended
    /\ event[r] \in Events
    /\ Step(r, "new", "append")
    /\ loaded' = [loaded EXCEPT ![r] = Fresh]
    /\ UNCHANGED <<log, snapshot, overwritten, id, event, version>>

(* Recorded, though perhaps reported as an error (EventStore!ReplyLost).   *)
AppendEvent(r) ==
    /\ \/ Step(r, "append", "snapshot")
       \/ Step(r, "append", "failed")
    /\ log' = [log EXCEPT ![id[r]] = Append(@, event[r])]
    /\ version' = [version EXCEPT ![r] = Len(log[id[r]]) + 1]
    /\ UNCHANGED <<snapshot, overwritten, id, event, loaded>>

AppendFails(r) ==
    /\ Step(r, "append", "failed")
    /\ UNCHANGED <<log, snapshot, overwritten, id, event, loaded, version>>

(* A service that appends to the same stream and keeps no snapshots.       *)
AppendForeign(r) ==
    /\ event[r] \in ForeignEvents
    /\ MayStart(r)
    /\ Step(r, "new", "ok")
    /\ log' = [log EXCEPT ![id[r]] = Append(@, event[r])]
    /\ version' = [version EXCEPT ![r] = Len(log[id[r]]) + 1]
    /\ UNCHANGED <<snapshot, overwritten, id, event, loaded>>

(* Mutants of MaybeCreateSnapshot: at any version past the threshold;      *)
(* without the change made in memory.                                      *)
SnapshotPastThreshold(r) ==
    /\ Step(r, "snapshot", "ok")
    /\ \/ /\ version[r] > SnapshotThreshold
          /\ HasID(Update(loaded[r], event[r]))
          /\ snapshot' = [snapshot EXCEPT ![id[r]] =
                [version |-> version[r], state |-> Update(loaded[r], event[r])]]
          /\ overwritten' = [overwritten EXCEPT ![id[r]] = @ \cup {snapshot[id[r]]}]
       \/ UNCHANGED <<snapshot, overwritten>>
    /\ UNCHANGED <<log, id, event, loaded, version>>
SnapshotOfLoaded(r) ==
    /\ Step(r, "snapshot", "ok")
    /\ \/ /\ version[r] % SnapshotThreshold = 0
          /\ HasID(loaded[r])
          /\ snapshot' = [snapshot EXCEPT ![id[r]] =
                [version |-> version[r], state |-> loaded[r]]]
          /\ overwritten' = [overwritten EXCEPT ![id[r]] = @ \cup {snapshot[id[r]]}]
       \/ UNCHANGED <<snapshot, overwritten>>
    /\ UNCHANGED <<log, id, event, loaded, version>>

(***************************************************************************)
(* MaybeCreateSnapshot.  The put of the snapshot overwrites what is there; *)
(* that it failed, as it does for an empty id, is only logged.             *)
(***************************************************************************)
MaybeCreateSnapshot(r) ==
    /\ Step(r, "snapshot", "ok")
    /\ \/ /\ version[r] % SnapshotThreshold = 0
          /\ HasID(Update(loaded[r], event[r]))
          /\ snapshot' = [snapshot EXCEPT ![id[r]] =
                [version |-> version[r], state |-> Update(loaded[r], event[r])]]
          /\ overwritten' = [overwritten EXCEPT ![id[r]] = @ \cup {snapshot[id[r]]}]
       \/ UNCHANGED <<snapshot, overwritten>>
    /\ UNCHANGED <<log, id, event, loaded, version>>

Next ==
    \E r \in Requests :
        \/ Load(r) \/ LoadFails(r) \/ AppendEvent(r) \/ AppendFails(r)
        \/ AppendForeign(r) \/ MaybeCreateSnapshot(r)

Spec == Init /\ [][Next]_vars

-----------------------------------------------------------------------------
(***************************************************************************)
(* Properties.                                                             *)
(***************************************************************************)

(* The state that the first n events of aggregate i amount to.             *)
Replay(i, n) == FoldLeft(ApplyEvent, New, SubSeq(log[i], 1, n))

(* A snapshot is the state of the aggregate at the version it names, if    *)
(* the calls for the aggregate do not overlap: what "a point-in-time state *)
(* of an aggregate" (store/snapshot.go) says.                              *)
SnapshotIsReplay ==
    \A i \in Calm : snapshot[i].version > 0 =>
        snapshot[i].state = Replay(i, snapshot[i].version)

(* A snapshot names a version that exists, is a multiple of the threshold  *)
(* and holds an event of the service that saved it: nothing else may       *)
(* decide from which version on an aggregate is replayed.                  *)
SnapshotAtThreshold ==
    \A i \in Ids : snapshot[i].version > 0 =>
        /\ snapshot[i].version \in 1 .. Len(log[i])
        /\ snapshot[i].version % SnapshotThreshold = 0
        /\ log[i][snapshot[i].version] \in Events
=============================================================================
