----------------------------- MODULE EventStore -----------------------------
(***************************************************************************)
(* DynamoEventStore (internal/infrastructure/store/dynamo_event_store.go). *)
(*                                                                         *)
(* The events table has the primary key (aggregate_id, version).  Append   *)
(* is two requests to DynamoDB: a query for the highest version, and a     *)
(* conditional put of the next one.  Nothing is locked between the two,    *)
(* and the query is eventually consistent: it may be answered by a replica *)
(* that has not seen the latest puts.  GetEvents and GetEventsFromVersion  *)
(* are one query each, also eventually consistent, of which only the first *)
(* page is used, and whose failure is answered with no events at all.      *)
(*                                                                         *)
(* A call is one goroutine in one of these methods.  The uuid it gives its *)
(* event is the call itself; payload and timestamps are left out.          *)
(***************************************************************************)
EXTENDS Naturals, Sequences, FiniteSetsExt

CONSTANTS
    Aggregates,  \* values of aggregate_id
    Calls,       \* calls of the store, each made at most once
    Versions     \* bound: the fromVersion values readers ask for

ASSUME VersionsAssumption == Versions \subseteq Nat

VARIABLES
    table,   \* table[a]: the items of aggregate a, a function on their versions
    pc,      \* pc[c]: where call c is
    target,  \* target[c]: the aggregateID argument of c
    from,    \* from[c]: the fromVersion argument of a read, 0 for GetEvents
    version, \* version[c]: the local variable of Append, 0 before it is set
    result   \* result[c]: the events a read returned

storeVars == <<table, pc, target, from, version, result>>

PCs == {"new", "getNextVersion", "putItem", "stored", "ok", "error",
        "query", "read"}

StoreInit ==
    /\ table = [a \in Aggregates |-> <<>>]
    /\ pc = [c \in Calls |-> "new"]
    /\ target \in [Calls -> Aggregates]
    /\ from \in [Calls -> Versions]
    /\ version = [c \in Calls |-> 0]
    /\ result = [c \in Calls |-> <<>>]

Step(c, here, there) ==
    /\ pc[c] = here
    /\ pc' = [pc EXCEPT ![c] = there]

(***************************************************************************)
(* What a query of aggregate a can see: a replica has applied the puts up  *)
(* to some point, and a page ends at some item.                            *)
(***************************************************************************)
Visible(a, k) == {v \in DOMAIN table[a] : v <= k}

Cuts(a) == {0} \cup DOMAIN table[a]

(* Mutant of NextVersion: a version is skipped.                            *)
NextVersionSkips(seen) == IF seen = {} THEN 1 ELSE Max(seen) + 2

NextVersion(seen) == IF seen = {} THEN 1 ELSE Max(seen) + 1

StartAppend(c) ==
    /\ Step(c, "new", "getNextVersion")
    /\ UNCHANGED <<table, target, from, version, result>>

GetNextVersion(c) ==
    /\ Step(c, "getNextVersion", "putItem")
    /\ \E k \in Cuts(target[c]) :
          version' = [version EXCEPT ![c] = NextVersion(Visible(target[c], k))]
    /\ UNCHANGED <<table, target, from, result>>

(* Mutant of PutItem: the put without the condition expression.            *)
PutItemUnconditional(c) ==
    /\ Step(c, "putItem", "stored")
    /\ table' = [table EXCEPT ![target[c]] =
                    [v \in DOMAIN @ \cup {version[c]} |->
                        IF v = version[c] THEN c ELSE @[v]]]
    /\ UNCHANGED <<target, from, version, result>>

(* attribute_not_exists holds: the item is inserted.                       *)
PutItem(c) ==
    /\ Step(c, "putItem", "stored")
    /\ version[c] \notin DOMAIN table[target[c]]
    /\ table' = [table EXCEPT ![target[c]] =
                    [v \in DOMAIN @ \cup {version[c]} |->
                        IF v = version[c] THEN c ELSE @[v]]]
    /\ UNCHANGED <<target, from, version, result>>

(* The condition fails: the error goes to the caller, there is no retry.   *)
PutConflict(c) ==
    /\ Step(c, "putItem", "error")
    /\ version[c] \in DOMAIN table[target[c]]
    /\ UNCHANGED <<table, target, from, version, result>>

(* DynamoDB cannot be reached, throttles or times out before the write.    *)
StoreFailure(c) ==
    /\ \/ Step(c, "getNextVersion", "error")
       \/ Step(c, "putItem", "error")
    /\ UNCHANGED <<table, target, from, version, result>>

ReturnOk(c) ==
    /\ Step(c, "stored", "ok")
    /\ UNCHANGED <<table, target, from, version, result>>

(* The answer of a successful put is lost: Append reports an error.        *)
ReplyLost(c) ==
    /\ Step(c, "stored", "error")
    /\ UNCHANGED <<table, target, from, version, result>>

StartRead(c) ==
    /\ Step(c, "new", "query")
    /\ UNCHANGED <<table, target, from, version, result>>

(* The events above fromVersion, by version, as far as the query saw them: *)
(* only Append writes items, so there is none that cannot be decoded.      *)
EventsAfter(a, v, k) == [u \in {w \in Visible(a, k) : w > v} |-> table[a][u]]

GetEventsFromVersion(c) ==
    /\ Step(c, "query", "read")
    /\ \E k \in Cuts(target[c]) :
          result' = [result EXCEPT ![c] = EventsAfter(target[c], from[c], k)]
    /\ UNCHANGED <<table, target, from, version>>

(* A failed query returns nil, which callers cannot tell from no events.   *)
QueryFailure(c) ==
    /\ Step(c, "query", "read")
    /\ UNCHANGED <<table, target, from, version, result>>

StoreNext ==
    \E c \in Calls :
        \/ StartAppend(c) \/ GetNextVersion(c) \/ PutItem(c) \/ PutConflict(c)
        \/ StoreFailure(c) \/ ReturnOk(c) \/ ReplyLost(c)
        \/ StartRead(c) \/ GetEventsFromVersion(c) \/ QueryFailure(c)

StoreSpec == StoreInit /\ [][StoreNext]_storeVars

-----------------------------------------------------------------------------
(***************************************************************************)
(* Properties.                                                             *)
(***************************************************************************)

(* The type of the table and of the local variables of Append and the      *)
(* reads: version numbers are positive, readers get events of this store.  *)
TypeOK ==
    /\ \A a \in Aggregates :
          /\ table[a] \in [DOMAIN table[a] -> Calls]
          /\ DOMAIN table[a] \subseteq Nat \ {0}
    /\ table = [a \in Aggregates |-> table[a]]
    /\ pc \in [Calls -> PCs]
    /\ target \in [Calls -> Aggregates]
    /\ from \in [Calls -> Versions]
    /\ version \in [Calls -> Nat]
    /\ result = [c \in Calls |-> result[c]]

(* The versions of an aggregate are 1, 2, ..., n without a gap, although   *)
(* the highest version is read from a replica that may lag and is used     *)
(* after other calls have put theirs.                                      *)
Gapless == \A a \in Aggregates : \E n \in Cuts(a) : DOMAIN table[a] = 1 .. n

(* An event is in the table at most once and only under the aggregate and  *)
(* version its call chose, and a call that reports success has recorded    *)
(* its event for good.                                                     *)
RecordedOnce ==
    /\ \A a \in Aggregates : \A v \in DOMAIN table[a] :
          LET c == table[a][v]
          IN  /\ target[c] = a
              /\ version[c] = v
              /\ pc[c] \in {"stored", "ok", "error"}
    /\ \A c \in Calls : pc[c] \in {"stored", "ok"} =>
          /\ version[c] \in DOMAIN table[target[c]]
          /\ table[target[c]][version[c]] = c

(* What a read returned is a gapless run of the events that follow         *)
(* fromVersion, and stays one: no event is ever put before or among those  *)
(* a reader has already replayed.                                          *)
ReadsAreSegments ==
    \A c \in Calls : pc[c] = "read" =>
        \E n \in {from[c]} \cup DOMAIN result[c] :
            /\ DOMAIN result[c] = from[c] + 1 .. n
            /\ \A v \in DOMAIN result[c] :
                  /\ v \in DOMAIN table[target[c]]
                  /\ result[c][v] = table[target[c]][v]

(* No step removes, replaces or reorders an event of the table.            *)
AppendOnly ==
    [][\A a \in Aggregates : \A v \in DOMAIN table[a] :
          v \in DOMAIN table'[a] /\ table'[a][v] = table[a][v]]_storeVars

(***************************************************************************)
(* The refinement mapping.  A function on 1 .. n is a sequence, so the     *)
(* items of an aggregate are its abstract log; the query for the version   *)
(* and the wait for the put are not visible to the caller.                 *)
(***************************************************************************)
AbstractState ==
    [c \in Calls |->
        CASE pc[c] \in {"getNextVersion", "putItem"} -> "appending"
          [] pc[c] = "query" -> "reading"
          [] OTHER -> pc[c]]

Log == INSTANCE EventLog WITH
    log <- table, state <- AbstractState, agg <- target, after <- from,
    reply <- result

(* The two requests of Append and the lagging queries are an atomic        *)
(* append-only log for everything that uses the store.                     *)
ImplementsEventLog == Log!Spec
=============================================================================
