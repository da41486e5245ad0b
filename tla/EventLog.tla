------------------------------ MODULE EventLog ------------------------------
(***************************************************************************)
(* What the event store promises to the aggregate services, whatever the   *)
(* database underneath does: one append-only sequence of events for every  *)
(* aggregate.  An append call puts its one event at the end of the         *)
(* sequence in a single atomic step or not at all, and is then answered    *)
(* with success or with an error.  An error answer does not tell whether   *)
(* the event was recorded.  A read is answered with events that follow the *)
(* requested version without a gap, possibly not all of them.              *)
(*                                                                         *)
(* Every append carries a fresh uuid, so the event a call appends is       *)
(* named by the call itself.                                               *)
(***************************************************************************)
EXTENDS Naturals, Sequences

CONSTANTS
    Aggregates,  \* aggregate identifiers
    Calls        \* calls of the event store, each made at most once

VARIABLES
    log,    \* log[a]: the events of aggregate a, in version order
    state,  \* state[c]: how far call c has come
    agg,    \* agg[c]: the aggregate call c is about
    after,  \* after[c]: a read returns the events after this version
    reply   \* reply[c]: the events a read was answered with, by version

vars == <<log, state, agg, after, reply>>

States == {"new", "appending", "stored", "ok", "error", "reading", "read"}

Init ==
    /\ log = [a \in Aggregates |-> <<>>]
    /\ state = [c \in Calls |-> "new"]
    /\ agg \in [Calls -> Aggregates]
    /\ after \in [Calls -> Nat]
    /\ reply = [c \in Calls |-> <<>>]

Goto(c, from, to) ==
    /\ state[c] = from
    /\ state' = [state EXCEPT ![c] = to]

StartAppend(c) ==
    /\ Goto(c, "new", "appending")
    /\ UNCHANGED <<log, agg, after, reply>>

Record(c) ==
    /\ Goto(c, "appending", "stored")
    /\ log' = [log EXCEPT ![agg[c]] = Append(@, c)]
    /\ UNCHANGED <<agg, after, reply>>

Refuse(c) ==
    /\ Goto(c, "appending", "error")
    /\ UNCHANGED <<log, agg, after, reply>>

AnswerAppend(c) ==
    /\ \/ Goto(c, "stored", "ok")
       \/ Goto(c, "stored", "error")
    /\ UNCHANGED <<log, agg, after, reply>>

StartRead(c) ==
    /\ Goto(c, "new", "reading")
    /\ UNCHANGED <<log, agg, after, reply>>

AnswerRead(c) ==
    /\ Goto(c, "reading", "read")
    /\ \E k \in 0 .. Len(log[agg[c]]) :
          reply' = [reply EXCEPT ![c] =
                       [v \in after[c] + 1 .. k |-> log[agg[c]][v]]]
    /\ UNCHANGED <<log, agg, after>>

Next ==
    \E c \in Calls :
        \/ StartAppend(c) \/ Record(c) \/ Refuse(c) \/ AnswerAppend(c)
        \/ StartRead(c) \/ AnswerRead(c)

Spec == Init /\ [][Next]_vars
=============================================================================
