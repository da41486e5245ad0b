---------------------------- MODULE MCEventStore ----------------------------
(***************************************************************************)
(* Two products and four calls of the store: enough for two appends to     *)
(* race on one aggregate while a third, lagging, has read an old version   *)
(* and a reader holds an earlier prefix.                                   *)
(***************************************************************************)
EXTENDS EventStore, TLC

MCVersions == {0, 1}

Symmetry == Permutations(Calls) \cup Permutations(Aggregates)
=============================================================================
