---------------------------- MODULE MCProjection ----------------------------
(***************************************************************************)
(* Shards of up to four events of each kind of aggregate, in batches of up *)
(* to two records: a stock can be added, reserved and deducted, and batches*)
(* end between any two events.                                             *)
(***************************************************************************)
EXTENDS Projection, TLC
=============================================================================
