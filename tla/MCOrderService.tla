--------------------------- MODULE MCOrderService ---------------------------
(***************************************************************************)
(* Five calls for a calm and a contended order: one of each method and a   *)
(* repeated one may all be for the same order.                             *)
(* The threshold is lowered so that snapshots are taken and loaded.        *)
(***************************************************************************)
EXTENDS OrderService, TLC

Symmetry == Permutations(Requests)
=============================================================================
