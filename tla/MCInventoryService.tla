------------------------- MODULE MCInventoryService -------------------------
(***************************************************************************)
(* Four calls for a calm and a contended product; the threshold is lowered *)
(* to 2 so that snapshots are saved, loaded and overwritten.               *)
(***************************************************************************)
EXTENDS InventoryService, TLC

Symmetry == Permutations(Requests)
=============================================================================
