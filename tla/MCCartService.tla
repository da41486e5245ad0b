---------------------------- MODULE MCCartService ----------------------------
(***************************************************************************)
(* One cart, two products, two prices; the threshold is lowered, so that   *)
(* snapshots are saved and loaded within three calls.                      *)
(***************************************************************************)
EXTENDS CartService, TLC

Symmetry == Permutations(Requests) \cup Permutations(Products)
=============================================================================
