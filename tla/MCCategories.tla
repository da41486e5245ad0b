---------------------------- MODULE MCCategories ----------------------------
(***************************************************************************)
(* A small instance of CategoryTree; categories and slugs are              *)
(* interchangeable.                                                        *)
(***************************************************************************)
EXTENDS CategoryTree, TLC

Symmetry == Permutations(Categories) \cup Permutations(Slugs)
=============================================================================
