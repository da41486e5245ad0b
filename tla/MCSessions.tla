----------------------------- MODULE MCSessions -----------------------------
(***************************************************************************)
(* A small instance of Sessions: all users register the same email.        *)
(***************************************************************************)
EXTENDS Sessions, TLC

CONSTANTS Email

OneEmail == {Email}
SameEmail == [u \in Users |-> Email]

Symmetry == Permutations(Users) \cup Permutations(Browsers) \cup Permutations(Refreshes)
=============================================================================
