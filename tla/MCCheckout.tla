----------------------------- MODULE MCCheckout -----------------------------
(***************************************************************************)
(* Small instances of Checkout, where every product has the same stock and *)
(* users and calls of a kind are interchangeable.                          *)
(***************************************************************************)
EXTENDS Checkout, TLC

CONSTANTS Pieces    \* the stock of every product

StockOf == [p \in Products |-> Pieces]

Symmetry ==
    Permutations(Users) \cup Permutations(Products) \cup
    Permutations(Placements) \cup Permutations(Cancellations)
=============================================================================
