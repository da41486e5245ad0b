---------------------------- MODULE MCCartContext ----------------------------
(***************************************************************************)
(* Five clicks of a calm user, or two of a hasty one, for two products, a  *)
(* page load at any time, and up to three fetches for a click.             *)
(***************************************************************************)
EXTENDS CartContext, TLC
=============================================================================
