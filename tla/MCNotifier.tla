----------------------------- MODULE MCNotifier -----------------------------
(***************************************************************************)
(* A shard of up to four records, two of them orders, in batches of up     *)
(* to three: a record that fails has others before and after it.           *)
(***************************************************************************)
EXTENDS Notifier, TLC
=============================================================================
