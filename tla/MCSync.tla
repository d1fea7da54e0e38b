------------------------------- MODULE MCSync -------------------------------
(* Instance of Sync for TLC. *)
EXTENDS Sync, TLC
=============================================================================
