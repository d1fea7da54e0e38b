------------------------------ MODULE MCMutex -------------------------------
(* Instance of Mutex for TLC. *)
EXTENDS Mutex, TLC
=============================================================================
