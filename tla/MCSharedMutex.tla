--------------------------- MODULE MCSharedMutex ----------------------------
(* Instance of SharedMutex for TLC. *)
EXTENDS SharedMutex, TLC

\* Far enough from zero for MaxTries failed calls.
mc_Min == -6
=============================================================================
