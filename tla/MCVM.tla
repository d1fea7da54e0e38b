-------------------------------- MODULE MCVM --------------------------------
(***************************************************************************)
(* VM for TLC: a few evaluations, remote events of which r1 refers to r2,  *)
(* and local events.                                                       *)
(***************************************************************************)
EXTENDS VM, TLC

CONSTANTS r1, r2

mc_AuthChain == [v \in Events |-> IF v = r1 THEN {r2} \cap RemoteEvents ELSE {}]
=============================================================================
