------------------------------ MODULE MCSender ------------------------------
(* Instance of Sender for TLC: all events are for n1, some for n2 as well. *)
EXTENDS Sender, TLC

CONSTANTS n1

mc_Targets == [u \in Units |-> IF u <= 2 THEN Nodes ELSE {n1}]
=============================================================================
