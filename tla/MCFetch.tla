------------------------------- MODULE MCFetch -------------------------------
(* Instance of Fetch for TLC: one request has a hint and a limit. *)
EXTENDS Fetch, TLC

CONSTANTS a, b, s1, u1

mc_Asks == [u \in Users |-> IF u = u1 THEN {a} ELSE {a, b}]
mc_Hint == [r \in Requests |-> IF r = b THEN {s1} ELSE {}]
mc_AttemptLimit == [r \in Requests |-> IF r = b THEN 1 ELSE 0]
=============================================================================
