------------------------------ MODULE MCServer ------------------------------
(* Instance of Server for TLC. *)
EXTENDS Server, TLC

\* Requests are interchangeable, and so are the identities of links.
mc_Symmetry == Permutations(Requests) \cup Permutations(Links)
=============================================================================
