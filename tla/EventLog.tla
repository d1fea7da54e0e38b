------------------------------ MODULE EventLog ------------------------------
(***************************************************************************)
(* What the event sequencer promises to the readers of the events          *)
(* database: GET /sync, /events, /messages and the federation sender take  *)
(* vm::sequence::retired as the end of the log they may read               *)
(* (modules/client/sync.cc).  At and below retired the log is final; it    *)
(* grows only above; retired only moves up, and only to an index which is  *)
(* in the database, whatever evaluations fail or processes die.            *)
(***************************************************************************)
EXTENDS Naturals

VARIABLES column, retired

logvars == <<column, retired>>

Init == column = {} /\ retired = 0

\* A transaction lands: it adds or replaces cells above retired only.
Append ==
    /\ \A c \in (column \ column') \cup (column' \ column) : c[1] > retired
    /\ column' # column
    /\ retired' = retired

\* Readers may see more of the log.
Advance ==
    /\ retired' > retired
    /\ \E c \in column : c[1] = retired'
    /\ column' = column

Next == Append \/ Advance

Spec == Init /\ [][Next]_logvars
=============================================================================
