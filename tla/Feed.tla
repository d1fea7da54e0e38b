-------------------------------- MODULE Feed --------------------------------
(***************************************************************************)
(* What GET /sync promises to a client that sends back the next_batch      *)
(* token it was given: the responses cover the log of events window by     *)
(* window, up to its retired end, and each holds exactly the events of its *)
(* window which are for the client.  No event is skipped or sent twice,    *)
(* whichever way a response was made.                                      *)
(***************************************************************************)
EXTENDS Integers

CONSTANTS Clients, Relevant

VARIABLES
    column, retired,    \* the log
    since,              \* the token of each client
    got                 \* the events of its last response

feedvars == <<column, retired, since, got>>

Log == INSTANCE EventLog WITH column <- column, retired <- retired

Window(i, j) == {c \in column : i <= c[1] /\ c[1] < j /\ c[2] \in Relevant}

Init ==
    /\ Log!Init
    /\ since = [c \in Clients |-> 0]
    /\ got = [c \in Clients |-> {}]

Read(c) ==
    /\ since'[c] \in since[c]..(retired + 1)
    /\ since' = [since EXCEPT ![c] = since'[c]]
    /\ got' = [got EXCEPT ![c] = Window(since[c], since'[c])]
    /\ UNCHANGED <<column, retired>>

Next ==
    \/ Log!Next /\ UNCHANGED <<since, got>>
    \/ \E c \in Clients : Read(c)

Spec == Init /\ [][Next]_feedvars
=============================================================================
