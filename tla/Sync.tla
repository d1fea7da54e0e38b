-------------------------------- MODULE Sync --------------------------------
(***************************************************************************)
(* GET /sync (modules/client/sync.cc): clients follow the log of events    *)
(* which the sequencer writes.  A request takes the range from the since   *)
(* token of the client to one past sequence::retired.  It is answered by   *)
(* going through the range (linear), by looking up what changed in it      *)
(* (polylog), or, when nothing in it is for the client, by sleeping on     *)
(* longpoll::dock for the events behind it.                                *)
(*                                                                         *)
(* The log is that of EventLog, which the sequencer of VM implements.      *)
(* Every fetch of an event may yield, and the log grows meanwhile.         *)
(***************************************************************************)
EXTENDS Integers, FiniteSets

CONSTANTS
    Clients,
    Events, Relevant,   \* events, and those which are for the clients
    MaxIdx,             \* bound on index numbers
    LinearMax,          \* linear_delta_max
    Capped,             \* clients which send next_batch tokens
    Silent              \* events evaluated with notify_clients = false

ASSUME SyncAssumption ==
    /\ Relevant \subseteq Events /\ Silent \subseteq Events
    /\ MaxIdx \in Nat /\ LinearMax \in Nat /\ Capped \subseteq Clients

VARIABLES
    column, retired,    \* the log: cells <<index, event>>
    owed,               \* retired indexes whose NOTIFY hook has still to run
    quiet,              \* retired was raised by a silent event last
    at,                 \* where the request of a client is
    cap,                \* its next_batch token, 0 if there is none
    second,             \* range.second; range.first is since
    pos,                \* the next index of the linear iteration
    out,                \* what the response holds so far
    noted,              \* clients with a note in longpoll::dock
    since, got          \* the token and the events of the last response which
                        \* a client has received

log == <<column, retired, owed, quiet>>
vars == <<log, at, cap, second, pos, out, noted, since, got>>

Log == INSTANCE EventLog WITH column <- column, retired <- retired

-----------------------------------------------------------------------------
Lower(i, j) == IF i < j THEN i ELSE j

\* The event at index i, if there is one and it is for the client.
Hit(i) == {c \in column : c[1] = i /\ c[2] \in Relevant}

Goto(c, p) == at' = [at EXCEPT ![c] = p]

Init ==
    /\ Log!Init /\ owed = {} /\ quiet = FALSE
    /\ at = [c \in Clients |-> "idle"]
    /\ cap = [c \in Clients |-> 0]
    /\ second = [c \in Clients |-> 0]
    /\ pos = [c \in Clients |-> 0]
    /\ out = [c \in Clients |-> {}]
    /\ noted = {}
    /\ since = [c \in Clients |-> 0]
    /\ got = [c \in Clients |-> {}]

\* The request is over, and its data on the stack gone.
Finish(c) ==
    /\ Goto(c, "idle")
    /\ cap' = [cap EXCEPT ![c] = 0]
    /\ second' = [second EXCEPT ![c] = 0]
    /\ pos' = [pos EXCEPT ![c] = 0]
    /\ out' = [out EXCEPT ![c] = {}]
    /\ noted' = noted \ {c}
    /\ UNCHANGED log

\* The client receives its response, S, with n as the next_batch.
Respond(c, n, S) ==
    /\ Finish(c)
    /\ since' = [since EXCEPT ![c] = n]
    /\ got' = [got EXCEPT ![c] = S]

\* handle_get() takes the range.  A since token behind a next_batch token is
\* refused.
HandleGet(c) ==
    /\ at[c] = "idle"
    /\ cap' \in {[cap EXCEPT ![c] = n] : n \in {0} \cup IF c \in Capped THEN 1..MaxIdx ELSE {}}
    /\ second' = [second EXCEPT ![c] =
            IF cap'[c] = 0 THEN retired + 1 ELSE Lower(cap'[c], retired + 1)]
    /\ since[c] <= second'[c]
    /\ Goto(c, "get")
    /\ UNCHANGED <<log, pos, out, noted, since, got>>

\* It has looked up the device meanwhile, and chooses how to respond.
Choose(c) ==
    /\ at[c] = "get"
    /\ Goto(c, IF since[c] > 0 /\ since[c] > retired THEN "poll"
               ELSE IF second[c] - since[c] <= LinearMax THEN "linear" ELSE "polylog")
    /\ pos' = [pos EXCEPT ![c] = since[c]]
    /\ out' = [out EXCEPT ![c] = {}]
    /\ UNCHANGED <<log, cap, second, noted, since, got>>

\* Mutant of Proffer: the end of the range is offered too.
ProfferPast(c) ==
    /\ at[c] = "linear" /\ pos[c] <= second[c]
    /\ out' = [out EXCEPT ![c] = @ \cup Hit(pos[c])]
    /\ pos' = [pos EXCEPT ![c] = @ + 1]
    /\ UNCHANGED <<log, at, cap, second, noted, since, got>>

\* linear_proffer() offers the next event of the range to the handlers.
Proffer(c) ==
    /\ at[c] = "linear" /\ pos[c] < second[c]
    /\ out' = [out EXCEPT ![c] = @ \cup Hit(pos[c])]
    /\ pos' = [pos EXCEPT ![c] = @ + 1]
    /\ UNCHANGED <<log, at, cap, second, noted, since, got>>

\* Mutant of Linear: the end of the range is the next_batch in any case.
LinearEnd(c) ==
    /\ at[c] = "linear"
    /\ \/ /\ out[c] # {} /\ (pos[c] = second[c] \/ Hit(pos[c] - 1) # {})
          /\ Respond(c, second[c], out[c])
       \/ /\ out[c] = {} /\ pos[c] = second[c]
          /\ Goto(c, "poll")
          /\ UNCHANGED <<log, cap, second, pos, out, noted, since, got>>

\* linear_handle() ends: the range is done, or the buffer was filled by the
\* event before pos; without any output the request goes on to poll.
Linear(c) ==
    /\ at[c] = "linear"
    /\ \/ /\ out[c] # {} /\ pos[c] = second[c]
          /\ Respond(c, second[c], out[c])
       \/ /\ pos[c] < second[c] /\ pos[c] > since[c] /\ Hit(pos[c] - 1) # {}
          /\ Respond(c, Lower(pos[c], second[c]), out[c])
       \/ /\ out[c] = {} /\ pos[c] = second[c]
          /\ Goto(c, "poll")
          /\ UNCHANGED <<log, cap, second, pos, out, noted, since, got>>

\* polylog_handle(): by index, over the whole range; its items may have
\* something to say without events.
Polylog(c) ==
    /\ at[c] = "polylog"
    /\ LET S == {x \in column : since[c] <= x[1] /\ x[1] < second[c] /\ x[2] \in Relevant}
       IN  \/ Respond(c, second[c], S)
           \/ /\ S = {}
              /\ Goto(c, "poll")
              /\ UNCHANGED <<log, cap, second, pos, out, noted, since, got>>

-----------------------------------------------------------------------------
(***************************************************************************)
(* Long polling.                                                           *)
(***************************************************************************)

PollReady(c) == second[c] <= retired

\* poll() goes on to the event at range.second, or to sleep.
Poll(c) ==
    /\ at[c] = "poll"
    /\ Goto(c, IF PollReady(c) THEN "polled" ELSE "asleep")
    /\ UNCHANGED <<log, cap, second, pos, out, noted, since, got>>

Wake(c) ==
    /\ at[c] = "asleep" /\ c \in noted
    /\ noted' = noted \ {c}
    /\ Goto(c, IF PollReady(c) THEN "polled" ELSE "asleep")
    /\ UNCHANGED <<log, cap, second, pos, out, since, got>>

\* Mutant of TimesOut: the loop goes on after a timeout as after a miss.
TimesOutNext(c) ==
    /\ at[c] = "asleep"
    /\ second' = [second EXCEPT ![c] = IF PollReady(c) THEN @ ELSE @ + 1]
    /\ noted' = noted \ {c} /\ Goto(c, IF PollReady(c) THEN "polled" ELSE "poll")
    /\ UNCHANGED <<log, cap, pos, out, since, got>>

\* The timeout of the client; the predicate is looked at once more.
TimesOut(c) ==
    /\ at[c] = "asleep"
    /\ \/ /\ ~PollReady(c)
          /\ Respond(c, second[c], {})
       \/ /\ PollReady(c)
          /\ noted' = noted \ {c} /\ Goto(c, "polled")
          /\ UNCHANGED <<log, cap, second, pos, out, since, got>>

\* polled(): the event is for the client, or the loop of longpoll_handle()
\* moves the upper bound past it.
Polled(c) ==
    /\ at[c] = "polled"
    /\ \/ /\ Hit(second[c]) # {}
          /\ Respond(c, Lower(second[c], retired) + 1, Hit(second[c]))
       \/ /\ Hit(second[c]) = {}
          /\ cap[c] # 0 /\ (since[c] >= second[c] \/ second[c] >= retired)
          /\ Respond(c, second[c], {})
       \/ /\ Hit(second[c]) = {}
          /\ ~(cap[c] # 0 /\ (since[c] >= second[c] \/ second[c] >= retired))
          /\ second' = [second EXCEPT ![c] = @ + 1]
          /\ Goto(c, "poll")
          /\ UNCHANGED <<log, cap, pos, out, noted, since, got>>

\* The connection of the client breaks, or fini() interrupts the polls: the
\* response is lost, and the client asks again with the token it has.
Gone(c) ==
    /\ at[c] # "idle"
    /\ Finish(c)
    /\ UNCHANGED <<since, got>>

-----------------------------------------------------------------------------
(***************************************************************************)
(* The log, written by the sequencer.                                      *)
(***************************************************************************)

clients == <<at, cap, second, pos, out, noted, since, got>>

\* A transaction with event v at index i.
Append(i, v) ==
    /\ i > retired /\ \A c \in column : c[1] # i /\ c[2] # v
    /\ column' = column \cup {<<i, v>>}
    /\ UNCHANGED <<retired, owed, quiet, clients>>

Advance(i) ==
    /\ i > retired
    /\ \E v \in Events :
        /\ <<i, v>> \in column
        /\ owed' = IF v \in Silent THEN owed ELSE owed \cup {i}
        /\ quiet' = (v \in Silent)
    /\ retired' = i
    /\ UNCHANGED <<column, clients>>

\* Mutant of Notify: only the front of the dock is notified.
NotifyFront(i) ==
    /\ i \in owed /\ owed' = owed \ {i}
    /\ \E S \in SUBSET {c \in Clients : at[c] = "asleep"} :
        Cardinality(S) <= 1 /\ noted' = noted \cup S
    /\ UNCHANGED <<column, retired, quiet, at, cap, second, pos, out, since, got>>

\* The NOTIFY hook of the event at i: handle_notify().
Notify(i) ==
    /\ i \in owed /\ owed' = owed \ {i}
    /\ noted' = noted \cup {c \in Clients : at[c] = "asleep"}
    /\ UNCHANGED <<column, retired, quiet, at, cap, second, pos, out, since, got>>

Request(c) ==
    \/ Choose(c) \/ Proffer(c) \/ Linear(c) \/ Polylog(c)
    \/ Poll(c) \/ Wake(c) \/ Polled(c)

Next ==
    \/ \E c \in Clients : HandleGet(c) \/ Request(c) \/ TimesOut(c) \/ Gone(c)
    \/ \E i \in 1..MaxIdx :
        \/ Advance(i) \/ Notify(i)
        \/ \E v \in Events : Append(i, v)

Spec == Init /\ [][Next]_vars

\* Contexts that can run do, and evaluations run their NOTIFY hook; nothing is
\* assumed about events, clients and the expiry of timeouts.
FairSpec ==
    /\ Spec
    /\ \A c \in Clients : WF_vars(Request(c))
    /\ \A i \in 1..MaxIdx : WF_vars(Notify(i))

-----------------------------------------------------------------------------
TypeOK ==
    /\ column \subseteq (1..MaxIdx) \X Events /\ retired \in 0..MaxIdx
    /\ owed \subseteq 1..MaxIdx /\ quiet \in BOOLEAN
    /\ at \in [Clients -> {"idle", "get", "linear", "polylog", "poll", "asleep", "polled"}]
    /\ cap \in [Clients -> 0..MaxIdx]
    /\ second \in [Clients -> 0..(MaxIdx + 1)] /\ pos \in [Clients -> 0..(MaxIdx + 1)]
    /\ since \in [Clients -> 0..(MaxIdx + 1)]
    /\ out \in [Clients -> SUBSET column] /\ got \in [Clients -> SUBSET column]
    /\ noted \subseteq Clients

\* assert(data.range.second <= m::vm::sequence::retired + 1) of poll(), which
\* was true when the range was taken and must stay so while the request moves
\* its upper bound and the sequencer retires; and range.first <= range.second.
PollAsserts ==
    \A c \in Clients : at[c] # "idle" =>
        second[c] <= retired + 1 /\ since[c] <= second[c]

\* The client sees every event that is for it once, by whatever mixture of
\* linear, polylog and long poll responses, lost ones included: a response
\* holds what is between the two tokens, no event less and none again.
FeedOf == INSTANCE Feed WITH column <- column, retired <- retired,
                             since <- since, got <- got
FeedSpec == FeedOf!Spec

\* A long poll is not left asleep in front of an event that was retired,
\* unless no client is to be notified of it.
PollReleased ==
    []<>(\A c \in Clients : ~(at[c] = "asleep" /\ PollReady(c) /\ ~quiet))
=============================================================================
