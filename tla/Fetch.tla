-------------------------------- MODULE Fetch --------------------------------
(***************************************************************************)
(* m::fetch (matrix/fetch.cc): retrieves events from the servers of a      *)
(* room, one server after the other, until one gives a good answer.        *)
(*                                                                         *)
(* Contexts call start(), which finds or makes the request in the set of   *)
(* requests and gives them a future of its promise.  One worker waits for  *)
(* the first answer to any request, with requests_mutex released, then     *)
(* handles it, and retries what has timed out at another server.  The      *)
(* callers that wait for room in the set and the worker sleep in one dock. *)
(*                                                                         *)
(* Sending to a server may yield (m::fed::well_known() makes a request of  *)
(* its own), so each attempt is a step, with requests_mutex held.          *)
(***************************************************************************)
EXTENDS Dock, FiniteSets

CONSTANTS
    Users,          \* contexts which call start()
    Worker,         \* request_context
    NoCtx,
    Requests,       \* values of opts, by op, room and event
    Asks,           \* the requests a user makes
    Servers,        \* the servers of the room, without this one
    Errant,         \* those which m::fed::errant() reports at times
    Hint,           \* opts::hint of a request, as a set
    AttemptLimit,   \* opts::attempt_limit, 0 for none
    RequestsMax,    \* conf item ircd.m.fetch.requests.max
    End, Unset      \* of when_any(): no future to wait for; not ready

ASSUME FetchAssumption ==
    /\ Worker \notin Users /\ NoCtx \notin Users \cup {Worker}
    /\ Errant \subseteq Servers /\ Asks \in [Users -> SUBSET Requests]
    /\ End \notin Requests /\ Unset \notin Requests /\ End # Unset
    /\ Hint \in [Requests -> SUBSET Servers]
    /\ AttemptLimit \in [Requests -> Nat] /\ RequestsMax \in Nat \ {0}
    /\ IsFiniteSet(Servers)

Ctxs == Users \cup {Worker}

VARIABLES
    requests,       \* the set of requests
    finished,       \* those with a time in request::finished
    hinted,         \* requests whose origin is the hint, still to be tried
    attempted,
    future,         \* "none", "pending" or "ready": the server::request
    observed,       \* requests whose future is OBSERVED by when_any()
    old,            \* request::last is more than the timeout ago
    waiters,        \* callers with a future of request::promise
    at, want,       \* where a context is, and with which request
    owner,          \* of requests_mutex
    dock, noted,    \* fetch::dock
    armed, next,    \* when_any() of the worker: its members, its value
    todo            \* timed out requests which the cleanup has still to retry

request == <<hinted, attempted, future, observed, old>>
vars == <<requests, finished, request, waiters, at, want, owner, dock, noted,
          armed, next, todo>>

-----------------------------------------------------------------------------
Unfinished == requests \ finished

Full == Cardinality(requests) >= RequestsMax

Init ==
    /\ requests = {} /\ finished = {}
    /\ hinted = {}
    /\ attempted = [r \in Requests |-> {}]
    /\ future = [r \in Requests |-> "none"]
    /\ observed = {} /\ old = {}
    /\ waiters = [r \in Requests |-> {}]
    /\ at = [c \in Ctxs |-> IF c = Worker THEN "asleep" ELSE "idle"]
    /\ want = [c \in Ctxs |-> Unset]
    /\ owner = NoCtx
    /\ dock = <<Worker>> /\ noted = {}
    /\ armed = {} /\ next = Unset
    /\ todo = {}

-----------------------------------------------------------------------------
(***************************************************************************)
(* The ends of the functions.                                              *)
(***************************************************************************)

\* c goes to p, done with its request, and the callers in S have their result.
Done(c, p, S) ==
    /\ at' = [x \in Ctxs |-> IF x = c THEN p ELSE IF x \in S THEN "idle" ELSE at[x]]
    /\ want' = [x \in Ctxs |-> IF x \in S \cup {c} THEN Unset ELSE want[x]]

\* The fields of the requests in S are those of a new one, or of none.
Cleared(S) ==
    /\ hinted' = hinted \ S
    /\ attempted' = [r \in Requests |-> IF r \in S THEN {} ELSE attempted[r]]
    /\ future' = [r \in Requests |-> IF r \in S THEN "none" ELSE future[r]]
    /\ observed' = observed \ S /\ old' = old \ S

\* scope_notify and the unlock as a caller leaves start() with a future; nn are
\* the notes given before.
Leave(u, nn) ==
    /\ owner' = NoCtx
    /\ noted' = nn \cup NotifyOne(dock) /\ dock' = Rotate(dock)

\* Mutant of Return: nobody in the dock is notified.
ReturnSilent(nn, S) ==
    /\ owner' = NoCtx /\ armed' = {} /\ next' = Unset
    /\ noted' = nn
    /\ dock' = IF S # {} THEN dock ELSE Append(dock, Worker)

\* The same as the worker leaves request_handle(), where its when_any() future
\* goes too; S are the unfinished requests, without any it goes to sleep.
Return(nn, S) ==
    /\ owner' = NoCtx /\ armed' = {} /\ next' = Unset
    /\ noted' = nn \cup NotifyOne(dock)
    /\ dock' = IF S # {} THEN Rotate(dock) ELSE Append(Rotate(dock), Worker)

Awake(S) == IF S # {} THEN "lock" ELSE "asleep"

-----------------------------------------------------------------------------
(***************************************************************************)
(* start(opts).                                                            *)
(***************************************************************************)

\* A context calls start(): when the set is full it sleeps in the dock.
Call(u, r) ==
    /\ at[u] = "idle"
    /\ want' = [want EXCEPT ![u] = r]
    /\ at' = [at EXCEPT ![u] = IF Full THEN "full" ELSE "lock"]
    /\ dock' = IF Full THEN Append(dock, u) ELSE dock
    /\ UNCHANGED <<requests, finished, request, waiters, owner, noted, armed, next, todo>>

\* A caller that waits for room runs.
WakeCall(u) ==
    /\ at[u] = "full" /\ u \in noted
    /\ noted' = noted \ {u}
    /\ at' = [at EXCEPT ![u] = IF Full THEN "full" ELSE "lock"]
    /\ dock' = IF Full THEN dock ELSE Remove(dock, u)
    /\ UNCHANGED <<requests, finished, request, waiters, want, owner, armed, next, todo>>

\* With the mutex: a caller joins the request which is there, or makes it and
\* goes on to start it, from the hint.
Enter(u) ==
    /\ at[u] = "lock" /\ owner = NoCtx
    /\ LET r == want[u] IN
        /\ waiters' = [waiters EXCEPT ![r] = @ \cup {u}]
        /\ \/ /\ r \in requests
              /\ at' = [at EXCEPT ![u] = "get"]
              /\ Leave(u, noted)
              /\ UNCHANGED <<requests, request>>
           \/ /\ r \notin requests
              /\ requests' = requests \cup {r}
              /\ hinted' = IF Hint[r] # {} THEN hinted \cup {r} ELSE hinted
              /\ at' = [at EXCEPT ![u] = "start"] /\ owner' = u
              /\ UNCHANGED <<attempted, future, observed, old, dock, noted>>
    /\ UNCHANGED <<finished, want, armed, next, todo>>

\* The caller has waited long enough, and drops its future.
Abandon(u) ==
    /\ at[u] = "get"
    /\ Done(u, "idle", {})
    /\ waiters' = [waiters EXCEPT ![want[u]] = @ \ {u}]
    /\ UNCHANGED <<requests, finished, request, owner, dock, noted, armed, next, todo>>

-----------------------------------------------------------------------------
(***************************************************************************)
(* start(request): by a caller for a new request ("start"), by the worker  *)
(* after a bad answer ("retry") or after a timeout ("expire").             *)
(***************************************************************************)

Starting(c) == owner = c /\ at[c] \in {"start", "retry", "expire"}

\* The hint, or what select_random_origin() may give.
Origins(r) ==
    IF r \in hinted THEN Hint[r] ELSE Servers \ attempted[r]

\* Mutant of Tried: select_origin() does not remember the server.
TriedNot(r, s) == attempted[r]

\* request::attempted after select_origin(); the hint does not go through it.
Tried(r, s) == IF r \in hinted THEN attempted[r] ELSE attempted[r] \cup {s}

\* finish() with an exception: the callers get it.  After a bad answer the
\* worker erases the request at once.
Fails(c) ==
    LET r == want[c]
        p == IF c = Worker THEN "cleanup" ELSE "idle"
        erased == IF at[c] = "retry" THEN {r} ELSE {}
    IN  /\ Done(c, p, waiters[r])
        /\ waiters' = [waiters EXCEPT ![r] = {}]
        /\ requests' = requests \ erased
        /\ finished' = (finished \cup {r}) \ erased
        /\ Cleared(erased)
        /\ todo' = IF at[c] = "retry" THEN old \cap (Unfinished \ {r}) ELSE todo
        /\ IF c = Worker THEN UNCHANGED <<owner, dock, noted>> ELSE Leave(c, noted)
        /\ UNCHANGED <<armed, next>>

\* The request was handed to the server s.
Start(c) ==
    /\ Starting(c)
    /\ LET r == want[c]
           nn == noted \cup Waiting(dock)
       IN \E s \in Origins(r) :
        /\ attempted' = [attempted EXCEPT ![r] = Tried(r, s)]
        /\ hinted' = hinted \ {r}
        /\ future' = [future EXCEPT ![r] = "pending"]
        /\ observed' = observed \ {r} /\ old' = old \ {r}
        /\ \/ /\ at[c] = "start"
              /\ at' = [at EXCEPT ![c] = "get"]
              /\ Leave(c, nn)
              /\ UNCHANGED <<want, armed, next>>
           \/ /\ at[c] = "retry"
              /\ Done(c, Awake(Unfinished), {})
              /\ Return(nn, Unfinished)
           \/ /\ at[c] = "expire"
              /\ Done(c, "cleanup", {})
              /\ noted' = nn
              /\ UNCHANGED <<owner, dock, armed, next>>
    /\ UNCHANGED <<requests, finished, waiters, todo>>

\* Mutant of Limited: the limit of 0 is not unlimited.
LimitedZero(r, s) == Cardinality(Tried(r, s)) > AttemptLimit[r]

\* attempted.size() > attempt_limit - 1UL, where 0 wraps around.
Limited(r, s) == AttemptLimit[r] > 0 /\ Cardinality(Tried(r, s)) > AttemptLimit[r] - 1

\* The server could not be asked, for instance because it is in error.
Refused(c) ==
    /\ Starting(c)
    /\ LET r == want[c] IN \E s \in Origins(r) :
        /\ \/ /\ ~Limited(r, s)
              /\ attempted' = [attempted EXCEPT ![r] = Tried(r, s)]
              /\ hinted' = hinted \ {r}
              /\ UNCHANGED <<requests, finished, future, observed, old, waiters, at, want,
                             owner, dock, noted, armed, next, todo>>
           \/ Limited(r, s) /\ Fails(c)

\* No server is left, or only some which are in error now.
NotFound(c) ==
    /\ Starting(c)
    /\ want[c] \notin hinted /\ Servers \ attempted[want[c]] \subseteq Errant
    /\ Fails(c)

-----------------------------------------------------------------------------
(***************************************************************************)
(* The worker.                                                             *)
(***************************************************************************)

others == <<requests, finished, request, waiters, want>>

WakeWorker ==
    /\ at[Worker] = "asleep" /\ Worker \in noted
    /\ noted' = noted \ {Worker}
    /\ at' = [at EXCEPT ![Worker] = Awake(Unfinished)]
    /\ dock' = IF Unfinished = {} THEN dock ELSE Remove(dock, Worker)
    /\ UNCHANGED <<others, owner, armed, next, todo>>

Ready(r) == future[r] = "ready" /\ r \notin observed

\* when_any() over the futures of the requests.  With a value at once the
\* worker has the mutex back without a yield.
WhenAny ==
    /\ at[Worker] = "lock" /\ owner = NoCtx
    /\ \/ \E r \in requests :
            /\ Ready(r)
            /\ next' = r /\ observed' = observed \cup {r}
            /\ UNCHANGED armed
       \/ /\ \A r \in requests : ~Ready(r)
          /\ armed' = {r \in requests : future[r] = "pending"}
          /\ next' = IF armed' = {} THEN End ELSE Unset
          /\ UNCHANGED observed
    /\ at' = [at EXCEPT ![Worker] = IF next' # Unset THEN "any" ELSE "wait"]
    /\ owner' = IF next' # Unset THEN Worker ELSE NoCtx
    /\ UNCHANGED <<requests, finished, hinted, attempted, future, old, waiters, want,
                   dock, noted, todo>>

\* The wait ends with a value, or after the timeout; the mutex is next.
EndWait ==
    /\ at[Worker] = "wait"
    /\ at' = [at EXCEPT ![Worker] = IF next # Unset THEN "any" ELSE "timedout"]
    /\ UNCHANGED <<others, owner, dock, noted, armed, next, todo>>

Locks == owner \in {NoCtx, Worker}

\* The requests for which request_cleanup() finds that they have timed out.
Expired == old \cap Unfinished

\* A good answer: the callers get it, and the request is erased.
HandleGood ==
    /\ at[Worker] = "any" /\ Locks
    /\ next # End
    /\ requests' = requests \ {next}
    /\ waiters' = [waiters EXCEPT ![next] = {}]
    /\ Cleared({next})
    /\ Done(Worker, "cleanup", waiters[next])
    /\ todo' = Expired \ {next}
    /\ owner' = Worker
    /\ UNCHANGED <<finished, dock, noted, armed, next>>

\* retry(): what is under way is cancelled, and another server is tried.
Retry(r, p) ==
    /\ future' = [future EXCEPT ![r] = "none"]
    /\ hinted' = hinted \ {r}
    /\ observed' = observed \ {r}
    /\ at' = [at EXCEPT ![Worker] = p]
    /\ want' = [want EXCEPT ![Worker] = r]
    /\ owner' = Worker
    /\ UNCHANGED <<requests, finished, attempted, old, waiters, dock, noted, armed, next>>

HandleBad ==
    /\ at[Worker] = "any" /\ Locks
    /\ next # End
    /\ Retry(next, "retry")
    /\ UNCHANGED todo

\* Nothing was answered, or there was nothing to wait for.
HandleNone ==
    /\ \/ at[Worker] = "timedout"
       \/ at[Worker] = "any" /\ next = End
    /\ Locks
    /\ at' = [at EXCEPT ![Worker] = "cleanup"]
    /\ owner' = Worker
    /\ todo' = Expired
    /\ UNCHANGED <<others, dock, noted, armed, next>>

\* request_cleanup() retries what has timed out;
Expire ==
    /\ at[Worker] = "cleanup"
    /\ \E r \in todo : Retry(r, "expire") /\ todo' = todo \ {r}

\* Mutant of Erase: the callers are not told of their broken promise.
EraseOnly ==
    /\ at[Worker] = "cleanup" /\ todo = {}
    /\ requests' = Unfinished /\ finished' = {}
    /\ Cleared(finished)
    /\ at' = [at EXCEPT ![Worker] = Awake(Unfinished)]
    /\ Return(noted, Unfinished)
    /\ UNCHANGED <<waiters, want, todo>>

\* then it erases what is finished, whose promise is broken for the callers
\* who have joined since.
Erase ==
    /\ at[Worker] = "cleanup" /\ todo = {}
    /\ requests' = Unfinished /\ finished' = {}
    /\ Cleared(finished)
    /\ waiters' = [r \in Requests |-> IF r \in finished THEN {} ELSE waiters[r]]
    /\ Done(Worker, Awake(Unfinished), UNION {waiters[r] : r \in finished})
    /\ Return(noted, Unfinished)
    /\ UNCHANGED todo

-----------------------------------------------------------------------------
(***************************************************************************)
(* The servers and the clock.                                              *)
(***************************************************************************)

\* An answer, or an error from server::request.  when_any() observes the
\* first one, whether or not the worker still waits for it.
Answer(r) ==
    /\ future[r] = "pending"
    /\ future' = [future EXCEPT ![r] = "ready"]
    /\ IF r \in armed /\ next = Unset
       THEN next' = r /\ observed' = observed \cup {r}
       ELSE UNCHANGED <<next, observed>>
    /\ UNCHANGED <<requests, finished, hinted, attempted, old, waiters, at, want,
                   owner, dock, noted, armed, todo>>

Elapse(r) ==
    /\ r \in Unfinished /\ future[r] # "none" /\ r \notin old
    /\ old' = old \cup {r}
    /\ UNCHANGED <<requests, finished, hinted, attempted, future, observed, waiters, at,
                   want, owner, dock, noted, armed, next, todo>>

Attempt(c) == Start(c) \/ Refused(c) \/ NotFound(c)

Caller(u) == WakeCall(u) \/ Enter(u) \/ Attempt(u)

Work ==
    \/ WakeWorker \/ WhenAny \/ EndWait
    \/ HandleGood \/ HandleBad \/ HandleNone
    \/ Attempt(Worker) \/ Expire \/ Erase

Next ==
    \/ \E u \in Users :
        \/ Caller(u) \/ Abandon(u)
        \/ \E r \in Asks[u] : Call(u, r)
    \/ Work
    \/ \E r \in Requests : Answer(r) \/ Elapse(r)

Spec == Init /\ [][Next]_vars

\* Contexts that can run do, the clock goes on, and whoever waits for the mutex
\* gets it in the end (Mutex): hence SF.  Nothing is assumed about when
\* contexts call start() and whether servers answer.
FairSpec ==
    /\ Spec
    /\ \A u \in Users : SF_vars(Caller(u))
    /\ SF_vars(Work)
    /\ \A r \in Requests : WF_vars(Elapse(r))

-----------------------------------------------------------------------------
States == {"idle", "full", "lock", "start", "get", "asleep", "wait", "any", "timedout",
           "retry", "expire", "cleanup"}

TypeOK ==
    /\ requests \subseteq Requests /\ finished \subseteq requests
    /\ attempted \in [Requests -> SUBSET Servers]
    /\ future \in [Requests -> {"none", "pending", "ready"}]
    /\ hinted \subseteq requests /\ observed \subseteq Requests /\ old \subseteq Requests
    /\ waiters \in [Requests -> SUBSET Users]
    /\ at \in [Ctxs -> States]
    /\ want \in [Ctxs -> Requests \cup {Unset}]
    /\ owner \in Ctxs \cup {NoCtx}
    /\ dock \in Seq(Ctxs) /\ noted \subseteq Waiting(dock)
    /\ armed \subseteq Requests /\ next \in Requests \cup {End, Unset}
    /\ todo \subseteq Requests

\* Whenever the mutex is free, each unfinished request has a server to wait
\* for, so that an answer or the timeout will move it on; and the futures of
\* the callers belong to the requests in the set, not to erased ones.
Underway ==
    /\ owner = NoCtx => \A r \in Unfinished : future[r] # "none"
    /\ \A u \in Users : at[u] = "get" => want[u] \in requests /\ u \in waiters[want[u]]

\* The types of the data, and no unfinished request that nothing moves on.
FetchInv == TypeOK /\ Underway

\* "All viable servers in a room are exhausted before an error is the result",
\* whatever mixture of refusals, bad answers and timeouts led there.
Exhausted ==
    [][\A c \in Ctxs :
        Starting(c) /\ AttemptLimit[want[c]] = 0 /\ ~Starting(c)' /\ want[c] \notin Unfinished'
            => Servers \ Errant \subseteq attempted[want[c]]]_vars

\* A caller that has a future of an unfinished request gets its result, though
\* no server may answer: attempts time out, and servers run out.
ResultComes ==
    \A u \in Users : []<>~(at[u] = "get" /\ want[u] \in Unfinished)

\* "This means the user is not required to wait_for() or wait_until() on the
\* future": the call of start() and the wait for its future come to an end.
CallReturns ==
    \A u \in Users : []<>(at[u] = "idle")

\* A caller does not sleep for ever while there is room.
RoomTaken ==
    []<>(\A u \in Users : ~(at[u] = "full" /\ ~Full))
=============================================================================
