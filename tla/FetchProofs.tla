----------------------------- MODULE FetchProofs -----------------------------
(***************************************************************************)
(* Proofs of the safety of m::fetch, for any callers, requests, servers    *)
(* and limits: no unfinished request is without a server to wait for once  *)
(* requests_mutex is free, and no caller is told of a failure before every *)
(* viable server was tried.                                                *)
(***************************************************************************)
EXTENDS Fetch, TLAPS

CallerStates == {"idle", "full", "lock", "start", "get"}
WorkerStates == {"asleep", "lock", "wait", "any", "timedout", "retry", "expire", "cleanup"}

\* Who holds requests_mutex between two steps: a caller exactly while it starts a
\* new request, the worker from the answer to the end of request_handle().
OwnerInv ==
    /\ \A u \in Users : at[u] \in CallerStates
    /\ at[Worker] \in WorkerStates
    /\ \A u \in Users : at[u] = "start" <=> owner = u
    /\ at[Worker] \in {"retry", "expire", "cleanup"} => owner = Worker
    /\ owner = Worker => at[Worker] \in {"any", "retry", "expire", "cleanup"}

\* A request has no server::request under way only while it is being started,
\* or when it is finished or none; a caller is with its request from the time
\* that it has made or joined it.
WantInv ==
    /\ \A u \in Users : at[u] # "idle" => want[u] \in Requests
    /\ \A u \in Users : at[u] \in {"start", "get"} => want[u] \in requests /\ u \in waiters[want[u]]
    /\ \A c \in Ctxs : at[c] \in {"start", "retry", "expire"} =>
            want[c] \in Unfinished /\ future[want[c]] = "none"
    /\ \A r \in Unfinished : future[r] = "none" =>
            owner \in Ctxs /\ Starting(owner) /\ want[owner] = r
    /\ \A r \in Requests \ Unfinished : future[r] = "none"

\* What the cleanup has still to retry is unfinished.
TodoInv ==
    /\ todo \subseteq Unfinished
    /\ at[Worker] \notin {"cleanup", "expire"} => todo = {}
    /\ at[Worker] = "expire" => want[Worker] \notin todo

\* when_any() watches only what is under way, and its value is an answer.
AnyInv ==
    /\ at[Worker] \in {"asleep", "lock"} => armed = {} /\ next = Unset
    /\ at[Worker] \in {"wait", "any", "timedout"} =>
        /\ \A r \in armed : future[r] # "none"
        /\ next \in Requests => future[next] = "ready"
    /\ at[Worker] = "any" => next # Unset

StartInv == TypeOK /\ OwnerInv /\ WantInv /\ TodoInv /\ AnyInv
-------------------------------------------------------------------------------
\* The initial state.
LEMMA InitInv == Init => StartInv
<1> SUFFICES ASSUME Init PROVE StartInv
  OBVIOUS
<1> USE FetchAssumption DEF Init
<1>1. TypeOK
  BY DEF TypeOK, Ctxs, Waiting, States
<1>2. OwnerInv /\ WantInv /\ TodoInv /\ AnyInv
  BY DEF OwnerInv, WantInv, TodoInv, AnyInv, Ctxs, Unfinished, CallerStates, WorkerStates
<1> QED BY <1>1, <1>2 DEF StartInv

\* The three ways to leave start(request).
LEMMA StartType ==
  ASSUME StartInv, NEW c \in Ctxs, Starting(c)
  PROVE  /\ want[c] \in Unfinished /\ want[c] \in Requests /\ future[want[c]] = "none"
         /\ IF c = Worker THEN at[c] \in {"retry", "expire"} ELSE at[c] = "start" /\ c \in Users
         /\ Origins(want[c]) \subseteq Servers
BY FetchAssumption
   DEF StartInv, TypeOK, OwnerInv, WantInv, Starting, Ctxs, CallerStates, WorkerStates,
       Unfinished, Origins

-------------------------------------------------------------------------------
(***************************************************************************)
(* The dock: a context with a note is asleep in it.                        *)
(***************************************************************************)

\* list::remove() of a member closes the gap at its place.
LEMMA RemoveAt ==
    ASSUME NEW S, NEW s \in Seq(S), NEW c \in Waiting(s)
    PROVE  /\ Len(s) - 1 \in Nat
           /\ Remove(s, c) \in Seq(S) /\ Len(Remove(s, c)) = Len(s) - 1
           /\ \E x \in 1..Len(s) :
                /\ s[x] = c
                /\ \A k \in 1..(Len(s) - 1) :
                    Remove(s, c)[k] = IF k < x THEN s[k] ELSE s[k + 1]
  <1> DEFINE x == CHOOSE k \in 1..Len(s) : s[k] = c
             r == [k \in 1..(Len(s) - 1) |-> IF k < x THEN s[k] ELSE s[k + 1]]
  <1>1. x \in 1..Len(s) /\ s[x] = c
    BY DEF Waiting
  <1>2. Len(s) \in Nat /\ Len(s) - 1 \in Nat /\ \A k \in 1..Len(s) : s[k] \in S
    BY <1>1
  <1>3. Remove(s, c) = r
    BY DEF Remove
  <1> HIDE DEF x
  <1>4. r \in Seq(S) /\ Len(r) = Len(s) - 1
    BY <1>1, <1>2
  <1>5. \A k \in 1..(Len(s) - 1) : r[k] = IF k < x THEN s[k] ELSE s[k + 1]
    BY <1>4
  <1> QED BY <1>1, <1>2, <1>3, <1>4, <1>5

\* It leaves at least all others.
LEMMA RemoveRest ==
    ASSUME NEW S, NEW s \in Seq(S), NEW c \in Waiting(s)
    PROVE  /\ Remove(s, c) \in Seq(S) /\ Len(Remove(s, c)) = Len(s) - 1
           /\ Waiting(Remove(s, c)) \subseteq Waiting(s)
           /\ Waiting(s) \ {c} \subseteq Waiting(Remove(s, c))
  <1> DEFINE r == Remove(s, c)
  <1>1. Len(s) \in Nat /\ Len(s) - 1 \in Nat /\ r \in Seq(S) /\ Len(r) = Len(s) - 1
    BY RemoveAt
  <1>2. PICK x \in 1..Len(s) :
            s[x] = c /\ \A k \in 1..Len(r) : r[k] = IF k < x THEN s[k] ELSE s[k + 1]
    BY <1>1, RemoveAt
  <1> HIDE DEF r
  <1>3. Waiting(r) \subseteq Waiting(s)
    BY <1>1, <1>2 DEF Waiting
  <1>4. ASSUME NEW d \in Waiting(s), d # c PROVE d \in Waiting(r)
    <2>1. PICK k \in 1..Len(s) : s[k] = d
      BY DEF Waiting
    <2>2. CASE k < x
      BY <1>1, <1>2, <2>1, <2>2 DEF Waiting
    <2>3. CASE k > x
      <3>1. k - 1 \in 1..Len(r) /\ r[k - 1] = d
        BY <1>1, <1>2, <2>1, <2>3
      <3> QED BY <3>1 DEF Waiting
    <2> QED BY <1>2, <1>4, <2>1, <2>2, <2>3
  <1> QED BY <1>1, <1>3, <1>4 DEF r

\* Joining the dock at its back.
LEMMA AppendRest ==
    ASSUME NEW S, NEW s \in Seq(S), NEW c \in S
    PROVE  /\ Append(s, c) \in Seq(S)
           /\ Waiting(Append(s, c)) = Waiting(s) \cup {c}
  BY DEF Waiting

\* dock::notify() moves the front to the back, which changes the order alone.
LEMMA RotateFacts ==
    ASSUME NEW S, NEW s \in Seq(S)
    PROVE  Rotate(s) \in Seq(S) /\ Waiting(Rotate(s)) = Waiting(s)
  <1>1. CASE s = <<>>
    BY <1>1 DEF Rotate
  <1>2. CASE s # <<>>
    <2> DEFINE t == Tail(s)
    <2>1. t \in Seq(S) /\ Head(s) = s[1] /\ Head(s) \in S
      BY <1>2
    <2>2. Waiting(s) = Waiting(t) \cup {Head(s)}
      <3>1. /\ Len(s) \in Nat /\ Len(s) > 0 /\ Len(t) = Len(s) - 1
            /\ \A k \in 1..Len(t) : t[k] = s[k + 1]
        BY <1>2
      <3> HIDE DEF t
      <3>2. ASSUME NEW k \in 1..Len(s), k # 1 PROVE k - 1 \in 1..Len(t) /\ t[k - 1] = s[k]
        BY <3>1, <3>2
      <3> QED BY <2>1, <3>1, <3>2 DEF Waiting
    <2> HIDE DEF t
    <2>3. Append(t, Head(s)) \in Seq(S) /\ Waiting(Append(t, Head(s))) = Waiting(s)
      BY <2>1, <2>2, AppendRest
    <2> QED BY <1>2, <2>3 DEF Rotate, t
  <1> QED BY <1>1, <1>2

\* Who is notified is asleep in the dock.
LEMMA NotifyFacts ==
    ASSUME NEW S, NEW s \in Seq(S)
    PROVE  NotifyOne(s) \subseteq Waiting(s) /\ Waiting(s) \subseteq S
  BY DEF NotifyOne, Waiting

\* A caller notifies the dock as it leaves start().
LEMMA LeaveDock ==
  ASSUME TypeOK, NEW u, NEW nn \in SUBSET Waiting(dock), Leave(u, nn)
  PROVE  dock' \in Seq(Ctxs) /\ noted' \subseteq Waiting(dock')
BY RotateFacts, NotifyFacts DEF TypeOK, Leave

\* The worker notifies the dock as it leaves request_handle(), and may join it.
LEMMA ReturnDock ==
  ASSUME TypeOK, NEW S, NEW nn \in SUBSET Waiting(dock), Return(nn, S)
  PROVE  dock' \in Seq(Ctxs) /\ noted' \subseteq Waiting(dock')
<1>1. Rotate(dock) \in Seq(Ctxs) /\ Waiting(Rotate(dock)) = Waiting(dock)
      /\ NotifyOne(dock) \subseteq Waiting(dock)
  BY RotateFacts, NotifyFacts DEF TypeOK
<1>2. Worker \in Ctxs
  BY DEF Ctxs
<1>3. Append(Rotate(dock), Worker) \in Seq(Ctxs)
      /\ Waiting(Append(Rotate(dock), Worker)) = Waiting(dock) \cup {Worker}
  BY <1>1, <1>2, AppendRest
<1> QED BY <1>1, <1>3 DEF TypeOK, Return

\* The dock holds contexts, and notes are with those in it.
LEMMA DockStep == StartInv /\ [Next]_vars => dock' \in Seq(Ctxs) /\ noted' \subseteq Waiting(dock')
<1> SUFFICES ASSUME StartInv, [Next]_vars PROVE dock' \in Seq(Ctxs) /\ noted' \subseteq Waiting(dock')
  OBVIOUS
<1>0. dock \in Seq(Ctxs) /\ noted \subseteq Waiting(dock) /\ Waiting(dock) \subseteq Ctxs /\ TypeOK
  BY NotifyFacts DEF StartInv, TypeOK
<1>1. ASSUME NEW u \in Users, NEW r \in Asks[u], Call(u, r)
      PROVE  dock' \in Seq(Ctxs) /\ noted' \subseteq Waiting(dock')
  BY <1>0, <1>1, AppendRest DEF Call, Ctxs
<1>2. ASSUME NEW u \in Users, WakeCall(u)
      PROVE  dock' \in Seq(Ctxs) /\ noted' \subseteq Waiting(dock')
  BY <1>0, <1>2, RemoveRest DEF WakeCall
<1>3. ASSUME NEW u \in Users, Enter(u)
      PROVE  dock' \in Seq(Ctxs) /\ noted' \subseteq Waiting(dock')
  BY <1>0, <1>3, LeaveDock DEF Enter
<1>4. ASSUME NEW c \in Ctxs, Fails(c)
      PROVE  dock' \in Seq(Ctxs) /\ noted' \subseteq Waiting(dock')
  BY <1>0, <1>4, LeaveDock DEF Fails
<1>5. ASSUME NEW c \in Ctxs, Start(c)
      PROVE  dock' \in Seq(Ctxs) /\ noted' \subseteq Waiting(dock')
  <2> DEFINE nn == noted \cup Waiting(dock)
  <2>1. nn \in SUBSET Waiting(dock)
    BY <1>0
  <2>2. Leave(c, nn) \/ Return(nn, Unfinished) \/ (noted' = nn /\ UNCHANGED dock)
    BY <1>5 DEF Start
  <2> HIDE DEF nn
  <2> QED BY <1>0, <2>1, <2>2, LeaveDock, ReturnDock
<1>6. ASSUME NEW c \in Ctxs, Refused(c) \/ NotFound(c)
      PROVE  dock' \in Seq(Ctxs) /\ noted' \subseteq Waiting(dock')
  BY <1>0, <1>4, <1>6 DEF Refused, NotFound
<1>7. CASE WakeWorker
  BY <1>0, <1>7, RemoveRest DEF WakeWorker
<1>8. CASE Erase
  BY <1>0, <1>8, ReturnDock DEF Erase
<1>9. CASE UNCHANGED <<dock, noted>>
  BY <1>0, <1>9
<1>10. ASSUME NEW u \in Users, Abandon(u) PROVE UNCHANGED <<dock, noted>>
  BY <1>10 DEF Abandon
<1>11. CASE WhenAny \/ EndWait \/ HandleGood \/ HandleBad \/ HandleNone \/ Expire
  BY <1>0, <1>11 DEF WhenAny, EndWait, HandleGood, HandleBad, HandleNone, Expire, Retry
<1>12. ASSUME NEW r \in Requests, Answer(r) \/ Elapse(r) PROVE UNCHANGED <<dock, noted>>
  BY <1>12 DEF Answer, Elapse
<1>13. CASE UNCHANGED vars
  BY <1>0, <1>13 DEF vars
<1> QED
  BY <1>1, <1>2, <1>3, <1>5, <1>6, <1>7, <1>8, <1>9, <1>10, <1>11, <1>12, <1>13
     DEF Next, Caller, Attempt, Work, Ctxs
-------------------------------------------------------------------------------
\* Cleared() gives every request what it may have.
LEMMA ClearedType ==
  ASSUME TypeOK, NEW S \in SUBSET Requests, Cleared(S)
  PROVE  /\ attempted' \in [Requests -> SUBSET Servers]
         /\ future' \in [Requests -> {"none", "pending", "ready"}]
         /\ hinted' \subseteq requests \ S /\ observed' \subseteq Requests /\ old' \subseteq Requests
BY DEF TypeOK, Cleared

\* Every variable keeps its type.
LEMMA TypeStep == StartInv /\ [Next]_vars => TypeOK'
<1> SUFFICES ASSUME StartInv, [Next]_vars PROVE TypeOK'
  OBVIOUS
<1> USE FetchAssumption
<1>0. dock' \in Seq(Ctxs) /\ noted' \subseteq Waiting(dock)' /\ TypeOK /\ Users \subseteq Ctxs /\ Worker \in Ctxs
  BY DockStep DEF StartInv, Ctxs, Waiting
<1>1. ASSUME NEW u \in Users, NEW r \in Asks[u], Call(u, r)
      PROVE  TypeOK'
  BY <1>0, <1>1 DEF Call, TypeOK, request, States
<1>2. ASSUME NEW u \in Users, WakeCall(u)
      PROVE  TypeOK'
  BY <1>0, <1>2 DEF WakeCall, TypeOK, request, States
<1>3. ASSUME NEW u \in Users, Enter(u)
      PROVE  TypeOK'
  <2>1. want[u] \in Requests
    BY <1>3 DEF Enter, StartInv, WantInv
  <2>2. waiters' \in [Requests -> SUBSET Users]
    BY <1>0, <1>3, <2>1 DEF Enter, TypeOK
  <2>3. at' \in [Ctxs -> States] /\ owner' \in Ctxs \cup {NoCtx}
    BY <1>0, <1>3 DEF Enter, Leave, TypeOK, States
  <2>4. requests' \subseteq Requests /\ requests \subseteq requests' /\ hinted' \subseteq requests'
        /\ UNCHANGED <<attempted, future, observed, old>>
    BY <1>0, <1>3, <2>1 DEF Enter, TypeOK, request
  <2> QED BY <1>0, <1>3, <2>2, <2>3, <2>4 DEF Enter, TypeOK
<1>4. ASSUME NEW u \in Users, Abandon(u)
      PROVE  TypeOK'
  <2>1. want[u] \in Requests
    BY <1>4 DEF Abandon, StartInv, WantInv
  <2> QED BY <1>0, <1>4, <2>1 DEF Abandon, Done, TypeOK, request, States
<1>5. ASSUME NEW c \in Ctxs, Starting(c), Fails(c) PROVE TypeOK'
  <2> DEFINE E == IF at[c] = "retry" THEN {want[c]} ELSE {}
  <2>1. want[c] \in Unfinished /\ want[c] \in Requests
    BY <1>5, StartType
  <2>2. E \in SUBSET Requests /\ Cleared(E) /\ requests' = requests \ E
        /\ finished' = (finished \cup {want[c]}) \ E
    BY <1>5, <2>1 DEF Fails
  <2> HIDE DEF E
  <2>3. /\ attempted' \in [Requests -> SUBSET Servers]
        /\ future' \in [Requests -> {"none", "pending", "ready"}]
        /\ hinted' \subseteq requests \ E /\ observed' \subseteq Requests /\ old' \subseteq Requests
    BY <1>0, <2>2, ClearedType
  <2>4. /\ at' \in [Ctxs -> States]
        /\ want' \in [Ctxs -> Requests \cup {Unset}]
    BY <1>0, <1>5, <2>1 DEF Fails, Done, TypeOK, States
  <2>5. waiters' \in [Requests -> SUBSET Users] /\ todo' \subseteq Requests /\ owner' \in Ctxs \cup {NoCtx}
        /\ UNCHANGED <<armed, next>>
    BY <1>0, <1>5, <2>1 DEF Fails, Leave, TypeOK
  <2>6. requests' \subseteq Requests /\ finished' \subseteq requests' /\ hinted' \subseteq requests'
    BY <1>0, <2>1, <2>2, <2>3 DEF TypeOK, Unfinished
  <2> QED BY <1>0, <2>3, <2>4, <2>5, <2>6 DEF TypeOK
<1>6. ASSUME NEW c \in Ctxs, Start(c) PROVE TypeOK'
  <2>1. want[c] \in Unfinished /\ want[c] \in Requests
    BY <1>6, StartType DEF Start
  <2>2. PICK s \in Origins(want[c]) : attempted' = [attempted EXCEPT ![want[c]] = Tried(want[c], s)]
    BY <1>6 DEF Start
  <2>3. s \in Servers
    BY <1>6, <2>2, StartType DEF Start
  <2>4. attempted' \in [Requests -> SUBSET Servers]
    BY <1>0, <2>1, <2>2, <2>3 DEF TypeOK, Tried
  <2>5. /\ at' \in [Ctxs -> States]
        /\ want' \in [Ctxs -> Requests \cup {Unset}]
    <3>1. \/ at' = [at EXCEPT ![c] = "get"] /\ UNCHANGED want
          \/ Done(c, Awake(Unfinished), {}) \/ Done(c, "cleanup", {})
      BY <1>6 DEF Start
    <3> QED BY <1>0, <3>1 DEF Done, TypeOK, Awake, States
  <2>6. owner' \in Ctxs \cup {NoCtx} /\ armed' \subseteq Requests /\ next' \in Requests \cup {End, Unset}
    BY <1>0, <1>6 DEF Start, Leave, Return, TypeOK
  <2>7. future' = [future EXCEPT ![want[c]] = "pending"] /\ hinted' = hinted \ {want[c]}
        /\ observed' = observed \ {want[c]} /\ old' = old \ {want[c]}
        /\ UNCHANGED <<requests, finished, waiters, todo>>
    BY <1>6 DEF Start
  <2> QED BY <1>0, <2>1, <2>4, <2>5, <2>6, <2>7 DEF TypeOK
<1>7. ASSUME NEW c \in Ctxs, Refused(c) PROVE TypeOK'
  <2>1. CASE Fails(c)
    BY <1>5, <1>7, <2>1 DEF Refused
  <2>2. CASE ~Fails(c)
    <3>1. want[c] \in Requests
      BY <1>7, StartType DEF Refused
    <3>2. PICK s \in Origins(want[c]) :
            /\ attempted' = [attempted EXCEPT ![want[c]] = Tried(want[c], s)]
            /\ hinted' = hinted \ {want[c]}
            /\ UNCHANGED <<requests, finished, future, observed, old, waiters, at, want,
                           owner, armed, next, todo>>
      BY <1>7, <2>2 DEF Refused
    <3>3. s \in Servers
      BY <1>7, <3>2, StartType DEF Refused
    <3> QED BY <1>0, <3>1, <3>2, <3>3 DEF TypeOK, Tried
  <2> QED BY <2>1, <2>2
<1>8. ASSUME NEW c \in Ctxs, NotFound(c) PROVE TypeOK'
  BY <1>5, <1>8 DEF NotFound
<1>9. CASE WakeWorker
  BY <1>0, <1>9 DEF WakeWorker, Awake, TypeOK, others, request, States
<1>10. CASE WhenAny
  BY <1>0, <1>10 DEF WhenAny, TypeOK, States
<1>11. CASE EndWait \/ HandleNone
  BY <1>0, <1>11 DEF EndWait, HandleNone, Expired, Unfinished, TypeOK, others, request, States
<1>12. CASE HandleGood
  <2>1. next \in Requests /\ next \notin finished
    BY <1>0, <1>12 DEF HandleGood, StartInv, AnyInv, WantInv, TypeOK, Unfinished
  <2>2. /\ attempted' \in [Requests -> SUBSET Servers]
        /\ future' \in [Requests -> {"none", "pending", "ready"}]
        /\ hinted' \subseteq requests \ {next} /\ observed' \subseteq Requests /\ old' \subseteq Requests
    BY <1>0, <1>12, <2>1, ClearedType DEF HandleGood
  <2>3. /\ at' \in [Ctxs -> States]
        /\ want' \in [Ctxs -> Requests \cup {Unset}]
    BY <1>0, <1>12 DEF HandleGood, Done, TypeOK, States
  <2> QED BY <1>0, <1>12, <2>1, <2>2, <2>3 DEF HandleGood, Expired, Unfinished, TypeOK
<1>13. CASE HandleBad
  <2>1. next \in Requests
    BY <1>0, <1>13 DEF HandleBad, StartInv, AnyInv, TypeOK
  <2> QED BY <1>0, <1>13, <2>1 DEF HandleBad, Retry, TypeOK, States
<1>14. CASE Expire
  BY <1>0, <1>14 DEF Expire, Retry, TypeOK, States
<1>15. CASE Erase
  <2>1. /\ attempted' \in [Requests -> SUBSET Servers]
        /\ future' \in [Requests -> {"none", "pending", "ready"}]
        /\ hinted' \subseteq requests \ finished /\ observed' \subseteq Requests /\ old' \subseteq Requests
    BY <1>0, <1>15, ClearedType DEF Erase, TypeOK
  <2>3. /\ at' \in [Ctxs -> States]
        /\ want' \in [Ctxs -> Requests \cup {Unset}]
    BY <1>0, <1>15 DEF Erase, Done, Awake, TypeOK, States
  <2> QED BY <1>0, <1>15, <2>1, <2>3 DEF Erase, Return, Unfinished, TypeOK
<1>16. ASSUME NEW r \in Requests, Answer(r) \/ Elapse(r) PROVE TypeOK'
  <2>1. CASE Answer(r)
    BY <1>0, <1>16, <2>1 DEF Answer, TypeOK
  <2>2. CASE Elapse(r)
    BY <1>0, <1>16, <2>2 DEF Elapse, TypeOK
  <2> QED BY <1>16, <2>1, <2>2
<1>17. CASE UNCHANGED vars
  BY <1>0, <1>17 DEF vars, request, TypeOK
<1> QED
  BY <1>1, <1>2, <1>3, <1>4, <1>6, <1>7, <1>8, <1>9, <1>10, <1>11, <1>12, <1>13, <1>14,
     <1>15, <1>16, <1>17
     DEF Next, Caller, Attempt, Work, Ctxs

\* requests_mutex: each step keeps OwnerInv.
LEMMA OwnerStep == StartInv /\ [Next]_vars => OwnerInv'
<1> SUFFICES ASSUME StartInv, [Next]_vars PROVE OwnerInv'
  OBVIOUS
<1> USE FetchAssumption DEF StartInv, TypeOK, Ctxs, States, request
<1>1. ASSUME NEW u \in Users, NEW r \in Asks[u], Call(u, r) PROVE OwnerInv'
  BY <1>1 DEF Call, OwnerInv, CallerStates
<1>2. ASSUME NEW u \in Users, WakeCall(u) PROVE OwnerInv'
  BY <1>2 DEF WakeCall, OwnerInv, CallerStates
<1>3. ASSUME NEW u \in Users, Enter(u) PROVE OwnerInv'
  <2>1. \/ at' = [at EXCEPT ![u] = "get"] /\ owner' = NoCtx
        \/ at' = [at EXCEPT ![u] = "start"] /\ owner' = u
    BY <1>3 DEF Enter, Leave
  <2>2. owner = NoCtx /\ at[u] = "lock"
    BY <1>3 DEF Enter
  <2>3. u # Worker /\ u # NoCtx
    OBVIOUS
  <2>4. CASE at' = [at EXCEPT ![u] = "get"] /\ owner' = NoCtx
    BY <1>3, <2>2, <2>3, <2>4 DEF OwnerInv, CallerStates, WorkerStates
  <2>5. CASE at' = [at EXCEPT ![u] = "start"] /\ owner' = u
    BY <1>3, <2>2, <2>3, <2>5 DEF OwnerInv, CallerStates, WorkerStates
  <2> QED BY <2>1, <2>4, <2>5
<1>4. ASSUME NEW u \in Users, Abandon(u) PROVE OwnerInv'
  BY <1>4 DEF Abandon, Done, OwnerInv, CallerStates
<1>5. ASSUME NEW c \in Ctxs, Starting(c), Fails(c) PROVE OwnerInv'
  <2>1. want[c] \in Unfinished /\ want[c] \in Requests /\ future[want[c]] = "none"
        /\ IF c = Worker THEN at[c] \in {"retry", "expire"} ELSE at[c] = "start" /\ c \in Users
    BY <1>5, StartType
  <2> QED BY <1>5, <2>1 DEF Fails, Done, Leave, OwnerInv, CallerStates, WorkerStates
<1>6. ASSUME NEW c \in Ctxs, Start(c) PROVE OwnerInv'
  <2>1. want[c] \in Unfinished /\ want[c] \in Requests /\ future[want[c]] = "none"
        /\ IF c = Worker THEN at[c] \in {"retry", "expire"} ELSE at[c] = "start" /\ c \in Users
    BY <1>6, StartType DEF Start
  <2>2. owner = c
    BY <1>6 DEF Start, Starting
  <2>3. CASE c \in Users
    <3>1. at' = [at EXCEPT ![c] = "get"] /\ owner' = NoCtx
      BY <1>6, <2>1, <2>3 DEF Start, Leave
    <3> QED BY <2>2, <2>3, <3>1 DEF OwnerInv, CallerStates, WorkerStates
  <2>4. CASE c = Worker /\ at[c] = "retry"
    <3>1. at' = [x \in Ctxs |-> IF x = Worker THEN Awake(Unfinished) ELSE at[x]] /\ owner' = NoCtx
      BY <1>6, <2>4 DEF Start, Done, Return
    <3> QED BY <2>2, <2>4, <3>1 DEF OwnerInv, WorkerStates, Awake
  <2>5. CASE c = Worker /\ at[c] = "expire"
    <3>1. at' = [x \in Ctxs |-> IF x = Worker THEN "cleanup" ELSE at[x]] /\ owner' = owner
      BY <1>6, <2>5 DEF Start, Done
    <3> QED BY <2>2, <2>5, <3>1 DEF OwnerInv, CallerStates, WorkerStates
  <2> QED BY <2>1, <2>3, <2>4, <2>5
<1>7. ASSUME NEW c \in Ctxs, Refused(c), ~Fails(c) PROVE OwnerInv'
  <2>1. want[c] \in Unfinished /\ want[c] \in Requests /\ future[want[c]] = "none"
        /\ IF c = Worker THEN at[c] \in {"retry", "expire"} ELSE at[c] = "start" /\ c \in Users
    BY <1>7, StartType DEF Refused
  <2> QED BY <1>7, <2>1 DEF Refused, OwnerInv
<1>8. CASE WakeWorker
  BY <1>8 DEF WakeWorker, Awake, OwnerInv, WorkerStates
<1>9. CASE WhenAny
  BY <1>9 DEF WhenAny, OwnerInv, WorkerStates
<1>10. CASE EndWait \/ HandleNone
  <2>1. CASE EndWait
    BY <2>1 DEF EndWait, Locks, OwnerInv, CallerStates, WorkerStates
  <2>2. CASE HandleNone
    BY <2>2 DEF HandleNone, Locks, OwnerInv, CallerStates, WorkerStates
  <2> QED BY <1>10, <2>1, <2>2
<1>11. CASE HandleGood
  BY <1>11 DEF HandleGood, Done, Locks, OwnerInv, CallerStates, WorkerStates
<1>12. CASE HandleBad
  BY <1>12 DEF HandleBad, Retry, Locks, OwnerInv, WorkerStates
<1>13. CASE Expire
  BY <1>13 DEF Expire, Retry, OwnerInv, WorkerStates
<1>14. CASE Erase
  BY <1>14 DEF Erase, Done, Return, Awake, OwnerInv, CallerStates, WorkerStates
<1>15. ASSUME NEW r \in Requests, Answer(r) PROVE OwnerInv'
  BY <1>15 DEF Answer, OwnerInv
<1>16. ASSUME NEW r \in Requests, Elapse(r) PROVE OwnerInv'
  BY <1>16 DEF Elapse, OwnerInv
<1>17. CASE UNCHANGED vars
  BY <1>17 DEF vars, OwnerInv
<1> QED
  BY <1>1, <1>2, <1>3, <1>4, <1>5, <1>6, <1>7, <1>8, <1>9, <1>10, <1>11, <1>12, <1>13, <1>14, <1>15, <1>16, <1>17
     DEF Next, Caller, Attempt, Work, Refused, NotFound

\* What the callers want: each step keeps WantInv.
LEMMA WantStep == StartInv /\ [Next]_vars => WantInv'
<1> SUFFICES ASSUME StartInv, [Next]_vars PROVE WantInv'
  OBVIOUS
<1> USE FetchAssumption DEF StartInv, TypeOK, Ctxs, States, request
<1>1. ASSUME NEW u \in Users, NEW r \in Asks[u], Call(u, r) PROVE WantInv'
  BY <1>1 DEF Call, WantInv, Starting, Unfinished
<1>2. ASSUME NEW u \in Users, WakeCall(u) PROVE WantInv'
  BY <1>2 DEF WakeCall, WantInv, Starting, Unfinished
<1>3. ASSUME NEW u \in Users, Enter(u) PROVE WantInv'
  BY <1>3 DEF Enter, WantInv, Starting, Unfinished
<1>4. ASSUME NEW u \in Users, Abandon(u) PROVE WantInv'
  BY <1>4 DEF Abandon, Done, WantInv, Starting, Unfinished
<1>5. ASSUME NEW c \in Ctxs, Starting(c), Fails(c) PROVE WantInv'
  <2>1. want[c] \in Unfinished /\ want[c] \in Requests /\ future[want[c]] = "none"
        /\ IF c = Worker THEN at[c] \in {"retry", "expire"} ELSE at[c] = "start" /\ c \in Users
    BY <1>5, StartType
  <2> DEFINE r == want[c]
             E == IF at[c] = "retry" THEN {r} ELSE {}
  <2>2. /\ at' = [x \in Ctxs |-> IF x = c THEN at'[c] ELSE IF x \in waiters[r] THEN "idle" ELSE at[x]]
        /\ at'[c] \in {"idle", "cleanup"} /\ (c \in Users => at'[c] = "idle")
        /\ want' = [x \in Ctxs |-> IF x \in waiters[r] \cup {c} THEN Unset ELSE want[x]]
        /\ waiters' = [waiters EXCEPT ![r] = {}]
        /\ requests' = requests \ E /\ finished' = (finished \cup {r}) \ E
        /\ future' = [x \in Requests |-> IF x \in E THEN "none" ELSE future[x]]
    BY <1>5, <2>1 DEF Fails, Done, Cleared
  <2>3. owner = c /\ \A d \in Ctxs : at[d] \in {"start", "retry", "expire"} => d = c
    BY <1>5, <2>1 DEF Starting, OwnerInv, CallerStates, WorkerStates
  <2>4. (requests' \ finished') = Unfinished \ {r} /\ future' = future
    BY <2>1, <2>2 DEF Unfinished
  <2>5. \A x \in Unfinished : x # r => future[x] # "none"
    BY <2>3 DEF WantInv
  <2>6. \A d \in Ctxs : at'[d] \notin {"start", "retry", "expire"}
    BY <2>2, <2>3
  <2>7. \A u \in Users : at'[u] # "idle" => at'[u] = at[u] /\ want'[u] = want[u] /\ u \notin waiters[r]
    BY <2>2
  <2> HIDE DEF r, E
  <2> QED BY <2>1, <2>2, <2>4, <2>5, <2>6, <2>7 DEF WantInv, Unfinished, E
<1>6. ASSUME NEW c \in Ctxs, Start(c) PROVE WantInv'
  <2>1. want[c] \in Unfinished /\ want[c] \in Requests /\ future[want[c]] = "none"
        /\ IF c = Worker THEN at[c] \in {"retry", "expire"} ELSE at[c] = "start" /\ c \in Users
    BY <1>6, StartType DEF Start
  <2>2. /\ future' = [future EXCEPT ![want[c]] = "pending"]
        /\ UNCHANGED <<requests, finished, waiters>>
        /\ \/ /\ c \in Users /\ at[c] = "start" /\ at' = [at EXCEPT ![c] = "get"] /\ UNCHANGED want
           \/ /\ c = Worker /\ at'[c] \in {"lock", "asleep", "cleanup"}
              /\ at' = [x \in Ctxs |-> IF x = Worker THEN at'[c] ELSE at[x]]
              /\ want' = [x \in Ctxs |-> IF x = Worker THEN Unset ELSE want[x]]
    BY <1>6, <2>1 DEF Start, Done, Awake
  <2>3. owner = c /\ \A d \in Ctxs : at[d] \in {"start", "retry", "expire"} => d = c
    BY <1>6, <2>1 DEF Start, Starting, OwnerInv, CallerStates, WorkerStates
  <2>4. \A r \in Unfinished : r # want[c] => future[r] # "none"
    BY <2>3 DEF WantInv
  <2>5. \A d \in Ctxs : at'[d] \notin {"start", "retry", "expire"}
    BY <2>2, <2>3
  <2>6. \A r \in Requests : future'[r] = "none" => r # want[c] /\ future[r] = "none"
    BY <2>1, <2>2
  <2>7. \A u \in Users : at'[u] # "idle" => want'[u] = want[u] /\ (at'[u] = "get" => at[u] \in {"start", "get"})
    BY <2>2
  <2> QED BY <2>1, <2>2, <2>4, <2>5, <2>6, <2>7 DEF WantInv, Unfinished
<1>7. ASSUME NEW c \in Ctxs, Refused(c), ~Fails(c) PROVE WantInv'
  <2>1. want[c] \in Unfinished /\ want[c] \in Requests /\ future[want[c]] = "none"
        /\ IF c = Worker THEN at[c] \in {"retry", "expire"} ELSE at[c] = "start" /\ c \in Users
    BY <1>7, StartType DEF Refused
  <2> QED BY <1>7, <2>1 DEF Refused, WantInv, Starting, Unfinished
<1>8. CASE WakeWorker
  BY <1>8 DEF WakeWorker, Awake, others, WantInv, Starting, Unfinished
<1>9. CASE WhenAny
  BY <1>9 DEF WhenAny, WantInv, Unfinished
<1>10. CASE EndWait \/ HandleNone
  BY <1>10 DEF EndWait, HandleNone, Locks, others, WantInv, Starting, Unfinished
<1>11. CASE HandleGood
  <2>1. next \in Requests /\ next \in Unfinished /\ owner \in {NoCtx, Worker} /\ at[Worker] = "any"
    BY <1>11 DEF HandleGood, Locks, AnyInv, WantInv
  <2>2. /\ at' = [x \in Ctxs |-> IF x = Worker THEN "cleanup" ELSE IF x \in waiters[next] THEN "idle" ELSE at[x]]
        /\ want' = [x \in Ctxs |-> IF x \in waiters[next] \cup {Worker} THEN Unset ELSE want[x]]
        /\ future' = [r \in Requests |-> IF r = next THEN "none" ELSE future[r]]
        /\ waiters' = [waiters EXCEPT ![next] = {}]
        /\ requests' = requests \ {next} /\ finished' = finished /\ owner' = Worker
    BY <1>11 DEF HandleGood, Done, Cleared
  <2>3. \A u \in Users : at'[u] # "idle" => at'[u] = at[u] /\ want'[u] = want[u] /\ u \notin waiters[next]
    BY <2>2
  <2>4. \A u \in Users : at[u] # "start" /\ at[u] \notin {"retry", "expire"}
    BY <2>1 DEF OwnerInv, CallerStates
  <2>5. \A r \in Unfinished : future[r] # "none"
    BY <2>1, <2>4 DEF WantInv, Starting
  <2> QED BY <2>1, <2>2, <2>3, <2>4, <2>5 DEF WantInv, Unfinished
<1>12. CASE HandleBad
  BY <1>12 DEF HandleBad, Retry, Locks, WantInv, AnyInv, Starting, Unfinished
<1>13. CASE Expire
  BY <1>13 DEF Expire, Retry, OwnerInv, WantInv, TodoInv, Starting, Unfinished
<1>14. CASE Erase
  BY <1>14 DEF Erase, Done, Cleared, Awake, OwnerInv, WantInv, Starting, Unfinished
<1>15. ASSUME NEW r \in Requests, Answer(r) PROVE WantInv'
  BY <1>15 DEF Answer, WantInv, Starting, Unfinished
<1>16. ASSUME NEW r \in Requests, Elapse(r) PROVE WantInv'
  BY <1>16 DEF Elapse, WantInv, Starting, Unfinished
<1>17. CASE UNCHANGED vars
  BY <1>17 DEF vars, WantInv, Starting, Unfinished
<1> QED
  BY <1>1, <1>2, <1>3, <1>4, <1>5, <1>6, <1>7, <1>8, <1>9, <1>10, <1>11, <1>12, <1>13, <1>14, <1>15, <1>16, <1>17
     DEF Next, Caller, Attempt, Work, Refused, NotFound

\* What the cleanup has still to do: each step keeps TodoInv.
LEMMA TodoStep == StartInv /\ [Next]_vars => TodoInv'
<1> SUFFICES ASSUME StartInv, [Next]_vars PROVE TodoInv'
  OBVIOUS
<1> USE FetchAssumption DEF StartInv, TypeOK, Ctxs, States, request
<1>1. ASSUME NEW u \in Users, NEW r \in Asks[u], Call(u, r) PROVE TodoInv'
  BY <1>1 DEF Call, TodoInv, Unfinished
<1>2. ASSUME NEW u \in Users, WakeCall(u) PROVE TodoInv'
  BY <1>2 DEF WakeCall, TodoInv, Unfinished
<1>3. ASSUME NEW u \in Users, Enter(u) PROVE TodoInv'
  BY <1>3 DEF Enter, TodoInv, Unfinished
<1>4. ASSUME NEW u \in Users, Abandon(u) PROVE TodoInv'
  BY <1>4 DEF Abandon, Done, TodoInv, Unfinished
<1>5. ASSUME NEW c \in Ctxs, Starting(c), Fails(c) PROVE TodoInv'
  <2>1. want[c] \in Unfinished /\ want[c] \in Requests /\ future[want[c]] = "none"
        /\ IF c = Worker THEN at[c] \in {"retry", "expire"} ELSE at[c] = "start" /\ c \in Users
    BY <1>5, StartType
  <2> QED BY <1>5, <2>1 DEF Fails, Done, TodoInv, OwnerInv, Unfinished
<1>6. ASSUME NEW c \in Ctxs, Start(c) PROVE TodoInv'
  <2>1. want[c] \in Unfinished /\ want[c] \in Requests /\ future[want[c]] = "none"
        /\ IF c = Worker THEN at[c] \in {"retry", "expire"} ELSE at[c] = "start" /\ c \in Users
    BY <1>6, StartType DEF Start
  <2> QED BY <1>6, <2>1 DEF Start, Done, TodoInv, Unfinished
<1>7. ASSUME NEW c \in Ctxs, Refused(c), ~Fails(c) PROVE TodoInv'
  <2>1. want[c] \in Unfinished /\ want[c] \in Requests /\ future[want[c]] = "none"
        /\ IF c = Worker THEN at[c] \in {"retry", "expire"} ELSE at[c] = "start" /\ c \in Users
    BY <1>7, StartType DEF Refused
  <2> QED BY <1>7, <2>1 DEF Refused, TodoInv, Unfinished
<1>8. CASE WakeWorker
  BY <1>8 DEF WakeWorker, TodoInv
<1>9. CASE WhenAny
  BY <1>9 DEF WhenAny, TodoInv
<1>10. CASE EndWait \/ HandleNone
  BY <1>10 DEF EndWait, HandleNone, Expired, others, TodoInv, Unfinished
<1>11. CASE HandleGood
  BY <1>11 DEF HandleGood, Done, Expired, TodoInv, Unfinished
<1>12. CASE HandleBad
  BY <1>12 DEF HandleBad, TodoInv
<1>13. CASE Expire
  BY <1>13 DEF Expire, Retry, TodoInv, Unfinished
<1>14. CASE Erase
  BY <1>14 DEF Erase, TodoInv
<1>15. ASSUME NEW r \in Requests, Answer(r) PROVE TodoInv'
  BY <1>15 DEF Answer, TodoInv, Unfinished
<1>16. ASSUME NEW r \in Requests, Elapse(r) PROVE TodoInv'
  BY <1>16 DEF Elapse, TodoInv, Unfinished
<1>17. CASE UNCHANGED vars
  BY <1>17 DEF vars, TodoInv, Unfinished
<1> QED
  BY <1>1, <1>2, <1>3, <1>4, <1>5, <1>6, <1>7, <1>8, <1>9, <1>10, <1>11, <1>12, <1>13, <1>14, <1>15, <1>16, <1>17
     DEF Next, Caller, Attempt, Work, Refused, NotFound

\* What when_any() watches: each step keeps AnyInv.
LEMMA AnyStep == StartInv /\ [Next]_vars => AnyInv'
<1> SUFFICES ASSUME StartInv, [Next]_vars PROVE AnyInv'
  OBVIOUS
<1> USE FetchAssumption DEF StartInv, TypeOK, Ctxs, States, request
<1>1. ASSUME NEW u \in Users, NEW r \in Asks[u], Call(u, r) PROVE AnyInv'
  BY <1>1 DEF Call, AnyInv
<1>2. ASSUME NEW u \in Users, WakeCall(u) PROVE AnyInv'
  BY <1>2 DEF WakeCall, AnyInv
<1>3. ASSUME NEW u \in Users, Enter(u) PROVE AnyInv'
  BY <1>3 DEF Enter, AnyInv
<1>4. ASSUME NEW u \in Users, Abandon(u) PROVE AnyInv'
  BY <1>4 DEF Abandon, Done, AnyInv
<1>5. ASSUME NEW c \in Ctxs, Starting(c), Fails(c) PROVE AnyInv'
  <2>1. want[c] \in Unfinished /\ want[c] \in Requests /\ future[want[c]] = "none"
        /\ IF c = Worker THEN at[c] \in {"retry", "expire"} ELSE at[c] = "start" /\ c \in Users
    BY <1>5, StartType
  <2> QED BY <1>5, <2>1 DEF Fails, Done, Cleared, AnyInv
<1>6. ASSUME NEW c \in Ctxs, Start(c) PROVE AnyInv'
  <2>1. want[c] \in Unfinished /\ want[c] \in Requests /\ future[want[c]] = "none"
        /\ IF c = Worker THEN at[c] \in {"retry", "expire"} ELSE at[c] = "start" /\ c \in Users
    BY <1>6, StartType DEF Start
  <2> QED BY <1>6, <2>1 DEF Start, Done, Return, Awake, AnyInv
<1>7. ASSUME NEW c \in Ctxs, Refused(c), ~Fails(c) PROVE AnyInv'
  <2>1. want[c] \in Unfinished /\ want[c] \in Requests /\ future[want[c]] = "none"
        /\ IF c = Worker THEN at[c] \in {"retry", "expire"} ELSE at[c] = "start" /\ c \in Users
    BY <1>7, StartType DEF Refused
  <2> QED BY <1>7, <2>1 DEF Refused, AnyInv
<1>8. CASE WakeWorker
  BY <1>8 DEF WakeWorker, Awake, AnyInv
<1>9. CASE WhenAny
  BY <1>9 DEF WhenAny, Ready, AnyInv
<1>10. CASE EndWait \/ HandleNone
  BY <1>10 DEF EndWait, HandleNone, others, AnyInv
<1>11. CASE HandleGood
  BY <1>11 DEF HandleGood, Done, AnyInv
<1>12. CASE HandleBad
  BY <1>12 DEF HandleBad, Retry, AnyInv
<1>13. CASE Expire
  BY <1>13 DEF Expire, Retry, AnyInv
<1>14. CASE Erase
  BY <1>14 DEF Erase, Done, Return, Awake, AnyInv
<1>15. ASSUME NEW r \in Requests, Answer(r) PROVE AnyInv'
  BY <1>15 DEF Answer, AnyInv
<1>16. ASSUME NEW r \in Requests, Elapse(r) PROVE AnyInv'
  BY <1>16 DEF Elapse, AnyInv
<1>17. CASE UNCHANGED vars
  BY <1>17 DEF vars, AnyInv
<1> QED
  BY <1>1, <1>2, <1>3, <1>4, <1>5, <1>6, <1>7, <1>8, <1>9, <1>10, <1>11, <1>12, <1>13, <1>14, <1>15, <1>16, <1>17
     DEF Next, Caller, Attempt, Work, Refused, NotFound
-------------------------------------------------------------------------------
\* Who holds requests_mutex, what the callers want and what the worker has still
\* to do agree with each other in every state.
THEOREM StartInvariant == Spec => []StartInv
<1>1. StartInv /\ [Next]_vars => StartInv'
  BY TypeStep, OwnerStep, WantStep, TodoStep, AnyStep DEF StartInv
<1> QED BY <1>1, InitInv, PTL DEF Spec

\* Whenever requests_mutex is free, every unfinished request has a server to wait
\* for, and the futures of the callers are those of requests in the set.
THEOREM RequestsUnderway == Spec => []FetchInv
<1>1. StartInv => FetchInv
  BY FetchAssumption DEF StartInv, FetchInv, Underway, WantInv, Ctxs
<1> QED BY <1>1, StartInvariant, PTL

\* start(request) without a limit gives up only when every server of the room was
\* tried, except those in error, whatever mixture of failures led there.
THEOREM ServersExhausted == Spec => Exhausted
<1> DEFINE Gives == \A c \in Ctxs :
        Starting(c) /\ AttemptLimit[want[c]] = 0 /\ ~Starting(c)' /\ want[c] \notin Unfinished'
            => Servers \ Errant \subseteq attempted[want[c]]
<1>1. ASSUME StartInv, Next, NEW c \in Ctxs, Starting(c), AttemptLimit[want[c]] = 0,
             ~Starting(c)', want[c] \notin Unfinished'
      PROVE  Servers \ Errant \subseteq attempted[want[c]]
  <2>1. /\ want[c] \in Unfinished /\ want[c] \in Requests
        /\ IF c = Worker THEN at[c] \in {"retry", "expire"} ELSE at[c] = "start" /\ c \in Users
        /\ owner = c
    BY <1>1, StartType DEF Starting
  <2>2. CASE NotFound(c)
    BY <2>2 DEF NotFound
  <2>3. ASSUME ~NotFound(c) PROVE want[c] \in Unfinished'
    <3>1. \A d \in Ctxs : d # c => ~Attempt(d)
      BY <2>1 DEF Attempt, Start, Refused, NotFound, Starting
    <3>2. ASSUME Refused(c) PROVE want[c] \in Unfinished'
      BY <1>1, <2>1, <3>2 DEF Refused, Limited, Unfinished
    <3>3. ASSUME Start(c) PROVE want[c] \in Unfinished'
      BY <2>1, <3>3 DEF Start, Unfinished
    <3>4. ASSUME NEW u \in Users, WakeCall(u) \/ Abandon(u) \/ \E r \in Asks[u] : Call(u, r)
          PROVE  want[c] \in Unfinished'
      BY <2>1, <3>4 DEF WakeCall, Abandon, Call, Unfinished
    <3>5. \A u \in Users : ~Enter(u)
      BY <2>1, FetchAssumption DEF Enter, Ctxs
    <3>6. CASE WakeWorker \/ WhenAny \/ EndWait
      BY <2>1, <3>6 DEF WakeWorker, WhenAny, EndWait, others, Unfinished
    <3>7. ~HandleGood /\ ~HandleBad /\ ~HandleNone /\ ~Expire /\ ~Erase
      BY <1>1, <2>1, FetchAssumption
         DEF HandleGood, HandleBad, HandleNone, Expire, Erase, Locks, Ctxs, StartInv, OwnerInv
    <3>8. ASSUME NEW r \in Requests, Answer(r) \/ Elapse(r) PROVE want[c] \in Unfinished'
      BY <2>1, <3>8 DEF Answer, Elapse, Unfinished
    <3> HIDE DEF Gives
    <3> QED
      BY <1>1, <2>3, <3>1, <3>2, <3>3, <3>4, <3>5, <3>6, <3>7, <3>8
         DEF Next, Caller, Attempt, Work, Ctxs
  <2> QED BY <1>1, <2>2, <2>3
<1>2. StartInv /\ [Next]_vars => [Gives]_vars
  BY <1>1
<1> QED BY <1>2, StartInvariant, PTL DEF Spec, Exhausted
=============================================================================
