---------------------------- MODULE MutexProofs -----------------------------
(***************************************************************************)
(* No wakeup is lost by ircd::ctx::mutex, for any number of contexts.      *)
(*                                                                         *)
(* MutexInv is inductive.  Its core is NoLostWakeup; it needs QueueExact   *)
(* and MutualExclusion because a context must leave the dock exactly when  *)
(* its wait ends, and only the owner may free the mutex.                   *)
(***************************************************************************)
EXTENDS Mutex, TLAPS

-----------------------------------------------------------------------------
(***************************************************************************)
(* What joining and leaving the dock do to it.                             *)
(***************************************************************************)

\* No context is twice in the dock s.
Once(s) == \A i, j \in 1..Len(s) : s[i] = s[j] => i = j

\* list::remove() of a member closes the gap at its place.
LEMMA RemoveAt ==
    ASSUME NEW S, NEW s \in Seq(S), NEW c \in Waiting(s)
    PROVE  /\ Len(s) - 1 \in Nat
           /\ Remove(s, c) \in Seq(S) /\ Len(Remove(s, c)) = Len(s) - 1
           /\ \E x \in 1..Len(s) :
                /\ s[x] = c
                /\ \A k \in 1..(Len(s) - 1) :
                    Remove(s, c)[k] = IF k < x THEN s[k] ELSE s[k + 1]
  <1> DEFINE x == CHOOSE k \in 1..Len(s) : s[k] = c
             r == [k \in 1..(Len(s) - 1) |-> IF k < x THEN s[k] ELSE s[k + 1]]
  <1>1. x \in 1..Len(s) /\ s[x] = c
    BY DEF Waiting
  <1>2. Len(s) \in Nat /\ Len(s) - 1 \in Nat /\ \A k \in 1..Len(s) : s[k] \in S
    BY <1>1
  <1>3. Remove(s, c) = r
    BY DEF Remove
  <1> HIDE DEF x
  <1>4. r \in Seq(S) /\ Len(r) = Len(s) - 1
    BY <1>1, <1>2
  <1>5. \A k \in 1..(Len(s) - 1) : r[k] = IF k < x THEN s[k] ELSE s[k + 1]
    BY <1>4
  <1> QED BY <1>1, <1>2, <1>3, <1>4, <1>5

\* It leaves at least all others.
LEMMA RemoveRest ==
    ASSUME NEW S, NEW s \in Seq(S), NEW c \in Waiting(s)
    PROVE  /\ Remove(s, c) \in Seq(S) /\ Len(Remove(s, c)) = Len(s) - 1
           /\ Waiting(Remove(s, c)) \subseteq Waiting(s)
           /\ Waiting(s) \ {c} \subseteq Waiting(Remove(s, c))
  <1> DEFINE r == Remove(s, c)
  <1>1. Len(s) \in Nat /\ Len(s) - 1 \in Nat /\ r \in Seq(S) /\ Len(r) = Len(s) - 1
    BY RemoveAt
  <1>2. PICK x \in 1..Len(s) :
            s[x] = c /\ \A k \in 1..Len(r) : r[k] = IF k < x THEN s[k] ELSE s[k + 1]
    BY <1>1, RemoveAt
  <1> HIDE DEF r
  <1>3. Waiting(r) \subseteq Waiting(s)
    BY <1>1, <1>2 DEF Waiting
  <1>4. ASSUME NEW d \in Waiting(s), d # c PROVE d \in Waiting(r)
    <2>1. PICK k \in 1..Len(s) : s[k] = d
      BY DEF Waiting
    <2>2. CASE k < x
      BY <1>1, <1>2, <2>1, <2>2 DEF Waiting
    <2>3. CASE k > x
      <3>1. k - 1 \in 1..Len(r) /\ r[k - 1] = d
        BY <1>1, <1>2, <2>1, <2>3
      <3> QED BY <3>1 DEF Waiting
    <2> QED BY <1>2, <1>4, <2>1, <2>2, <2>3
  <1> QED BY <1>1, <1>3, <1>4 DEF r

\* Of a dock in which no context is twice it leaves exactly the others.
LEMMA RemoveFacts ==
    ASSUME NEW S, NEW s \in Seq(S), NEW c \in Waiting(s), Once(s)
    PROVE  /\ Remove(s, c) \in Seq(S) /\ Once(Remove(s, c))
           /\ Waiting(Remove(s, c)) = Waiting(s) \ {c}
  <1> DEFINE r == Remove(s, c)
  <1>1. Len(s) \in Nat /\ Len(s) - 1 \in Nat /\ r \in Seq(S) /\ Len(r) = Len(s) - 1
    BY RemoveAt
  <1>2. PICK x \in 1..Len(s) :
            s[x] = c /\ \A k \in 1..Len(r) : r[k] = IF k < x THEN s[k] ELSE s[k + 1]
    BY <1>1, RemoveAt
  <1>3. Waiting(r) \subseteq Waiting(s) /\ Waiting(s) \ {c} \subseteq Waiting(r)
    BY RemoveRest
  <1> HIDE DEF r
  <1>4. Once(r)
    BY <1>1, <1>2 DEF Once
  <1>5. c \notin Waiting(r)
    BY <1>1, <1>2 DEF Waiting, Once
  <1> QED BY <1>1, <1>3, <1>4, <1>5 DEF r

\* Joining a dock in which the context is not.
LEMMA AppendFacts ==
    ASSUME NEW S, NEW s \in Seq(S), NEW c \in S, c \notin Waiting(s), Once(s)
    PROVE  /\ Append(s, c) \in Seq(S) /\ Once(Append(s, c))
           /\ Waiting(Append(s, c)) = Waiting(s) \cup {c}
  BY DEF Waiting, Once

-----------------------------------------------------------------------------
(***************************************************************************)
(* The inductive invariant.                                                *)
(***************************************************************************)

\* The initial state.
LEMMA InitInv == Init => MutexInv
  BY CtxsAssumption
  DEF Init, MutexInv, TypeOK, MutualExclusion, QueueExact, NoLostWakeup, Waiting

\* A context whose wait is over takes the mutex.
LEMMA WaitReturnInv ==
    ASSUME MutexInv, NEW c \in Ctxs, pc[c] = "waiting", WaitReturn(c)
    PROVE  MutexInv'
  <1> USE DEF MutexInv, TypeOK, MutualExclusion, QueueExact, NoLostWakeup, WaitReturn
  <1>1. c \in Waiting(q)
    OBVIOUS
  <1>2. /\ q' \in Seq(Ctxs) /\ Waiting(q') = Waiting(q) \ {c}
        /\ \A i, j \in 1..Len(q') : q'[i] = q'[j] => i = j
    BY <1>1, RemoveFacts DEF Once
  <1>3. Waiting(q)' = Waiting(q')
    BY DEF Waiting
  <1> QED BY <1>2, <1>3, CtxsAssumption

\* A context leaves the dock without the mutex, which is locked, or the new
\* front of the dock gets a note.
LEMMA WaitAbandonInv ==
    ASSUME MutexInv, NEW c \in Ctxs, pc[c] = "waiting",
           q' = Remove(q, c), noted' \subseteq Ctxs, noted \ {c} \subseteq noted',
           pc' = [pc EXCEPT ![c] = "idle"], UNCHANGED <<m, timed>>,
           m # NoCtx \/ NotifyOne(q') \subseteq noted'
    PROVE  MutexInv'
  <1> USE DEF MutexInv, TypeOK, MutualExclusion, QueueExact
  <1>1. c \in Waiting(q)
    OBVIOUS
  <1>2. /\ q' \in Seq(Ctxs) /\ Waiting(q') = Waiting(q) \ {c}
        /\ \A i, j \in 1..Len(q') : q'[i] = q'[j] => i = j
    BY <1>1, RemoveFacts DEF Once
  <1>3. Waiting(q)' = Waiting(q')
    BY DEF Waiting
  <1>4. NoLostWakeup'
    BY DEF NoLostWakeup, NotifyOne
  <1> QED BY <1>2, <1>3, <1>4

\* MutexInv is inductive.
LEMMA StepInv == MutexInv /\ [Next]_vars => MutexInv'
  <1> SUFFICES ASSUME MutexInv, [Next]_vars PROVE MutexInv'
    OBVIOUS
  <1> USE DEF MutexInv
  <1>1. CASE UNCHANGED vars
    BY <1>1 DEF vars, TypeOK, MutualExclusion, QueueExact, NoLostWakeup, Waiting
  <1>2. ASSUME NEW c \in Ctxs, LockFree(c) PROVE MutexInv'
    BY <1>2, CtxsAssumption
    DEF LockFree, TypeOK, MutualExclusion, QueueExact, NoLostWakeup, Waiting
  <1>3. ASSUME NEW c \in Ctxs, NEW t \in BOOLEAN, LockWait(c, t) PROVE MutexInv'
    <2>1. c \notin Waiting(q)
      BY <1>3 DEF LockWait, QueueExact
    <2>2. /\ q' \in Seq(Ctxs) /\ Waiting(q') = Waiting(q) \cup {c}
          /\ \A i, j \in 1..Len(q') : q'[i] = q'[j] => i = j
      BY <1>3, <2>1, AppendFacts DEF LockWait, TypeOK, QueueExact, Once
    <2>3. Waiting(q)' = Waiting(q')
      BY DEF Waiting
    <2>4. timed' \in [Ctxs -> BOOLEAN]
      BY <1>3, Zenon DEF LockWait, TypeOK
    <2> QED BY <1>3, <2>2, <2>3, <2>4
        DEF LockWait, TypeOK, MutualExclusion, QueueExact, NoLostWakeup
  <1>4. ASSUME NEW c \in Ctxs, Wake(c) PROVE MutexInv'
    <2>1. CASE WaitReturn(c)
      BY <1>4, <2>1, WaitReturnInv DEF Wake
    <2>2. CASE m # NoCtx /\ noted' = noted \ {c} /\ UNCHANGED <<m, q, pc, timed>>
      BY <2>2 DEF TypeOK, MutualExclusion, QueueExact, NoLostWakeup, Waiting
    <2> QED BY <1>4, <2>1, <2>2 DEF Wake
  <1>5. ASSUME NEW c \in Ctxs, Expire(c) PROVE MutexInv'
    <2>1. CASE WaitReturn(c)
      BY <1>5, <2>1, WaitReturnInv DEF Expire
    <2>2. CASE ~WaitReturn(c)
      BY <1>5, <2>2, WaitAbandonInv DEF Expire, TypeOK
    <2> QED BY <2>1, <2>2
  <1>6. ASSUME NEW c \in Ctxs, Interrupt(c) PROVE MutexInv'
    <2>1. c \in Waiting(q)
      BY <1>6 DEF Interrupt, QueueExact
    <2>2. q' \in Seq(Ctxs)
      BY <1>6, <2>1, RemoveFacts DEF Interrupt, TypeOK, QueueExact, Once
    <2>3. NotifyOne(q') \subseteq Ctxs
      BY <2>2 DEF NotifyOne
    <2> QED BY <1>6, <2>3, WaitAbandonInv DEF Interrupt, TypeOK
  <1>7. ASSUME NEW c \in Ctxs, Unlock(c) PROVE MutexInv'
    <2>1. NotifyOne(q) \subseteq Ctxs
      BY DEF NotifyOne, TypeOK
    <2> QED BY <1>7, <2>1, CtxsAssumption
        DEF Unlock, TypeOK, MutualExclusion, QueueExact, NoLostWakeup, Waiting, NotifyOne
  <1> QED BY <1>1, <1>2, <1>3, <1>4, <1>5, <1>6, <1>7 DEF Next

\* The mutex keeps its inductive invariant.
THEOREM MutexInvariant == Spec => []MutexInv
  BY InitInv, StepInv, PTL DEF Spec

\* Whatever contexts barge in, time out, are interrupted or terminated, and
\* however many there are: a free mutex with waiters has a wakeup under way.
THEOREM NoWakeupLost == Spec => []NoLostWakeup
  <1>1. MutexInv => NoLostWakeup
    BY DEF MutexInv
  <1> QED BY <1>1, MutexInvariant, PTL

\* At most one context is between lock() and unlock(), and it is the owner
\* that unlock() asserts.
THEOREM Exclusion == Spec => []MutualExclusion
  <1>1. MutexInv => MutualExclusion
    BY DEF MutexInv
  <1> QED BY <1>1, MutexInvariant, PTL
=============================================================================
