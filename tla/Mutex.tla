------------------------------- MODULE Mutex --------------------------------
(***************************************************************************)
(* ircd::ctx::mutex (include/ircd/ctx/mutex.h) over its dock q.            *)
(*                                                                         *)
(* unlock() hands the mutex to nobody: it leaves a note with the front of  *)
(* q, and whoever runs first takes the mutex, the context that was woken   *)
(* or one that never waited.  The note may find its context interrupted,   *)
(* terminated or timed out instead.                                        *)
(***************************************************************************)
EXTENDS Dock

CONSTANTS
    Ctxs,       \* the contexts that use the mutex
    NoCtx       \* the null pointer

ASSUME CtxsAssumption == NoCtx \notin Ctxs

VARIABLES
    m,          \* the owner, or NoCtx
    q,          \* the dock
    noted,      \* contexts asleep in q that have a note
    pc,         \* "idle", "waiting" in q, or "holding"
    timed       \* the wait is that of try_lock_until()

vars == <<m, q, noted, pc, timed>>

-----------------------------------------------------------------------------
Init ==
    /\ m = NoCtx
    /\ q = <<>>
    /\ noted = {}
    /\ pc = [c \in Ctxs |-> "idle"]
    /\ timed = [c \in Ctxs |-> FALSE]

\* lock() of a free mutex, or try_lock() or try_lock_until(): a barging
\* context does not look at q.  A try_lock() of a locked mutex does nothing.
LockFree(c) ==
    /\ pc[c] = "idle" /\ m = NoCtx
    /\ m' = c
    /\ pc' = [pc EXCEPT ![c] = "holding"]
    /\ UNCHANGED <<q, noted, timed>>

\* lock() (t is FALSE) or try_lock_until() of a locked mutex goes to sleep.
LockWait(c, t) ==
    /\ pc[c] = "idle" /\ m # NoCtx
    /\ q' = Append(q, c)
    /\ pc' = [pc EXCEPT ![c] = "waiting"]
    /\ timed' = [timed EXCEPT ![c] = t]
    /\ UNCHANGED <<m, noted>>

\* Mutant of WaitReturn: the wait takes the mutex without its predicate.
WaitReturnAlways(c) ==
    /\ m' = c
    /\ q' = Remove(q, c)
    /\ noted' = noted \ {c}
    /\ pc' = [pc EXCEPT ![c] = "holding"]
    /\ UNCHANGED timed

\* c is awake in dock::wait() and the predicate holds: it takes the mutex.
WaitReturn(c) ==
    /\ m = NoCtx /\ m' = c
    /\ q' = Remove(q, c)
    /\ noted' = noted \ {c}
    /\ pc' = [pc EXCEPT ![c] = "holding"]
    /\ UNCHANGED timed

\* A context with a note runs: it takes the mutex, or keeps its place in q
\* and sleeps on when another context was faster.
Wake(c) ==
    /\ pc[c] = "waiting" /\ c \in noted
    /\ \/ WaitReturn(c)
       \/ m # NoCtx /\ noted' = noted \ {c} /\ UNCHANGED <<m, q, pc, timed>>

\* The alarm of try_lock_until() expires; the predicate is tried once more.
\* The note c may have had by now is not passed on.
Expire(c) ==
    /\ pc[c] = "waiting" /\ timed[c]
    /\ \/ WaitReturn(c)
       \/ /\ m # NoCtx
          /\ q' = Remove(q, c)
          /\ noted' = noted \ {c}
          /\ pc' = [pc EXCEPT ![c] = "idle"]
          /\ UNCHANGED <<m, timed>>

\* Mutant of Interrupt: the note is not passed on by the exception.
InterruptSilent(c) ==
    /\ pc[c] = "waiting"
    /\ q' = Remove(q, c)
    /\ noted' = noted \ {c}
    /\ pc' = [pc EXCEPT ![c] = "idle"]
    /\ UNCHANGED <<m, timed>>

\* c is interrupted or terminated in its wait, with a note or without: the
\* exception takes it out of q, then notifies the new front.
Interrupt(c) ==
    /\ pc[c] = "waiting"
    /\ q' = Remove(q, c)
    /\ noted' = (noted \ {c}) \cup NotifyOne(q')
    /\ pc' = [pc EXCEPT ![c] = "idle"]
    /\ UNCHANGED <<m, timed>>

\* Mutant of Unlock: nobody is notified.
UnlockSilent(c) ==
    /\ m = c
    /\ m' = NoCtx
    /\ pc' = [pc EXCEPT ![c] = "idle"]
    /\ UNCHANGED <<q, noted, timed>>

Unlock(c) ==
    /\ m = c
    /\ m' = NoCtx
    /\ noted' = noted \cup NotifyOne(q)
    /\ pc' = [pc EXCEPT ![c] = "idle"]
    /\ UNCHANGED <<q, timed>>

Next ==
    \E c \in Ctxs :
        \/ LockFree(c)
        \/ \E t \in BOOLEAN : LockWait(c, t)
        \/ Wake(c) \/ Expire(c) \/ Interrupt(c)
        \/ Unlock(c)

Spec == Init /\ [][Next]_vars

\* A context with a note is eventually run.  Nobody is assumed to unlock, to
\* time out or to be interrupted.
FairSpec == Spec /\ \A c \in Ctxs : WF_vars(Wake(c))

-----------------------------------------------------------------------------
TypeOK ==
    /\ m \in Ctxs \cup {NoCtx}
    /\ q \in Seq(Ctxs)
    /\ noted \subseteq Ctxs
    /\ pc \in [Ctxs -> {"idle", "waiting", "holding"}]
    /\ timed \in [Ctxs -> BOOLEAN]

\* A context is past lock() only as the owner: the assertion m == current of
\* unlock() never fails, and no two contexts are inside at once.
MutualExclusion == \A c \in Ctxs : pc[c] = "holding" <=> m = c

\* The dock holds exactly the contexts that are waiting, once each.
QueueExact ==
    /\ \A c \in Ctxs : pc[c] = "waiting" <=> c \in Waiting(q)
    /\ \A i, j \in 1..Len(q) : q[i] = q[j] => i = j

\* No wakeup is lost: when the mutex is free and contexts wait, the front one
\* has a note, whoever barged in, was interrupted or timed out before.
NoLostWakeup == m = NoCtx /\ q # <<>> => Head(q) \in noted

\* All of it, which is inductive only together: one owner, an exact dock and no
\* lost wakeup.
MutexInv == TypeOK /\ MutualExclusion /\ QueueExact /\ NoLostWakeup

\* A free mutex with waiters does not stay so: unlock() followed by a wakeup
\* that goes astray cannot leave everyone asleep.
HandOff == m = NoCtx /\ q # <<>> ~> m # NoCtx \/ q = <<>>
=============================================================================
