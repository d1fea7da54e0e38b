---------------------------- MODULE SharedMutex -----------------------------
(***************************************************************************)
(* ircd::ctx::shared_mutex (include/ircd/ctx/shared_mutex.h), which also   *)
(* stands in for pthread_rwlock_t and RocksDB's RWMutex.                   *)
(*                                                                         *)
(* u is the context with the unique or the upgrade lock.  s counts shares, *)
(* and is the smallest ssize_t while the lock is unique.  mode[c] is what  *)
(* the calls of c which returned tell it that it holds; a call is made     *)
(* only by a context whose mode allows it.  Assertions do not stop the     *)
(* model, as they do not stop a release build.                             *)
(***************************************************************************)
EXTENDS Dock, Integers

CONSTANTS
    Ctxs, NoCtx,
    Min,            \* std::numeric_limits<ssize_t>::min()
    MaxTries,       \* bound on the failed try_lock_shared() that s counts
    Usages          \* which calls the users of a lock make, besides those of a
                    \* plain shared mutex: sets of "upgrade", "convert"

ASSUME SharedMutexAssumption ==
    /\ NoCtx \notin Ctxs
    /\ Min \in Int /\ MaxTries \in Nat /\ Min + MaxTries < 0
    /\ Usages \subseteq SUBSET {"upgrade", "convert"}

VARIABLES
    u, s, q,
    noted,          \* contexts asleep in q that have a note
    mode,           \* "none", "shared", "upgrade" or "unique"
    wait,           \* the call in whose wait a context is asleep, or "none"
    timed,          \* that call is a try_..._until()
    usage,          \* "upgrade": the upgrade lock and downgrades are used;
                    \* "convert": try_unlock_shared_and_lock() is
    downgraded      \* history: the last release of the unique lock was a
                    \* downgrade, not an unlock()

vars == <<u, s, q, noted, mode, wait, timed, usage, downgraded>>

Upgrades == "upgrade" \in usage
Conversions == "convert" \in usage

-----------------------------------------------------------------------------
Modes == {"none", "shared", "upgrade", "unique"}

\* The calls that wait; "upgrade_lock" is unlock_upgrade_and_lock().
Waits == {"lock", "lock_shared", "lock_upgrade", "upgrade_lock"}

\* Mutant of CanLock: shares are not looked at.
CanLockShares(c) == s >= 0 /\ (u = NoCtx \/ u = c)

CanLock(c) == s = 0 /\ (u = NoCtx \/ u = c)
CanLockShared == s >= 0
CanLockUpgrade == u = NoCtx

Can(k, c) ==
    \/ k \in {"lock", "upgrade_lock"} /\ CanLock(c)
    \/ k = "lock_shared" /\ CanLockShared
    \/ k = "lock_upgrade" /\ CanLockUpgrade

\* The assignments after the wait of call k, which returns to c.
Take(k, c) ==
    \/ /\ k \in {"lock", "upgrade_lock"}
       /\ u' = c /\ s' = Min
       /\ mode' = [mode EXCEPT ![c] = "unique"]
    \/ /\ k = "lock_shared"
       /\ s' = s + 1 /\ UNCHANGED u
       /\ mode' = [mode EXCEPT ![c] = "shared"]
    \/ /\ k = "lock_upgrade"
       /\ u' = c /\ UNCHANGED s
       /\ mode' = [mode EXCEPT ![c] = "upgrade"]

\* Which context may make call k: an upgrader for "upgrade_lock", else one
\* that holds nothing.
MayCall(k, c) ==
    /\ wait[c] = "none"
    /\ mode[c] = IF k = "upgrade_lock" THEN "upgrade" ELSE "none"
    /\ k = "lock_upgrade" => Upgrades

-----------------------------------------------------------------------------
Init ==
    /\ u = NoCtx /\ s = 0 /\ q = <<>> /\ noted = {}
    /\ mode = [c \in Ctxs |-> "none"]
    /\ wait = [c \in Ctxs |-> "none"]
    /\ timed = [c \in Ctxs |-> FALSE]
    /\ usage \in Usages /\ downgraded = FALSE

\* A call whose predicate holds at once: lock(), lock_shared(),
\* lock_upgrade(), their timed forms, unlock_upgrade_and_lock(), and of the
\* forms that never wait try_lock(), try_lock_upgrade() and
\* try_unlock_upgrade_and_lock().
Call(k, c) ==
    /\ MayCall(k, c) /\ Can(k, c)
    /\ Take(k, c)
    /\ UNCHANGED <<q, noted, wait, timed, usage, downgraded>>

\* The predicate does not hold: c goes to sleep.
CallWait(k, c, t) ==
    /\ MayCall(k, c) /\ ~Can(k, c)
    /\ k = "upgrade_lock" => ~t
    /\ q' = Append(q, c)
    /\ wait' = [wait EXCEPT ![c] = k]
    /\ timed' = [timed EXCEPT ![c] = t]
    /\ UNCHANGED <<u, s, noted, mode, usage, downgraded>>

WaitReturn(c) ==
    /\ Can(wait[c], c)
    /\ Take(wait[c], c)
    /\ q' = Remove(q, c)
    /\ noted' = noted \ {c}
    /\ wait' = [wait EXCEPT ![c] = "none"]
    /\ UNCHANGED <<timed, usage, downgraded>>

Wake(c) ==
    /\ wait[c] # "none" /\ c \in noted
    /\ \/ WaitReturn(c)
       \/ /\ ~Can(wait[c], c) /\ noted' = noted \ {c}
          /\ UNCHANGED <<u, s, q, mode, wait, timed, usage, downgraded>>

\* The alarm of a timed call expires.
Expire(c) ==
    /\ wait[c] # "none" /\ timed[c]
    /\ \/ WaitReturn(c)
       \/ /\ ~Can(wait[c], c)
          /\ q' = Remove(q, c)
          /\ noted' = noted \ {c}
          /\ wait' = [wait EXCEPT ![c] = "none"]
          /\ UNCHANGED <<u, s, mode, timed, usage, downgraded>>

\* c is interrupted in its wait and passes its note on.
Interrupt(c) ==
    /\ wait[c] # "none"
    /\ q' = Remove(q, c)
    /\ noted' = (noted \ {c}) \cup NotifyOne(q')
    /\ wait' = [wait EXCEPT ![c] = "none"]
    /\ UNCHANGED <<u, s, mode, timed, usage, downgraded>>

\* try_lock_shared() counts a share whether it succeeds or not.
TryLockShared(c) ==
    /\ wait[c] = "none" /\ mode[c] = "none"
    /\ s < 0 => s < Min + MaxTries
    /\ s' = s + 1
    /\ mode' = [mode EXCEPT ![c] = IF s + 1 >= 0 THEN "shared" ELSE "none"]
    /\ UNCHANGED <<u, q, noted, wait, timed, usage, downgraded>>

\* try_unlock_shared_and_lock() of the only share.
TryUnlockSharedAndLock(c) ==
    /\ Conversions /\ mode[c] = "shared" /\ wait[c] = "none" /\ s = 1
    /\ u' = c /\ s' = Min
    /\ mode' = [mode EXCEPT ![c] = "unique"]
    /\ UNCHANGED <<q, noted, wait, timed, usage, downgraded>>

TryUnlockSharedAndLockUpgrade(c) ==
    /\ Upgrades /\ mode[c] = "shared" /\ wait[c] = "none" /\ CanLockUpgrade
    /\ u' = c /\ s' = s - 1
    /\ mode' = [mode EXCEPT ![c] = "upgrade"]
    /\ UNCHANGED <<q, noted, wait, timed, usage, downgraded>>

-----------------------------------------------------------------------------
\* The calls that release something, none of which waits: c goes from mode f
\* to mode t.
Release(c, f, t) ==
    /\ mode[c] = f /\ wait[c] = "none"
    /\ mode' = [mode EXCEPT ![c] = t]
    /\ downgraded' = IF f = "unique" THEN t # "none" ELSE downgraded
    /\ UNCHANGED <<q, wait, timed, usage>>

\* Mutant of Unlock: only the front is notified.
UnlockOne(c) ==
    /\ Release(c, "unique", "none")
    /\ s' = 0 /\ UNCHANGED u
    /\ noted' = noted \cup NotifyOne(q)

\* unlock() resets the share count, not the owner.
Unlock(c) ==
    /\ Release(c, "unique", "none")
    /\ s' = 0 /\ UNCHANGED u
    /\ noted' = noted \cup Waiting(q)

UnlockShared(c) ==
    /\ Release(c, "shared", "none")
    /\ s' = s - 1 /\ UNCHANGED u
    /\ noted' = noted \cup NotifyOne(q)

\* Mutant of UnlockUpgrade: the owner pointer is notified once it is cleared.
UnlockUpgradeOwner(c) ==
    /\ Release(c, "upgrade", "none")
    /\ u' = NoCtx /\ UNCHANGED s
    /\ noted' = noted \cup {u'}

UnlockUpgrade(c) ==
    /\ Release(c, "upgrade", "none")
    /\ u' = NoCtx /\ UNCHANGED s
    /\ noted' = noted \cup NotifyOne(q)

UnlockAndLockShared(c) ==
    /\ Upgrades /\ Release(c, "unique", "shared")
    /\ s' = 1 /\ UNCHANGED u
    /\ noted' = noted \cup NotifyOne(q)

UnlockAndLockUpgrade(c) ==
    /\ Upgrades /\ Release(c, "unique", "upgrade")
    /\ s' = 0 /\ UNCHANGED <<u, noted>>

UnlockUpgradeAndLockShared(c) ==
    /\ Release(c, "upgrade", "shared")
    /\ u' = NoCtx /\ s' = s + 1
    /\ noted' = noted \cup NotifyOne(q)

Next ==
    \E c \in Ctxs :
        \/ \E k \in Waits : Call(k, c) \/ \E t \in BOOLEAN : CallWait(k, c, t)
        \/ Wake(c) \/ Expire(c) \/ Interrupt(c)
        \/ TryLockShared(c) \/ TryUnlockSharedAndLock(c)
        \/ TryUnlockSharedAndLockUpgrade(c)
        \/ Unlock(c) \/ UnlockShared(c) \/ UnlockUpgrade(c)
        \/ UnlockAndLockShared(c) \/ UnlockAndLockUpgrade(c)
        \/ UnlockUpgradeAndLockShared(c)

Spec == Init /\ [][Next]_vars

\* A context with a note is eventually run.
FairSpec == Spec /\ \A c \in Ctxs : WF_vars(Wake(c))

-----------------------------------------------------------------------------
TypeOK ==
    /\ u \in Ctxs \cup {NoCtx} /\ s \in Int
    /\ q \in Seq(Ctxs) /\ noted \subseteq Ctxs
    /\ mode \in [Ctxs -> Modes]
    /\ wait \in [Ctxs -> Waits \cup {"none"}]
    /\ timed \in [Ctxs -> BOOLEAN] /\ usage \in Usages
    /\ downgraded \in BOOLEAN

\* Nobody shares the lock with its unique owner, through every sequence of
\* conversions between the three modes (where a share is not converted past
\* an upgrade lock).
WriterExclusive ==
    ~(Upgrades /\ Conversions) =>
        \A c, d \in Ctxs :
            mode[c] = "unique" /\ c # d => mode[d] \notin {"unique", "shared"}

\* No reader sleeps for ever on a lock which it may share and whose last
\* unique owner, an upgrader in its second phase included, left it by
\* unlock(): its notify_all() reaches the readers that slept when an earlier
\* downgrade let them in and woke one of them or none, too.  A downgrade
\* itself makes no such promise: unlock_and_lock_upgrade() notifies nobody.
ReadersReleased ==
    \A c \in Ctxs :
        []<>~(wait[c] = "lock_shared" /\ CanLockShared /\ ~downgraded)
=============================================================================
