------------------------- MODULE SharedMutexProofs --------------------------
(***************************************************************************)
(* ircd::ctx::shared_mutex excludes readers and other writers from its     *)
(* writer, for any number of contexts and any sequence of its calls.       *)
(*                                                                         *)
(* The lock knows of its holders only what u and s say, and both may be    *)
(* stale: unlock() leaves u set, and every failed try_lock_shared() counts *)
(* s up.  HoldersInv says what they still tell of the modes of the         *)
(* contexts; WriterExclusive follows from it.                              *)
(***************************************************************************)
EXTENDS SharedMutex, FiniteSetTheorems, TLAPS

-----------------------------------------------------------------------------
(***************************************************************************)
(* The dock keeps holding contexts.                                        *)
(***************************************************************************)

\* list::remove() takes any context off at most once, whether or not it is there.
LEMMA RemoveType ==
    ASSUME NEW S, NEW dock \in Seq(S), NEW c
    PROVE  Remove(dock, c) \in Seq(S)
  <1> DEFINE x == CHOOSE k \in 1..Len(dock) : dock[k] = c
             r == [k \in 1..(Len(dock) - 1) |-> IF k < x THEN dock[k] ELSE dock[k + 1]]
  <1>1. Len(dock) \in Nat /\ \A k \in 1..Len(dock) : dock[k] \in S
    OBVIOUS
  <1>2. Remove(dock, c) = r
    BY DEF Remove
  <1> HIDE DEF x
  <1>3. r \in [1..(Len(dock) - 1) -> S]
    BY <1>1
  <1>4. CASE Len(dock) = 0
    <2>1. r \in [1..0 -> S]
      BY <1>3, <1>4
    <2> QED BY <1>2, <2>1
  <1>5. CASE Len(dock) - 1 \in Nat
    BY <1>2, <1>3, <1>5
  <1> QED BY <1>1, <1>4, <1>5

\* Joining the dock at its back.
LEMMA AppendRest ==
    ASSUME NEW S, NEW dock \in Seq(S), NEW c \in S
    PROVE  /\ Append(dock, c) \in Seq(S)
           /\ Waiting(Append(dock, c)) = Waiting(dock) \cup {c}
  BY DEF Waiting

\* Who is notified is asleep in the dock.
LEMMA NotifyFacts ==
    ASSUME NEW S, NEW dock \in Seq(S)
    PROVE  NotifyOne(dock) \subseteq Waiting(dock) /\ Waiting(dock) \subseteq S
  BY DEF NotifyOne, Waiting

-----------------------------------------------------------------------------
(***************************************************************************)
(* What u and s tell of the holders of the lock.                           *)
(***************************************************************************)

Sharers == {c \in Ctxs : mode[c] = "shared"}

\* A share count that is not negative is exact and nobody has the lock; a
\* negative one is that of a unique lock, with less than the failed calls that
\* would make it look like a share count again.
CountInv ==
    /\ IsFiniteSet(Sharers)
    /\ s >= 0 => s = Cardinality(Sharers) /\ \A c \in Ctxs : mode[c] # "unique"
    /\ s < 0 => /\ Sharers = {} /\ s <= Min + MaxTries
                /\ \E c \in Ctxs : mode[c] = "unique"

\* Who has the unique or the upgrade lock is the owner; the latter exists only
\* where it is used.
OwnerInv ==
    /\ \A c \in Ctxs : mode[c] \in {"upgrade", "unique"} => u = c
    /\ \A c \in Ctxs : mode[c] = "upgrade" => Upgrades

\* What a context holds while it waits.
WaitInv ==
    \A c \in Ctxs : wait[c] # "none" =>
        /\ mode[c] = IF wait[c] = "upgrade_lock" THEN "upgrade" ELSE "none"
        /\ wait[c] = "lock_upgrade" => Upgrades

HoldersInv ==
    ~(Upgrades /\ Conversions) => CountInv /\ OwnerInv /\ WaitInv

\* A call of c has returned, and c is in mode m.
Returns(c, m) ==
    /\ mode' = [mode EXCEPT ![c] = m]
    /\ wait'[c] = "none" /\ \A d \in Ctxs \ {c} : wait'[d] = wait[d]
    /\ usage' = usage

-----------------------------------------------------------------------------
\* The initial state.
LEMMA InitInv == Init => TypeOK /\ HoldersInv
  <1> SUFFICES ASSUME Init PROVE TypeOK /\ HoldersInv
    OBVIOUS
  <1>0. timed \in [Ctxs -> BOOLEAN] /\ downgraded \in BOOLEAN
    BY Zenon DEF Init
  <1>1. TypeOK
    BY <1>0 DEF Init, TypeOK, Modes
  <1>2. Sharers = {} /\ IsFiniteSet({}) /\ Cardinality({}) = 0
    BY FS_EmptySet DEF Init, Sharers
  <1>3. CountInv
    BY <1>2 DEF Init, CountInv
  <1>4. OwnerInv /\ WaitInv
    BY DEF Init, OwnerInv, WaitInv
  <1> QED BY <1>1, <1>3, <1>4 DEF HoldersInv

\* The assignments after a wait keep the types.
LEMMA TakeType ==
    ASSUME TypeOK, NEW c \in Ctxs, NEW k \in Waits, Take(k, c)
    PROVE  u' \in Ctxs \cup {NoCtx} /\ s' \in Int /\ mode' \in [Ctxs -> Modes]
  BY SharedMutexAssumption DEF TypeOK, Take, Modes, Waits

\* Every variable keeps its type.
LEMMA StepType == TypeOK /\ [Next]_vars => TypeOK'
  <1> SUFFICES ASSUME TypeOK, [Next]_vars PROVE TypeOK'
    OBVIOUS
  <1>1. CASE UNCHANGED vars
    BY <1>1 DEF vars, TypeOK
  <1>2. NotifyOne(q) \subseteq Ctxs /\ Waiting(q) \subseteq Ctxs
    BY NotifyFacts DEF TypeOK
  <1>3. ASSUME NEW c \in Ctxs
        PROVE  Remove(q, c) \in Seq(Ctxs) /\ NotifyOne(Remove(q, c)) \subseteq Ctxs
    <2>1. Remove(q, c) \in Seq(Ctxs)
      BY RemoveType DEF TypeOK
    <2>2. NotifyOne(Remove(q, c)) \subseteq Waiting(Remove(q, c))
          /\ Waiting(Remove(q, c)) \subseteq Ctxs
      BY <2>1, NotifyFacts
    <2> QED BY <2>1, <2>2
  <1>4. ASSUME NEW c \in Ctxs, wait[c] # "none", WaitReturn(c) PROVE TypeOK'
    <2>1. wait[c] \in Waits
      BY <1>4 DEF TypeOK
    <2>2. u' \in Ctxs \cup {NoCtx} /\ s' \in Int /\ mode' \in [Ctxs -> Modes]
      BY <1>4, <2>1, TakeType DEF WaitReturn
    <2> QED BY <1>3, <1>4, <2>2 DEF WaitReturn, TypeOK
  <1>5. ASSUME NEW c \in Ctxs, NEW k \in Waits, Call(k, c) PROVE TypeOK'
    BY <1>5, TakeType DEF Call, TypeOK
  <1>6. ASSUME NEW c \in Ctxs, NEW k \in Waits, NEW t \in BOOLEAN, CallWait(k, c, t)
        PROVE  TypeOK'
    <2>1. timed' \in [Ctxs -> BOOLEAN]
      BY <1>6, Zenon DEF CallWait, TypeOK
    <2>2. q' \in Seq(Ctxs)
      BY <1>6, AppendRest DEF CallWait, TypeOK
    <2> QED BY <1>6, <2>1, <2>2 DEF CallWait, TypeOK
  <1>7. ASSUME NEW c \in Ctxs, Wake(c) PROVE TypeOK'
    BY <1>4, <1>7 DEF Wake, TypeOK
  <1>8. ASSUME NEW c \in Ctxs, Expire(c) PROVE TypeOK'
    <2>1. CASE WaitReturn(c)
      BY <1>4, <1>8, <2>1 DEF Expire
    <2>2. CASE ~WaitReturn(c)
      BY <1>3, <1>8, <2>2 DEF Expire, TypeOK
    <2> QED BY <2>1, <2>2
  <1>9. ASSUME NEW c \in Ctxs, Interrupt(c) PROVE TypeOK'
    BY <1>3, <1>9 DEF Interrupt, TypeOK
  <1>10. ASSUME NEW c \in Ctxs,
                \/ TryLockShared(c) \/ TryUnlockSharedAndLock(c)
                \/ TryUnlockSharedAndLockUpgrade(c)
         PROVE  TypeOK'
    BY <1>10, SharedMutexAssumption
    DEF TryLockShared, TryUnlockSharedAndLock, TryUnlockSharedAndLockUpgrade, TypeOK, Modes
  <1>10a. ASSUME NEW c \in Ctxs, NEW f, NEW t, Release(c, f, t)
          PROVE  downgraded' \in BOOLEAN
    <2>1. downgraded \in BOOLEAN
      BY Zenon DEF TypeOK
    <2>2. CASE f = "unique"
      <3>1. downgraded' = (t # "none")
        BY <1>10a, <2>2, Zenon DEF Release
      <3>2. (t # "none") \in BOOLEAN
        BY Zenon
      <3> QED BY <3>1, <3>2, Zenon
    <2>3. CASE f # "unique"
      <3>1. downgraded' = downgraded
        BY <1>10a, <2>3, Zenon DEF Release
      <3> QED BY <2>1, <3>1, Zenon
    <2> QED BY <2>2, <2>3
  <1>11. ASSUME NEW c \in Ctxs, Unlock(c) \/ UnlockShared(c) \/ UnlockUpgrade(c)
         PROVE  TypeOK'
    <2>1. downgraded' \in BOOLEAN
      BY <1>10a, <1>11, Zenon DEF Unlock, UnlockShared, UnlockUpgrade
    <2> QED BY <1>2, <1>11, <2>1
        DEF Unlock, UnlockShared, UnlockUpgrade, Release, TypeOK, Modes
  <1>12. ASSUME NEW c \in Ctxs,
                \/ UnlockAndLockShared(c) \/ UnlockAndLockUpgrade(c)
                \/ UnlockUpgradeAndLockShared(c)
         PROVE  TypeOK'
    <2>1. downgraded' \in BOOLEAN
      BY <1>10a, <1>12, Zenon
      DEF UnlockAndLockShared, UnlockAndLockUpgrade, UnlockUpgradeAndLockShared
    <2> QED BY <1>2, <1>12, <2>1
        DEF UnlockAndLockShared, UnlockAndLockUpgrade, UnlockUpgradeAndLockShared, Release,
            TypeOK, Modes
  <1> QED BY <1>1, <1>5, <1>6, <1>7, <1>8, <1>9, <1>10, <1>11, <1>12 DEF Next

-----------------------------------------------------------------------------
\* The context that begins to share is one more sharer, the one that ends to
\* is one less.
LEMMA SharersStep ==
    ASSUME TypeOK, CountInv, NEW c \in Ctxs, NEW m \in Modes,
           mode' = [mode EXCEPT ![c] = m]
    PROVE  /\ Sharers' = IF m = "shared" THEN Sharers \cup {c} ELSE Sharers \ {c}
           /\ IsFiniteSet(Sharers') /\ Cardinality(Sharers) \in Nat
           /\ Cardinality(Sharers') =
                IF m = "shared" THEN IF mode[c] = "shared" THEN Cardinality(Sharers)
                                     ELSE Cardinality(Sharers) + 1
                ELSE IF mode[c] = "shared" THEN Cardinality(Sharers) - 1
                ELSE Cardinality(Sharers)
  <1>1. Sharers' = IF m = "shared" THEN Sharers \cup {c} ELSE Sharers \ {c}
    BY DEF Sharers, TypeOK
  <1>2. c \in Sharers <=> mode[c] = "shared"
    BY DEF Sharers
  <1>3. IsFiniteSet(Sharers) /\ Cardinality(Sharers) \in Nat
    BY FS_CardinalityType DEF CountInv
  <1>4. /\ IsFiniteSet(Sharers \cup {c})
        /\ Cardinality(Sharers \cup {c}) =
            IF c \in Sharers THEN Cardinality(Sharers) ELSE Cardinality(Sharers) + 1
    BY <1>3, FS_AddElement
  <1>5. /\ IsFiniteSet(Sharers \ {c})
        /\ Cardinality(Sharers \ {c}) =
            IF c \in Sharers THEN Cardinality(Sharers) - 1 ELSE Cardinality(Sharers)
    BY <1>3, FS_RemoveElement
  <1>6. CASE m = "shared"
    <2>1. Sharers' = Sharers \cup {c}
      BY <1>1, <1>6
    <2> QED BY <1>2, <1>3, <1>4, <1>6, <2>1
  <1>7. CASE m # "shared"
    <2>1. Sharers' = Sharers \ {c}
      BY <1>1, <1>7
    <2> QED BY <1>2, <1>3, <1>5, <1>7, <2>1
  <1> QED BY <1>6, <1>7

\* A context whose call has returned does not wait, and the others are not
\* touched.
LEMMA WaitStep ==
    ASSUME TypeOK, WaitInv, NEW c \in Ctxs, NEW m \in Modes, Returns(c, m)
    PROVE  WaitInv'
  BY DEF TypeOK, WaitInv, Returns, Upgrades

\* A context gets the unique lock when nobody else holds anything.
LEMMA ToUnique ==
    ASSUME TypeOK, CountInv, OwnerInv, NEW c \in Ctxs, Returns(c, "unique"),
           u' = c, s' = Min, \A d \in Ctxs : d # c => mode[d] = "none"
    PROVE  CountInv' /\ OwnerInv'
  <1>1. IsFiniteSet(Sharers')
    BY SharersStep DEF Returns, Modes
  <1>2. Sharers' = {}
    BY DEF Returns, Sharers, TypeOK
  <1>3. s' \in Int /\ ~(s' >= 0) /\ s' <= Min + MaxTries
    BY SharedMutexAssumption
  <1>4. mode'[c] = "unique"
    BY DEF Returns, TypeOK
  <1>5. CountInv'
    BY <1>1, <1>2, <1>3, <1>4 DEF CountInv
  <1>6. OwnerInv'
    BY DEF Returns, OwnerInv, TypeOK
  <1> QED BY <1>5, <1>6

\* A context that has nothing, or the upgrade lock, which it gives up, gets a
\* share.
LEMMA ToShared ==
    ASSUME TypeOK, CountInv, OwnerInv, NEW c \in Ctxs, Returns(c, "shared"),
           s >= 0, s' = s + 1,
           \/ mode[c] = "none" /\ u' = u
           \/ mode[c] = "upgrade" /\ u' = NoCtx
    PROVE  CountInv' /\ OwnerInv'
  <1>1. IsFiniteSet(Sharers') /\ Cardinality(Sharers') = Cardinality(Sharers) + 1
    BY SharersStep DEF Returns, Modes
  <1>2. s' \in Int /\ s' >= 0 /\ s' = Cardinality(Sharers')
    BY <1>1 DEF CountInv, TypeOK
  <1>3. CountInv'
    BY <1>1, <1>2 DEF Returns, CountInv, TypeOK
  <1>4. OwnerInv'
    BY DEF Returns, OwnerInv, TypeOK, Upgrades
  <1> QED BY <1>3, <1>4

\* A context gives up what it has, or gets the upgrade lock; it is not a unique
\* lock that it gives up, and s remains the number of sharers.
LEMMA ToOther ==
    ASSUME TypeOK, CountInv, OwnerInv, NEW c \in Ctxs, NEW m \in {"none", "upgrade"},
           Returns(c, m), s >= 0, s' = IF mode[c] = "shared" THEN s - 1 ELSE s,
           m = "upgrade" => Upgrades /\ u = NoCtx /\ u' = c,
           m = "none" => u' = u \/ (mode[c] = "upgrade" /\ u' = NoCtx)
    PROVE  CountInv' /\ OwnerInv'
  <1>1. /\ IsFiniteSet(Sharers') /\ Cardinality(Sharers) \in Nat
        /\ Cardinality(Sharers') = IF mode[c] = "shared" THEN Cardinality(Sharers) - 1
                                                         ELSE Cardinality(Sharers)
    BY SharersStep DEF Returns, Modes
  <1>2. Cardinality(Sharers') \in Nat
    BY <1>1, FS_CardinalityType
  <1>3. s' \in Int /\ s' >= 0 /\ s' = Cardinality(Sharers')
    BY <1>1, <1>2 DEF CountInv, TypeOK
  <1>4. CountInv'
    BY <1>1, <1>3 DEF Returns, CountInv, TypeOK
  <1>5. OwnerInv'
    BY SharedMutexAssumption DEF Returns, OwnerInv, TypeOK, Upgrades
  <1> QED BY <1>4, <1>5

\* The unique owner gives the lock up or turns it into a weaker one.
LEMMA FromUnique ==
    ASSUME TypeOK, CountInv, OwnerInv, NEW c \in Ctxs, NEW m \in Modes \ {"unique"},
           Returns(c, m), mode[c] = "unique", u' = u, m = "upgrade" => Upgrades,
           s' = IF m = "shared" THEN 1 ELSE 0
    PROVE  CountInv' /\ OwnerInv'
  <1>1. Sharers = {} /\ Cardinality(Sharers) = 0
    BY FS_EmptySet DEF CountInv, TypeOK
  <1>2. IsFiniteSet(Sharers') /\ Cardinality(Sharers') = s'
    <2>1. CASE m = "shared"
      <3>1. Cardinality(Sharers') = Cardinality(Sharers) + 1 /\ IsFiniteSet(Sharers')
        BY <2>1, SharersStep DEF Returns
      <3> QED BY <1>1, <2>1, <3>1
    <2>2. CASE m # "shared"
      <3>1. Cardinality(Sharers') = Cardinality(Sharers) /\ IsFiniteSet(Sharers')
        BY <2>2, SharersStep DEF Returns
      <3> QED BY <1>1, <2>2, <3>1
    <2> QED BY <2>1, <2>2
  <1>3. \A d \in Ctxs : mode'[d] # "unique"
    BY DEF Returns, OwnerInv, TypeOK
  <1>4. CountInv'
    BY <1>2, <1>3 DEF CountInv
  <1>5. OwnerInv'
    BY DEF Returns, OwnerInv, TypeOK, Upgrades
  <1> QED BY <1>4, <1>5

\* What u and s say of the holders.
LEMMA HolderFacts ==
    ASSUME TypeOK, CountInv, OwnerInv, NEW c \in Ctxs
    PROVE  /\ mode[c] \in {"shared", "upgrade"} => s >= 0
           /\ s = 0 /\ (u = NoCtx \/ u = c) =>
                \A d \in Ctxs : d # c => mode[d] = "none"
           /\ s = 1 /\ mode[c] = "shared" /\ ~Upgrades =>
                \A d \in Ctxs : d # c => mode[d] = "none"
  <1>1. mode[c] \in {"shared", "upgrade"} => s >= 0
    BY DEF TypeOK, CountInv, OwnerInv, Sharers
  <1>2. s = 0 => Sharers = {}
    BY FS_EmptySet DEF CountInv
  <1>3. s = 0 /\ (u = NoCtx \/ u = c) => \A d \in Ctxs : d # c => mode[d] = "none"
    BY <1>2, SharedMutexAssumption DEF TypeOK, Modes, CountInv, OwnerInv, Sharers
  <1>4. ASSUME s = 1, mode[c] = "shared" PROVE Sharers = {c}
    <2>1. Cardinality(Sharers) = 1
      BY <1>4 DEF CountInv
    <2>2. PICK d : Sharers = {d}
      BY <2>1, FS_Singleton DEF CountInv
    <2> QED BY <1>4, <2>2 DEF Sharers
  <1>5. s = 1 /\ mode[c] = "shared" /\ ~Upgrades =>
            \A d \in Ctxs : d # c => mode[d] = "none"
    BY <1>4 DEF TypeOK, Modes, CountInv, OwnerInv, Sharers
  <1> QED BY <1>1, <1>3, <1>5

\* The assignments after a wait.
LEMMA TakeInv ==
    ASSUME TypeOK, CountInv, OwnerInv, WaitInv,
           NEW c \in Ctxs, NEW k \in Waits, Can(k, c), Take(k, c),
           mode[c] = IF k = "upgrade_lock" THEN "upgrade" ELSE "none",
           k = "lock_upgrade" => Upgrades, usage' = usage,
           wait'[c] = "none", \A d \in Ctxs \ {c} : wait'[d] = wait[d]
    PROVE  CountInv' /\ OwnerInv' /\ WaitInv'
  <1>1. CASE k \in {"lock", "upgrade_lock"}
    <2>1. Returns(c, "unique") /\ u' = c /\ s' = Min
      BY <1>1 DEF Returns, Take
    <2>2. \A d \in Ctxs : d # c => mode[d] = "none"
      BY <1>1, HolderFacts DEF Can, CanLock
    <2> QED BY <2>1, <2>2, ToUnique, WaitStep DEF Modes
  <1>2. CASE k = "lock_shared"
    <2>1. Returns(c, "shared") /\ s >= 0 /\ s' = s + 1 /\ u' = u /\ mode[c] = "none"
      BY <1>2 DEF Returns, Take, Can, CanLockShared
    <2> QED BY <2>1, ToShared, WaitStep DEF Modes
  <1>3. CASE k = "lock_upgrade"
    <2>1. Returns(c, "upgrade") /\ u = NoCtx /\ u' = c /\ s' = s /\ mode[c] = "none"
      BY <1>3 DEF Returns, Take, Can, CanLockUpgrade
    <2>2. s >= 0
      BY <2>1, SharedMutexAssumption DEF TypeOK, CountInv, OwnerInv
    <2> QED BY <1>3, <2>1, <2>2, ToOther, WaitStep DEF Modes
  <1> QED BY <1>1, <1>2, <1>3 DEF Waits

-----------------------------------------------------------------------------
\* HoldersInv is inductive.
LEMMA StepInv == TypeOK /\ HoldersInv /\ [Next]_vars => HoldersInv'
  <1> SUFFICES ASSUME TypeOK, HoldersInv, [Next]_vars, ~(Upgrades /\ Conversions)'
               PROVE  CountInv' /\ OwnerInv' /\ WaitInv'
    BY DEF HoldersInv
  <1>1. usage' = usage
    BY DEF Next, vars, Call, CallWait, Wake, WaitReturn, Expire, Interrupt, TryLockShared,
        TryUnlockSharedAndLock, TryUnlockSharedAndLockUpgrade, Unlock, UnlockShared,
        UnlockUpgrade, UnlockAndLockShared, UnlockAndLockUpgrade,
        UnlockUpgradeAndLockShared, Release
  <1>2. CountInv /\ OwnerInv /\ WaitInv /\ ~(Upgrades /\ Conversions)
    BY <1>1 DEF HoldersInv, Upgrades, Conversions
  <1>3. ASSUME UNCHANGED <<u, s, mode, usage>> PROVE CountInv' /\ OwnerInv'
    <2>1. Sharers' = Sharers
      BY <1>3 DEF Sharers
    <2> QED BY <1>2, <1>3, <2>1 DEF CountInv, OwnerInv, Upgrades
  <1>4. ASSUME NEW c \in Ctxs, UNCHANGED mode, wait' = [wait EXCEPT ![c] = "none"]
        PROVE  WaitInv'
    BY <1>1, <1>2, <1>4 DEF TypeOK, WaitInv, Upgrades
  <1>5. CASE UNCHANGED vars
    BY <1>2, <1>3, <1>5 DEF vars, WaitInv, Upgrades
  <1>6. ASSUME NEW c \in Ctxs, NEW k \in Waits, Call(k, c)
        PROVE  CountInv' /\ OwnerInv' /\ WaitInv'
    BY <1>1, <1>2, <1>6, TakeInv DEF Call, MayCall
  <1>7. ASSUME NEW c \in Ctxs, NEW k \in Waits, NEW t \in BOOLEAN, CallWait(k, c, t)
        PROVE  CountInv' /\ OwnerInv' /\ WaitInv'
    BY <1>1, <1>2, <1>3, <1>7 DEF CallWait, MayCall, TypeOK, WaitInv, Upgrades
  <1>8. ASSUME NEW c \in Ctxs, wait[c] # "none", WaitReturn(c)
        PROVE  CountInv' /\ OwnerInv' /\ WaitInv'
    <2>1. wait[c] \in Waits /\ mode[c] = (IF wait[c] = "upgrade_lock" THEN "upgrade" ELSE "none")
      BY <1>2, <1>8 DEF TypeOK, WaitInv
    <2>2. wait[c] = "lock_upgrade" => Upgrades
      BY <1>2, <1>8 DEF WaitInv
    <2>3. wait'[c] = "none" /\ \A d \in Ctxs \ {c} : wait'[d] = wait[d]
      BY <1>8 DEF WaitReturn, TypeOK
    <2> QED BY <1>1, <1>2, <1>8, <2>1, <2>2, <2>3, TakeInv DEF WaitReturn
  <1>9. ASSUME NEW c \in Ctxs, Wake(c) PROVE CountInv' /\ OwnerInv' /\ WaitInv'
    BY <1>2, <1>3, <1>8, <1>9 DEF Wake, WaitInv, Upgrades
  <1>10. ASSUME NEW c \in Ctxs, Expire(c) PROVE CountInv' /\ OwnerInv' /\ WaitInv'
    BY <1>3, <1>4, <1>8, <1>10 DEF Expire
  <1>11. ASSUME NEW c \in Ctxs, Interrupt(c) PROVE CountInv' /\ OwnerInv' /\ WaitInv'
    BY <1>3, <1>4, <1>11 DEF Interrupt
  <1>12. ASSUME NEW c \in Ctxs, TryLockShared(c) PROVE CountInv' /\ OwnerInv' /\ WaitInv'
    <2>1. CASE s >= 0
      <3>1. s + 1 >= 0
        BY <2>1 DEF TypeOK
      <3>2. Returns(c, "shared") /\ s' = s + 1 /\ mode[c] = "none" /\ u' = u
        BY <1>12, <3>1 DEF TryLockShared, Returns
      <3> QED BY <1>2, <2>1, <3>2, ToShared, WaitStep DEF Modes
    <2>2. CASE s < 0
      <3>1. s + 1 < 0 /\ s' = s + 1 /\ s' <= Min + MaxTries /\ mode' = mode
        BY <1>12, <2>2, SharedMutexAssumption DEF TryLockShared, TypeOK
      <3>2. Sharers' = Sharers
        BY <3>1 DEF Sharers
      <3>3. CountInv'
        BY <1>2, <2>2, <3>1, <3>2 DEF CountInv, TypeOK
      <3> QED BY <1>2, <1>12, <3>1, <3>3 DEF TryLockShared, OwnerInv, WaitInv, Upgrades
    <2> QED BY <2>1, <2>2 DEF TypeOK
  <1>13. ASSUME NEW c \in Ctxs, TryUnlockSharedAndLock(c)
         PROVE  CountInv' /\ OwnerInv' /\ WaitInv'
    <2>1. Returns(c, "unique") /\ u' = c /\ s' = Min
      BY <1>13 DEF TryUnlockSharedAndLock, Returns, TypeOK
    <2>2. \A d \in Ctxs : d # c => mode[d] = "none"
      BY <1>2, <1>13, HolderFacts DEF TryUnlockSharedAndLock
    <2> QED BY <1>2, <2>1, <2>2, ToUnique, WaitStep DEF Modes
  <1>14. ASSUME NEW c \in Ctxs, TryUnlockSharedAndLockUpgrade(c)
         PROVE  CountInv' /\ OwnerInv' /\ WaitInv'
    <2>1. /\ Returns(c, "upgrade") /\ Upgrades /\ u = NoCtx /\ u' = c
          /\ mode[c] = "shared" /\ s' = s - 1
      BY <1>14 DEF TryUnlockSharedAndLockUpgrade, CanLockUpgrade, Returns, TypeOK
    <2>2. s >= 0
      BY <1>2, <2>1, HolderFacts
    <2> QED BY <1>2, <2>1, <2>2, ToOther, WaitStep DEF Modes
  <1>15. ASSUME NEW c \in Ctxs, Unlock(c) PROVE CountInv' /\ OwnerInv' /\ WaitInv'
    <2>1. Returns(c, "none") /\ mode[c] = "unique" /\ u' = u /\ s' = 0
      BY <1>15 DEF Unlock, Release, Returns, TypeOK
    <2> QED BY <1>2, <2>1, FromUnique, WaitStep DEF Modes
  <1>16. ASSUME NEW c \in Ctxs, UnlockShared(c) PROVE CountInv' /\ OwnerInv' /\ WaitInv'
    <2>1. Returns(c, "none") /\ mode[c] = "shared" /\ u' = u /\ s' = s - 1
      BY <1>16 DEF UnlockShared, Release, Returns, TypeOK
    <2>2. s >= 0
      BY <1>2, <2>1, HolderFacts
    <2> QED BY <1>2, <2>1, <2>2, ToOther, WaitStep DEF Modes
  <1>17. ASSUME NEW c \in Ctxs, UnlockUpgrade(c) PROVE CountInv' /\ OwnerInv' /\ WaitInv'
    <2>1. Returns(c, "none") /\ mode[c] = "upgrade" /\ u' = NoCtx /\ s' = s
      BY <1>17 DEF UnlockUpgrade, Release, Returns, TypeOK
    <2>2. s >= 0
      BY <1>2, <2>1, HolderFacts
    <2> QED BY <1>2, <2>1, <2>2, ToOther, WaitStep DEF Modes
  <1>18. ASSUME NEW c \in Ctxs, UnlockAndLockShared(c)
         PROVE  CountInv' /\ OwnerInv' /\ WaitInv'
    <2>1. Returns(c, "shared") /\ mode[c] = "unique" /\ u' = u /\ s' = 1
      BY <1>18 DEF UnlockAndLockShared, Release, Returns, TypeOK
    <2> QED BY <1>2, <2>1, FromUnique, WaitStep DEF Modes
  <1>19. ASSUME NEW c \in Ctxs, UnlockAndLockUpgrade(c)
         PROVE  CountInv' /\ OwnerInv' /\ WaitInv'
    <2>1. Returns(c, "upgrade") /\ mode[c] = "unique" /\ u' = u /\ s' = 0 /\ Upgrades
      BY <1>19 DEF UnlockAndLockUpgrade, Release, Returns, TypeOK
    <2> QED BY <1>2, <2>1, FromUnique, WaitStep DEF Modes
  <1>20. ASSUME NEW c \in Ctxs, UnlockUpgradeAndLockShared(c)
         PROVE  CountInv' /\ OwnerInv' /\ WaitInv'
    <2>1. Returns(c, "shared") /\ mode[c] = "upgrade" /\ u' = NoCtx /\ s' = s + 1
      BY <1>20 DEF UnlockUpgradeAndLockShared, Release, Returns, TypeOK
    <2>2. s >= 0
      BY <1>2, <2>1, HolderFacts
    <2> QED BY <1>2, <2>1, <2>2, ToShared, WaitStep DEF Modes
  <1> QED BY <1>5, <1>6, <1>7, <1>9, <1>10, <1>11, <1>12, <1>13, <1>14, <1>15, <1>16,
             <1>17, <1>18, <1>19, <1>20 DEF Next

\* What u and s say of the holders of the lock stays true.
THEOREM SharedInvariant == Spec => [](TypeOK /\ HoldersInv)
  BY InitInv, StepType, StepInv, PTL DEF Spec

\* The state of the lock and of its callers stays well-formed; a note is only
\* ever left with a context.
THEOREM TypeCorrect == Spec => []TypeOK
  BY SharedInvariant, PTL

\* Nobody is inside together with the writer, however often the three modes
\* are converted into each other, calls time out or are interrupted, and failed
\* tries count s up, for any number of contexts.
THEOREM WriterIsExclusive == Spec => []WriterExclusive
  <1>1. TypeOK /\ HoldersInv => WriterExclusive
    BY DEF TypeOK, HoldersInv, CountInv, OwnerInv, WriterExclusive, Sharers
  <1> QED BY <1>1, SharedInvariant, PTL
=============================================================================
