----------------------------- MODULE PoolProofs -----------------------------
(***************************************************************************)
(* ircd::ctx::pool neither loses nor repeats a job, keeps its soft limit,  *)
(* and lets no idle worker sleep through a job, for any number of workers  *)
(* and submitters and any limits.                                          *)
(*                                                                         *)
(* PlaceInv says where jobs and contexts are.  Attended counts notes, and  *)
(* counting is not inductive: a push may leave its note with a worker that *)
(* has one.  NotesInv is: dock::notify() moves whom it notifies to the     *)
(* back, so the notes for the queued jobs are with the last in the dock,   *)
(* and the front one gets a note that counts.                              *)
(***************************************************************************)
EXTENDS Pool, FiniteSetTheorems, TLAPS

-----------------------------------------------------------------------------
(***************************************************************************)
(* The docks: what is done to the set of the contexts asleep in them, and  *)
(* that no context comes to be in a dock twice.                            *)
(***************************************************************************)

\* No context is twice in the dock s.
Once(s) == \A i, j \in 1..Len(s) : s[i] = s[j] => i = j

\* list::remove() of a member closes the gap at its place.
LEMMA RemoveAt ==
    ASSUME NEW S, NEW s \in Seq(S), NEW c \in Waiting(s)
    PROVE  /\ Len(s) - 1 \in Nat
           /\ Remove(s, c) \in Seq(S) /\ Len(Remove(s, c)) = Len(s) - 1
           /\ \E x \in 1..Len(s) :
                /\ s[x] = c
                /\ \A k \in 1..(Len(s) - 1) :
                    Remove(s, c)[k] = IF k < x THEN s[k] ELSE s[k + 1]
  <1> DEFINE x == CHOOSE k \in 1..Len(s) : s[k] = c
             r == [k \in 1..(Len(s) - 1) |-> IF k < x THEN s[k] ELSE s[k + 1]]
  <1>1. x \in 1..Len(s) /\ s[x] = c
    BY DEF Waiting
  <1>2. Len(s) \in Nat /\ Len(s) - 1 \in Nat /\ \A k \in 1..Len(s) : s[k] \in S
    BY <1>1
  <1>3. Remove(s, c) = r
    BY DEF Remove
  <1> HIDE DEF x
  <1>4. r \in Seq(S) /\ Len(r) = Len(s) - 1
    BY <1>1, <1>2
  <1>5. \A k \in 1..(Len(s) - 1) : r[k] = IF k < x THEN s[k] ELSE s[k + 1]
    BY <1>4
  <1> QED BY <1>1, <1>2, <1>3, <1>4, <1>5

\* It leaves at least all others.
LEMMA RemoveRest ==
    ASSUME NEW S, NEW s \in Seq(S), NEW c \in Waiting(s)
    PROVE  /\ Remove(s, c) \in Seq(S) /\ Len(Remove(s, c)) = Len(s) - 1
           /\ Waiting(Remove(s, c)) \subseteq Waiting(s)
           /\ Waiting(s) \ {c} \subseteq Waiting(Remove(s, c))
  <1> DEFINE r == Remove(s, c)
  <1>1. Len(s) \in Nat /\ Len(s) - 1 \in Nat /\ r \in Seq(S) /\ Len(r) = Len(s) - 1
    BY RemoveAt
  <1>2. PICK x \in 1..Len(s) :
            s[x] = c /\ \A k \in 1..Len(r) : r[k] = IF k < x THEN s[k] ELSE s[k + 1]
    BY <1>1, RemoveAt
  <1> HIDE DEF r
  <1>3. Waiting(r) \subseteq Waiting(s)
    BY <1>1, <1>2 DEF Waiting
  <1>4. ASSUME NEW y \in Waiting(s), y # c PROVE y \in Waiting(r)
    <2>1. PICK k \in 1..Len(s) : s[k] = y
      BY DEF Waiting
    <2>2. CASE k < x
      BY <1>1, <1>2, <2>1, <2>2 DEF Waiting
    <2>3. CASE k > x
      <3>1. k - 1 \in 1..Len(r) /\ r[k - 1] = y
        BY <1>1, <1>2, <2>1, <2>3
      <3> QED BY <3>1 DEF Waiting
    <2> QED BY <1>2, <1>4, <2>1, <2>2, <2>3
  <1> QED BY <1>1, <1>3, <1>4 DEF r

\* list::remove() takes any context off at most once, whether or not it is there.
LEMMA RemoveType ==
    ASSUME NEW S, NEW s \in Seq(S), NEW c
    PROVE  Remove(s, c) \in Seq(S)
  <1> DEFINE x == CHOOSE k \in 1..Len(s) : s[k] = c
             r == [k \in 1..(Len(s) - 1) |-> IF k < x THEN s[k] ELSE s[k + 1]]
  <1>1. Len(s) \in Nat /\ \A k \in 1..Len(s) : s[k] \in S
    OBVIOUS
  <1>2. Remove(s, c) = r
    BY DEF Remove
  <1> HIDE DEF x
  <1>3. r \in [1..(Len(s) - 1) -> S]
    BY <1>1
  <1>4. CASE Len(s) = 0
    <2>1. r \in [1..0 -> S]
      BY <1>3, <1>4
    <2> QED BY <1>2, <2>1
  <1>5. CASE Len(s) - 1 \in Nat
    BY <1>2, <1>3, <1>5
  <1> QED BY <1>1, <1>4, <1>5

\* Of a dock in which no context is twice it leaves exactly the others.
LEMMA RemoveFacts ==
    ASSUME NEW S, NEW s \in Seq(S), NEW c \in Waiting(s), Once(s)
    PROVE  /\ Remove(s, c) \in Seq(S) /\ Once(Remove(s, c))
           /\ Waiting(Remove(s, c)) = Waiting(s) \ {c}
  <1> DEFINE r == Remove(s, c)
  <1>1. Len(s) \in Nat /\ Len(s) - 1 \in Nat /\ r \in Seq(S) /\ Len(r) = Len(s) - 1
    BY RemoveAt
  <1>2. PICK x \in 1..Len(s) :
            s[x] = c /\ \A k \in 1..Len(r) : r[k] = IF k < x THEN s[k] ELSE s[k + 1]
    BY <1>1, RemoveAt
  <1>3. Waiting(r) \subseteq Waiting(s) /\ Waiting(s) \ {c} \subseteq Waiting(r)
    BY RemoveRest
  <1> HIDE DEF r
  <1>4. Once(r)
    BY <1>1, <1>2 DEF Once
  <1>5. c \notin Waiting(r)
    BY <1>1, <1>2 DEF Waiting, Once
  <1> QED BY <1>1, <1>3, <1>4, <1>5 DEF r

\* Joining the dock at its back.
LEMMA AppendRest ==
    ASSUME NEW S, NEW s \in Seq(S), NEW c \in S
    PROVE  /\ Append(s, c) \in Seq(S)
           /\ Waiting(Append(s, c)) = Waiting(s) \cup {c}
  BY DEF Waiting

\* Joining a dock in which the context is not.
LEMMA AppendFacts ==
    ASSUME NEW S, NEW s \in Seq(S), NEW c \in S, c \notin Waiting(s), Once(s)
    PROVE  /\ Append(s, c) \in Seq(S) /\ Once(Append(s, c))
           /\ Waiting(Append(s, c)) = Waiting(s) \cup {c}
  BY DEF Waiting, Once

\* dock::notify() moves the front to the back.
LEMMA RotateAt ==
    ASSUME NEW S, NEW s \in Seq(S), s # <<>>
    PROVE  /\ Rotate(s) \in Seq(S) /\ Len(Rotate(s)) = Len(s)
           /\ Len(s) \in Nat /\ Len(s) > 0
           /\ \A k \in 1..Len(s) : Rotate(s)[k] = IF k < Len(s) THEN s[k + 1] ELSE s[1]
  <1>1. Rotate(s) \in Seq(S) /\ Len(Rotate(s)) = Len(s) /\ Len(s) \in Nat /\ Len(s) > 0
    BY DEF Rotate
  <1>2. \A k \in 1..Len(s) : Rotate(s)[k] = IF k < Len(s) THEN s[k + 1] ELSE s[1]
    BY DEF Rotate
  <1> QED BY <1>1, <1>2

\* It changes the order alone.
LEMMA RotateFacts ==
    ASSUME NEW S, NEW s \in Seq(S)
    PROVE  /\ Rotate(s) \in Seq(S) /\ Len(Rotate(s)) = Len(s)
           /\ Waiting(Rotate(s)) = Waiting(s)
           /\ Once(s) => Once(Rotate(s))
  <1>1. CASE s = <<>>
    BY <1>1 DEF Rotate
  <1>2. CASE s # <<>>
    <2> DEFINE r == Rotate(s)
    <2>1. r \in Seq(S) /\ Len(r) = Len(s) /\ Len(s) \in Nat /\ Len(s) > 0
      BY <1>2, RotateAt
    <2>2. \A k \in 1..Len(s) : r[k] = IF k < Len(s) THEN s[k + 1] ELSE s[1]
      BY <1>2, RotateAt
    <2> HIDE DEF r
    <2>3. Waiting(r) \subseteq Waiting(s)
      BY <2>1, <2>2 DEF Waiting
    <2>4. ASSUME NEW y \in Waiting(s) PROVE y \in Waiting(r)
      <3>1. PICK k \in 1..Len(s) : s[k] = y
        BY DEF Waiting
      <3>2. PICK j \in 1..Len(r) : r[j] = y
        <4>1. CASE k = 1
          BY <2>1, <2>2, <3>1, <4>1
        <4>2. CASE k > 1
          <5>1. k - 1 \in 1..Len(r) /\ r[k - 1] = y
            BY <2>1, <2>2, <3>1, <4>2
          <5> QED BY <5>1
        <4> QED BY <2>1, <4>1, <4>2
      <3> QED BY <3>2 DEF Waiting
    <2>5. Once(s) => Once(r)
      BY <2>1, <2>2 DEF Once
    <2> QED BY <2>1, <2>3, <2>4, <2>5 DEF r
  <1> QED BY <1>1, <1>2

\* The front leaves.
LEMMA TailFacts ==
    ASSUME NEW S, NEW s \in Seq(S), s # <<>>
    PROVE  /\ Head(s) \in Waiting(s) /\ Head(s) \in S
           /\ Tail(s) \in Seq(S) /\ Len(Tail(s)) = Len(s) - 1
           /\ Once(s) => Once(Tail(s)) /\ Waiting(Tail(s)) = Waiting(s) \ {Head(s)}
  <1> DEFINE r == Tail(s)
  <1>1. /\ r \in Seq(S) /\ Len(s) \in Nat /\ Len(s) > 0 /\ Len(r) = Len(s) - 1
        /\ Head(s) = s[1] /\ Head(s) \in S
    OBVIOUS
  <1>2. \A k \in 1..Len(r) : r[k] = s[k + 1]
    OBVIOUS
  <1> HIDE DEF r
  <1>3. Head(s) \in Waiting(s)
    BY <1>1 DEF Waiting
  <1>4. ASSUME Once(s) PROVE Once(r)
    BY <1>1, <1>2, <1>4 DEF Once
  <1>5. ASSUME Once(s) PROVE Waiting(r) \subseteq Waiting(s) \ {Head(s)}
    BY <1>1, <1>2, <1>5 DEF Once, Waiting
  <1>6. ASSUME NEW c \in Waiting(s), c # Head(s) PROVE c \in Waiting(r)
    <2>1. PICK k \in 1..Len(s) : s[k] = c
      BY DEF Waiting
    <2>2. k - 1 \in 1..Len(r) /\ r[k - 1] = c
      BY <1>1, <1>2, <1>6, <2>1
    <2> QED BY <2>2 DEF Waiting
  <1> QED BY <1>1, <1>3, <1>4, <1>5, <1>6 DEF r

\* Who is notified is asleep in the dock.
LEMMA NotifyFacts ==
    ASSUME NEW S, NEW s \in Seq(S)
    PROVE  NotifyOne(s) \subseteq Waiting(s) /\ Waiting(s) \subseteq S
  BY DEF NotifyOne, Waiting

-----------------------------------------------------------------------------
(***************************************************************************)
(* Where jobs and contexts are, and who has a note.                        *)
(***************************************************************************)

\* Nobody is twice in a dock, nor a job in the queue, and a worker has a job
\* exactly while it works.
OnceInv ==
    /\ Once(d) /\ Once(q) /\ Once(q_max)
    /\ \A w \in Workers : state[w] = "work" <=> job[w] # NoJob

PlaceInv == TypeOK /\ JobsExact /\ OnceInv

\* As many workers at the back of the dock as there are jobs have a note.
NotesInv ==
    term = {} => \A i \in 1..Len(d) : i + Len(q) > Len(d) => d[i] \in noted

-----------------------------------------------------------------------------
\* The initial state.
LEMMA InitInv == Init => PlaceInv /\ SoftLimit /\ NotesInv
  <1> SUFFICES ASSUME Init PROVE PlaceInv /\ SoftLimit /\ NotesInv
    OBVIOUS
  <1>1. TypeOK
    <2>1. destroyed \in BOOLEAN
      BY Zenon DEF Init
    <2>2. <<>> \in Seq(Workers) /\ <<>> \in Seq(Submitters)
      OBVIOUS
    <2> QED BY <2>1, <2>2 DEF Init, TypeOK
  <1>2. OnceInv
    BY DEF Init, OnceInv, Once
  <1>3. Waiting(<<>>) = {}
    BY DEF Waiting
  <1>4. JobsExact
    BY <1>3 DEF Init, JobsExact
  <1>5. SoftLimit /\ NotesInv
    BY DEF Init, SoftLimit, NotesInv
  <1> QED BY <1>1, <1>2, <1>4, <1>5 DEF PlaceInv

\* Where everything but w is, when w has left the dock of the queue and its
\* job: dd, qm and ss are d, q_max and submit then.
Without(w, dd, qm, ss) ==
    /\ dd \in Seq(Workers) /\ Once(dd)
    /\ \A v \in Workers : v \in Waiting(dd) <=> v # w /\ state[v] = "pop"
    /\ qm \in Seq(Submitters) /\ Once(qm)
    /\ ss \in [Submitters -> {"none", "blocked", "queued", "running", "done", "failed"}]
    /\ \A s \in Submitters :
        /\ ss[s] = "queued" <=> s \in Waiting(q)
        /\ ss[s] = "blocked" <=> s \in Waiting(qm)
        /\ ss[s] = "running" <=>
            \E v \in Workers : v # w /\ state[v] = "work" /\ job[v] = s

\* The slice of a worker from the head of the loop of main() on.
LEMMA LoopPlace ==
    ASSUME PlaceInv, NEW w \in Workers, NEW dd, NEW nn, NEW ss,
           Without(w, dd, q_max', ss), nn \subseteq Workers \cup Submitters,
           Loop(w, dd, nn, ss), UNCHANGED members
    PROVE  PlaceInv'
  <1> USE DEF PlaceInv
  <1>1. /\ UNCHANGED <<ctxs, term, deleted, destroyed, soft>>
        /\ noted' \subseteq Workers \cup Submitters
    BY DEF Loop, members
  <1>2. CASE /\ state' = [state EXCEPT ![w] = "dead"] /\ job' = [job EXCEPT ![w] = NoJob]
             /\ d' = dd /\ submit' = ss /\ UNCHANGED q
    <2>1. TypeOK'
      BY <1>1, <1>2 DEF TypeOK, Without
    <2>2. OnceInv'
      BY <1>2 DEF TypeOK, OnceInv, Without
    <2>3. JobsExact'
      BY <1>2, PoolAssumption DEF TypeOK, OnceInv, JobsExact, Without
    <2> QED BY <2>1, <2>2, <2>3
  <1>3. CASE /\ q # <<>> /\ state' = [state EXCEPT ![w] = "work"]
             /\ job' = [job EXCEPT ![w] = Head(q)]
             /\ submit' = [ss EXCEPT ![Head(q)] = "running"] /\ d' = dd /\ q' = Tail(q)
    <2> DEFINE h == Head(q)
    <2>1. /\ h \in Waiting(q) /\ h \in Submitters
          /\ q' \in Seq(Submitters) /\ Once(q') /\ Waiting(q') = Waiting(q) \ {h}
      BY <1>3, TailFacts DEF TypeOK, OnceInv
    <2>2. ss[h] = "queued" /\ h # NoJob
      BY <2>1, PoolAssumption DEF Without
    <2>3. \A v \in Workers : job[v] = h => v = w
      BY <2>1, <2>2 DEF OnceInv, Without
    <2> HIDE DEF h
    <2>4. state' = [state EXCEPT ![w] = "work"] /\ job' = [job EXCEPT ![w] = h]
          /\ submit' = [ss EXCEPT ![h] = "running"] /\ d' = dd
      BY <1>3 DEF h
    <2>5. TypeOK'
      BY <1>1, <2>1, <2>4 DEF TypeOK, Without
    <2>6. OnceInv'
      BY <2>1, <2>2, <2>4 DEF TypeOK, OnceInv, Without
    <2>7. \A s \in Submitters : submit'[s] = "queued" <=> s \in Waiting(q')
      BY <2>1, <2>4 DEF Without
    <2>8. \A s \in Submitters : submit'[s] = "blocked" <=> s \in Waiting(q_max')
      BY <2>1, <2>2, <2>4 DEF Without
    <2>9. \A s \in Submitters : submit'[s] = "running" <=>
            \E v \in Workers : state'[v] = "work" /\ job'[v] = s
      BY <2>1, <2>2, <2>4 DEF TypeOK, Without
    <2>10. \A v \in Workers : state'[v] = "pop" <=> v \in Waiting(d')
      BY <2>4 DEF TypeOK, Without
    <2>11. \A v, x \in Workers : job'[v] = job'[x] /\ job'[v] # NoJob => v = x
      BY <2>3, <2>4 DEF TypeOK, JobsExact
    <2>12. JobsExact'
      BY <2>7, <2>8, <2>9, <2>10, <2>11 DEF JobsExact, Waiting
    <2> QED BY <2>5, <2>6, <2>12
  <1>4. CASE /\ state' = [state EXCEPT ![w] = "pop"] /\ job' = [job EXCEPT ![w] = NoJob]
             /\ d' = Append(dd, w) /\ submit' = ss /\ UNCHANGED q
    <2>1. d' \in Seq(Workers) /\ Once(d') /\ Waiting(d') = Waiting(dd) \cup {w}
      BY <1>4, AppendFacts DEF Without
    <2>2. TypeOK'
      BY <1>1, <1>4, <2>1 DEF TypeOK, Without
    <2>3. OnceInv'
      BY <1>4, <2>1 DEF TypeOK, OnceInv, Without
    <2>4. \A v \in Workers : state'[v] = "pop" <=> v \in Waiting(d')
      BY <1>4, <2>1 DEF TypeOK, Without
    <2>5. \A s \in Submitters :
            /\ submit'[s] = "queued" <=> s \in Waiting(q')
            /\ submit'[s] = "blocked" <=> s \in Waiting(q_max')
            /\ submit'[s] = "running" <=>
                \E v \in Workers : state'[v] = "work" /\ job'[v] = s
      BY <1>4 DEF TypeOK, Without
    <2>6. \A v, x \in Workers : job'[v] = job'[x] /\ job'[v] # NoJob => v = x
      BY <1>4 DEF TypeOK, JobsExact
    <2>7. JobsExact'
      BY <2>4, <2>5, <2>6 DEF JobsExact, Waiting
    <2> QED BY <2>2, <2>3, <2>7
  <1> QED BY <1>2, <1>3, <1>4 DEF Loop

\* The end of pool::operator().
LEMMA PushPlace ==
    ASSUME PlaceInv, NEW s \in Submitters, NEW qm, NEW nn,
           submit[s] \in {"none", "blocked"},
           qm \in Seq(Submitters), Once(qm), Waiting(qm) = Waiting(q_max) \ {s},
           nn \subseteq Workers \cup Submitters,
           Push(s, qm, nn), UNCHANGED <<state, job, members>>
    PROVE  PlaceInv'
  <1> USE DEF PlaceInv
  <1>1. s \notin Waiting(q) /\ \A w \in Workers : job[w] # s
    BY PoolAssumption DEF JobsExact, OnceInv
  <1>2. CASE submit' = [submit EXCEPT ![s] = "failed"] /\ noted' = nn /\ UNCHANGED <<q, d>>
    <2>1. TypeOK'
      BY <1>2 DEF TypeOK, Push, members
    <2>2. OnceInv'
      BY <1>2 DEF OnceInv, Push
    <2>3. \A t \in Submitters :
            /\ submit'[t] = "queued" <=> t \in Waiting(q')
            /\ submit'[t] = "blocked" <=> t \in Waiting(q_max')
            /\ submit'[t] = "running" <=>
                \E w \in Workers : state'[w] = "work" /\ job'[w] = t
      BY <1>1, <1>2 DEF TypeOK, JobsExact, Push
    <2>4. JobsExact'
      BY <1>2, <2>3 DEF JobsExact, Waiting
    <2> QED BY <2>1, <2>2, <2>4
  <1>3. CASE /\ submit' = [submit EXCEPT ![s] = "queued"] /\ q' = Append(q, s)
             /\ d' = Rotate(d) /\ noted' = nn \cup NotifyOne(d)
    <2>1. q' \in Seq(Submitters) /\ Once(q') /\ Waiting(q') = Waiting(q) \cup {s}
      BY <1>1, <1>3, AppendFacts DEF TypeOK, OnceInv
    <2>2. d' \in Seq(Workers) /\ Once(d') /\ Waiting(d') = Waiting(d)
      BY <1>3, RotateFacts DEF TypeOK, OnceInv
    <2>3. noted' \subseteq Workers \cup Submitters
      BY <1>3, NotifyFacts DEF TypeOK
    <2>4. TypeOK'
      BY <1>3, <2>1, <2>2, <2>3 DEF TypeOK, Push, members
    <2>5. OnceInv'
      BY <2>1, <2>2 DEF OnceInv, Push
    <2>6. \A t \in Submitters :
            /\ submit'[t] = "queued" <=> t \in Waiting(q')
            /\ submit'[t] = "blocked" <=> t \in Waiting(q_max')
            /\ submit'[t] = "running" <=>
                \E w \in Workers : state'[w] = "work" /\ job'[w] = t
      BY <1>1, <1>3, <2>1 DEF TypeOK, JobsExact, Push
    <2>7. JobsExact'
      BY <2>2, <2>6 DEF JobsExact, Waiting
    <2> QED BY <2>4, <2>5, <2>7
  <1> QED BY <1>2, <1>3 DEF Push

\* A worker that does not work yet is without a job and in no dock.
LEMMA WithoutPosted ==
    ASSUME PlaceInv, NEW w \in Workers, state[w] = "posted"
    PROVE  Without(w, d, Rotate(q_max), submit)
  <1>1. /\ Rotate(q_max) \in Seq(Submitters) /\ Once(Rotate(q_max))
        /\ Waiting(Rotate(q_max)) = Waiting(q_max)
    BY RotateFacts DEF PlaceInv, TypeOK, OnceInv
  <1> QED BY <1>1 DEF PlaceInv, TypeOK, JobsExact, OnceInv, Without

\* A worker leaves its wait.
LEMMA WithoutPop ==
    ASSUME PlaceInv, NEW w \in Workers, state[w] = "pop"
    PROVE  Without(w, Remove(d, w), q_max, submit)
  <1>1. w \in Waiting(d)
    BY DEF PlaceInv, JobsExact
  <1>2. /\ Remove(d, w) \in Seq(Workers) /\ Once(Remove(d, w))
        /\ Waiting(Remove(d, w)) = Waiting(d) \ {w}
    BY <1>1, RemoveFacts DEF PlaceInv, TypeOK, OnceInv
  <1> QED BY <1>2 DEF PlaceInv, TypeOK, JobsExact, OnceInv, Without

\* A worker has finished its job.
LEMMA WithoutWork ==
    ASSUME PlaceInv, NEW w \in Workers, state[w] = "work"
    PROVE  Without(w, d, Rotate(q_max), [submit EXCEPT ![job[w]] = "done"])
  <1> DEFINE ss == [submit EXCEPT ![job[w]] = "done"]
  <1>1. /\ Rotate(q_max) \in Seq(Submitters) /\ Once(Rotate(q_max))
        /\ Waiting(Rotate(q_max)) = Waiting(q_max)
    BY RotateFacts DEF PlaceInv, TypeOK, OnceInv
  <1>2. job[w] \in Submitters /\ job[w] # NoJob /\ submit[job[w]] = "running"
    BY DEF PlaceInv, TypeOK, JobsExact, OnceInv
  <1>3. ss \in [Submitters -> {"none", "blocked", "queued", "running", "done", "failed"}]
    BY DEF PlaceInv, TypeOK
  <1>4. \A s \in Submitters :
            /\ ss[s] = "queued" <=> s \in Waiting(q)
            /\ ss[s] = "blocked" <=> s \in Waiting(q_max)
    BY <1>2 DEF PlaceInv, TypeOK, JobsExact
  <1>5. \A s \in Submitters : ss[s] = "running" <=>
            \E v \in Workers : v # w /\ state[v] = "work" /\ job[v] = s
    BY <1>2 DEF PlaceInv, TypeOK, JobsExact
  <1> HIDE DEF ss
  <1>6. Without(w, d, Rotate(q_max), ss)
    BY <1>1, <1>3, <1>4, <1>5 DEF PlaceInv, TypeOK, JobsExact, OnceInv, Without
  <1> QED BY <1>6 DEF ss

\* PlaceInv is inductive.
LEMMA StepPlace == PlaceInv /\ [Next]_vars => PlaceInv'
  <1> SUFFICES ASSUME PlaceInv, [Next]_vars PROVE PlaceInv'
    OBVIOUS
  <1>1. CASE UNCHANGED <<state, job, d, q, q_max, submit>> /\ TypeOK'
    BY <1>1 DEF PlaceInv, JobsExact, OnceInv, Waiting
  <1>2. CASE UNCHANGED vars
    BY <1>1, <1>2 DEF PlaceInv, TypeOK, vars
  <1>3. ASSUME NEW s \in Submitters, Submit(s) PROVE PlaceInv'
    <2>1. submit[s] = "none" /\ s \notin Waiting(q_max)
      BY <1>3 DEF Submit, PlaceInv, JobsExact
    <2>2. CASE Push(s, q_max, noted)
      BY <1>3, <2>1, <2>2, PushPlace DEF Submit, PlaceInv, TypeOK, OnceInv
    <2>3. CASE ~Push(s, q_max, noted)
      <3>1. /\ q_max' = Append(q_max, s) /\ submit' = [submit EXCEPT ![s] = "blocked"]
            /\ UNCHANGED <<d, q, noted, state, job, members>>
        BY <1>3, <2>3 DEF Submit
      <3>2. /\ q_max' \in Seq(Submitters) /\ Once(q_max')
            /\ Waiting(q_max') = Waiting(q_max) \cup {s}
        BY <2>1, <3>1, AppendFacts DEF PlaceInv, TypeOK, OnceInv
      <3>3. TypeOK'
        BY <3>1, <3>2 DEF PlaceInv, TypeOK, members
      <3>4. OnceInv'
        BY <3>1, <3>2 DEF PlaceInv, OnceInv
      <3>5. \A t \in Submitters :
            /\ submit'[t] = "queued" <=> t \in Waiting(q')
            /\ submit'[t] = "blocked" <=> t \in Waiting(q_max')
            /\ submit'[t] = "running" <=>
                \E w \in Workers : state'[w] = "work" /\ job'[w] = t
        BY <2>1, <3>1, <3>2 DEF PlaceInv, TypeOK, JobsExact
      <3>6. JobsExact'
        BY <3>1, <3>5 DEF PlaceInv, JobsExact, Waiting
      <3> QED BY <3>3, <3>4, <3>6 DEF PlaceInv
    <2> QED BY <2>2, <2>3
  <1>4. ASSUME NEW s \in Submitters, submit[s] = "blocked"
        PROVE  /\ Remove(q_max, s) \in Seq(Submitters) /\ Once(Remove(q_max, s))
               /\ Waiting(Remove(q_max, s)) = Waiting(q_max) \ {s}
               /\ NotifyOne(Remove(q_max, s)) \subseteq Submitters
    <2>1. /\ Remove(q_max, s) \in Seq(Submitters) /\ Once(Remove(q_max, s))
          /\ Waiting(Remove(q_max, s)) = Waiting(q_max) \ {s}
      BY <1>4, RemoveFacts DEF PlaceInv, TypeOK, JobsExact, OnceInv
    <2>2. NotifyOne(Remove(q_max, s)) \subseteq Submitters
      BY <2>1, NotifyFacts
    <2> QED BY <2>1, <2>2
  <1>5. ASSUME NEW s \in Submitters, WakeSubmit(s) PROVE PlaceInv'
    <2>1. CASE WouldBlock
      <3>1. noted' = noted \ {s} /\ UNCHANGED <<d, q, q_max, submit, state, job, members>>
        BY <1>5, <2>1 DEF WakeSubmit
      <3> QED BY <1>1, <3>1 DEF PlaceInv, TypeOK, members
    <2>2. CASE ~WouldBlock
      <3>1. noted \ {s} \subseteq Workers \cup Submitters
        BY DEF PlaceInv, TypeOK
      <3> QED BY <1>4, <1>5, <2>2, <3>1, PushPlace DEF WakeSubmit
    <2> QED BY <2>1, <2>2
  <1>6. ASSUME NEW s \in Submitters, InterruptSubmit(s) PROVE PlaceInv'
    <2>1. /\ submit[s] = "blocked" /\ submit' = [submit EXCEPT ![s] = "failed"]
          /\ UNCHANGED <<d, q, state, job, members>>
          /\ q_max' \in Seq(Submitters) /\ Once(q_max')
          /\ Waiting(q_max') = Waiting(q_max) \ {s}
      BY <1>4, <1>6 DEF InterruptSubmit
    <2>2. noted' \subseteq Workers \cup Submitters
      BY <1>4, <1>6 DEF InterruptSubmit, PlaceInv, TypeOK
    <2>3. TypeOK'
      BY <2>1, <2>2 DEF PlaceInv, TypeOK, members
    <2>4. OnceInv'
      BY <2>1 DEF PlaceInv, OnceInv
    <2>5. \A t \in Submitters :
            /\ submit'[t] = "queued" <=> t \in Waiting(q')
            /\ submit'[t] = "blocked" <=> t \in Waiting(q_max')
            /\ submit'[t] = "running" <=>
                \E w \in Workers : state'[w] = "work" /\ job'[w] = t
      BY <2>1 DEF PlaceInv, TypeOK, JobsExact
    <2>6. JobsExact'
      BY <2>1, <2>5 DEF PlaceInv, JobsExact, Waiting
    <2> QED BY <2>3, <2>4, <2>6 DEF PlaceInv
  <1>7. noted \subseteq Workers \cup Submitters /\ NotifyOne(q_max) \subseteq Submitters
    BY NotifyFacts DEF PlaceInv, TypeOK
  <1>8. ASSUME NEW w \in Workers, Enter(w) PROVE PlaceInv'
    <2>1. CASE /\ state' = [state EXCEPT ![w] = "dead"]
               /\ UNCHANGED <<job, d, q, q_max, noted, submit>>
      <3>1. /\ state[w] = "posted" /\ state' = [state EXCEPT ![w] = "dead"]
            /\ UNCHANGED <<job, d, q, q_max, noted, submit, members>>
        BY <1>8, <2>1 DEF Enter
      <3>2. TypeOK'
        BY <3>1 DEF PlaceInv, TypeOK, members
      <3>3. OnceInv'
        BY <3>1 DEF PlaceInv, TypeOK, OnceInv
      <3>4. JobsExact'
        BY <3>1 DEF PlaceInv, TypeOK, JobsExact, Waiting
      <3> QED BY <3>2, <3>3, <3>4 DEF PlaceInv
    <2>2. CASE /\ q_max' = Rotate(q_max)
               /\ Loop(w, d, noted \cup NotifyOne(q_max), submit)
      BY <1>7, <1>8, <2>2, WithoutPosted, LoopPlace DEF Enter
    <2> QED BY <1>8, <2>1, <2>2 DEF Enter
  <1>9. ASSUME NEW w \in Workers, Wake(w) PROVE PlaceInv'
    <2>1. CASE q = <<>>
      <3>1. noted' = noted \ {w} /\ UNCHANGED <<state, job, d, q, submit, q_max, members>>
        BY <1>9, <2>1 DEF Wake
      <3> QED BY <1>1, <3>1 DEF PlaceInv, TypeOK, members
    <2>2. CASE q # <<>>
      <3>1. Loop(w, Remove(d, w), noted, submit) /\ UNCHANGED <<q_max, members>>
        BY <1>9, <2>2 DEF Wake
      <3>2. Without(w, Remove(d, w), q_max', submit)
        BY <1>9, <3>1, WithoutPop DEF Wake
      <3> QED BY <1>7, <3>1, <3>2, LoopPlace
    <2> QED BY <2>1, <2>2
  <1>10. ASSUME NEW w \in Workers, Throw(w) PROVE PlaceInv'
    <2> DEFINE dd == Remove(d, w)
    <2>1. Loop(w, dd, noted \cup NotifyOne(dd), submit) /\ UNCHANGED <<q_max, members>>
      BY <1>10 DEF Throw
    <2>2. Without(w, dd, q_max', submit)
      BY <1>10, <2>1, WithoutPop DEF Throw
    <2> HIDE DEF dd
    <2>3. NotifyOne(dd) \subseteq Workers
      BY <2>2, NotifyFacts DEF Without
    <2>4. noted \cup NotifyOne(dd) \subseteq Workers \cup Submitters
      BY <1>7, <2>3
    <2> QED BY <2>1, <2>2, <2>4, LoopPlace
  <1>11. ASSUME NEW w \in Workers, Finish(w) PROVE PlaceInv'
    BY <1>7, <1>11, WithoutWork, LoopPlace DEF Finish
  <1>12. ASSUME NEW w \in Workers, Add(w) PROVE PlaceInv'
    <2>1. /\ state[w] = "none" /\ state' = [state EXCEPT ![w] = "posted"]
          /\ ctxs' = Append(ctxs, w)
          /\ UNCHANGED <<job, term, deleted, d, q, q_max, noted, submit, destroyed, soft>>
      BY <1>12 DEF Add
    <2>2. TypeOK'
      BY <2>1 DEF PlaceInv, TypeOK
    <2>3. OnceInv'
      BY <2>1 DEF PlaceInv, TypeOK, OnceInv
    <2>4. \A v \in Workers : (state'[v] = "pop" <=> state[v] = "pop")
                             /\ (state'[v] = "work" <=> state[v] = "work")
      BY <2>1 DEF PlaceInv, TypeOK
    <2>5. JobsExact'
      BY <2>1, <2>4 DEF PlaceInv, JobsExact, Waiting
    <2> QED BY <2>2, <2>3, <2>5 DEF PlaceInv
  <1>13. CASE Del
    <2>1. ctxs \in Seq(Workers) /\ Len(ctxs) \in Nat /\ Len(ctxs) > 0
      BY <1>13 DEF Del, PlaceInv, TypeOK
    <2>2. ctxs[Len(ctxs)] \in Workers /\ SubSeq(ctxs, 1, Len(ctxs) - 1) \in Seq(Workers)
      BY <2>1
    <2>3. ctxs' \in Seq(Workers) /\ deleted' \subseteq Workers /\ term' \subseteq Workers
      BY <1>13, <2>2 DEF Del, PlaceInv, TypeOK
    <2>4. TypeOK'
      BY <1>13, <2>3 DEF Del, PlaceInv, TypeOK
    <2> QED BY <1>1, <1>13, <2>4 DEF Del
  <1>14. CASE Terminate
    <2>1. Waiting(ctxs) \subseteq Workers
      BY NotifyFacts DEF PlaceInv, TypeOK
    <2>2. TypeOK'
      BY <1>14, <2>1 DEF Terminate, PlaceInv, TypeOK
    <2> QED BY <1>1, <1>14, <2>2 DEF Terminate
  <1>15. CASE Join
    <2>1. TypeOK'
      BY <1>15 DEF Join, PlaceInv, TypeOK
    <2> QED BY <1>1, <1>15, <2>1 DEF Join
  <1> QED BY <1>2, <1>3, <1>5, <1>6, <1>8, <1>9, <1>10, <1>11, <1>12, <1>13, <1>14, <1>15
      DEF Next

-----------------------------------------------------------------------------
\* Nobody takes a place in the queue, nor do terminations cease.
LEMMA KeepSoft ==
    ASSUME PlaceInv, SoftLimit, UNCHANGED <<d, q, soft>>, term \subseteq term'
    PROVE  SoftLimit'
  BY DEF SoftLimit, Avail

\* The end of pool::operator(), for bare metal or with room below the limit.
LEMMA PushSoft ==
    ASSUME PlaceInv, SoftLimit, NEW s \in Submitters, NEW qm, NEW nn,
           s \in Bare \/ ~WouldBlock, Push(s, qm, nn), UNCHANGED members
    PROVE  SoftLimit'
  <1>1. UNCHANGED <<soft, term>> /\ soft \in Nat
    BY PoolAssumption DEF members, PlaceInv, TypeOK
  <1>2. CASE UNCHANGED <<q, d>>
    BY <1>1, <1>2, KeepSoft
  <1>3. CASE q' = Append(q, s) /\ d' = Rotate(d)
    <2>1. /\ Len(q) \in Nat /\ Len(q') = Len(q) + 1 /\ q'[Len(q) + 1] = s
          /\ \A i \in 1..Len(q) : q'[i] = q[i]
      BY <1>3 DEF PlaceInv, TypeOK
    <2>2. Len(d') = Len(d) /\ Len(d) \in Nat
      BY <1>3, RotateFacts DEF PlaceInv, TypeOK
    <2>3. s \notin Bare => /\ soft > 0 => Len(q) + 1 <= soft
                           /\ soft = 0 => Len(q) + 1 <= Len(d)
      BY <1>1, <2>1, <2>2 DEF WouldBlock, Avail
    <2> QED BY <1>1, <2>1, <2>2, <2>3 DEF SoftLimit, Avail
  <1> QED BY <1>2, <1>3 DEF Push

\* A worker that leaves the dock takes the front job, or is terminated.
LEMMA LoopSoft ==
    ASSUME PlaceInv, SoftLimit, NEW w \in Workers, NEW dd, NEW nn, NEW ss,
           Len(dd) \in {Len(d), Len(d) - 1},
           Loop(w, dd, nn, ss), UNCHANGED members
    PROVE  SoftLimit'
  <1>1. UNCHANGED <<soft, term>> /\ soft \in Nat /\ Len(d) \in Nat /\ Len(q) \in Nat
    BY PoolAssumption DEF members, PlaceInv, TypeOK
  <1>2. CASE w \in term /\ UNCHANGED q
    BY <1>1, <1>2 DEF SoftLimit
  <1>3. CASE q # <<>> /\ d' = dd /\ q' = Tail(q)
    <2>1. Len(q') = Len(q) - 1 /\ \A i \in 1..Len(q') : q'[i] = q[i + 1]
      BY <1>3 DEF PlaceInv, TypeOK
    <2>2. ASSUME NEW i \in 1..Len(q'), q'[i] \notin Bare
          PROVE  /\ soft > 0 => i <= soft
                 /\ soft = 0 /\ term = {} => i <= Len(dd)
      <3>1. i + 1 \in 1..Len(q) /\ q[i + 1] \notin Bare
        BY <1>1, <2>1, <2>2
      <3> QED BY <1>1, <3>1 DEF SoftLimit, Avail
    <2> QED BY <1>1, <1>3, <2>2 DEF SoftLimit, Avail
  <1>4. CASE q = <<>> /\ UNCHANGED q
    BY <1>4 DEF SoftLimit
  <1> QED BY <1>2, <1>3, <1>4 DEF Loop

\* SoftLimit is inductive.
LEMMA StepSoft == PlaceInv /\ SoftLimit /\ [Next]_vars => SoftLimit'
  <1> SUFFICES ASSUME PlaceInv, SoftLimit, [Next]_vars PROVE SoftLimit'
    OBVIOUS
  <1>1. CASE UNCHANGED vars
    BY <1>1, KeepSoft DEF vars
  <1>2. ASSUME NEW s \in Submitters, Submit(s) PROVE SoftLimit'
    BY <1>2, KeepSoft, PushSoft DEF Submit, members
  <1>3. ASSUME NEW s \in Submitters, WakeSubmit(s) PROVE SoftLimit'
    BY <1>3, KeepSoft, PushSoft DEF WakeSubmit, members
  <1>4. ASSUME NEW s \in Submitters, InterruptSubmit(s) PROVE SoftLimit'
    BY <1>4, KeepSoft DEF InterruptSubmit, members
  <1>5. ASSUME NEW w \in Workers, Enter(w) PROVE SoftLimit'
    BY <1>5, KeepSoft, LoopSoft DEF Enter, members
  <1>6. ASSUME NEW w \in Workers, state[w] = "pop" PROVE Len(Remove(d, w)) = Len(d) - 1
    BY <1>6, RemoveRest DEF PlaceInv, TypeOK, JobsExact
  <1>7. ASSUME NEW w \in Workers, Wake(w) PROVE SoftLimit'
    BY <1>6, <1>7, KeepSoft, LoopSoft DEF Wake, members
  <1>8. ASSUME NEW w \in Workers, Throw(w) PROVE SoftLimit'
    BY <1>6, <1>8, LoopSoft DEF Throw
  <1>9. ASSUME NEW w \in Workers, Finish(w) PROVE SoftLimit'
    BY <1>9, LoopSoft DEF Finish
  <1>10. CASE Del \/ Terminate \/ Join \/ \E w \in Workers : Add(w)
    BY <1>10, KeepSoft DEF Del, Terminate, Join, Add
  <1> QED BY <1>1, <1>2, <1>3, <1>4, <1>5, <1>7, <1>8, <1>9, <1>10 DEF Next

-----------------------------------------------------------------------------
\* No worker loses its note, nor do terminations cease.
LEMMA KeepNotes ==
    ASSUME PlaceInv, NotesInv, UNCHANGED <<d, q>>, term \subseteq term',
           noted \cap Workers \subseteq noted'
    PROVE  NotesInv'
  BY DEF PlaceInv, TypeOK, NotesInv

\* The end of pool::operator(): the front worker gets a note and moves to the
\* back, next to those which have one for the jobs before.
LEMMA PushNotes ==
    ASSUME PlaceInv, NotesInv, NEW s \in Submitters, NEW qm, NEW nn,
           noted \cap Workers \subseteq nn, Push(s, qm, nn), UNCHANGED members
    PROVE  NotesInv'
  <1>1. UNCHANGED term
    BY DEF members
  <1>2. CASE UNCHANGED <<q, d>> /\ noted' = nn
    BY <1>1, <1>2, KeepNotes
  <1>3. CASE q' = Append(q, s) /\ d' = Rotate(d) /\ noted' = nn \cup NotifyOne(d)
    <2>1. Len(q) \in Nat /\ Len(q') = Len(q) + 1 /\ Len(d) \in Nat
      BY <1>3 DEF PlaceInv, TypeOK
    <2>2. CASE d = <<>>
      BY <1>3, <2>2 DEF Rotate, NotesInv
    <2>3. CASE d # <<>>
      <3>1. /\ Len(d') = Len(d) /\ Len(d) > 0
            /\ \A i \in 1..Len(d) : d'[i] = IF i < Len(d) THEN d[i + 1] ELSE d[1]
        BY <1>3, <2>3, RotateAt DEF PlaceInv, TypeOK
      <3>2. d[1] \in noted' /\ \A i \in 1..Len(d) : d[i] \in noted => d[i] \in noted'
        BY <1>3, <2>3 DEF NotifyOne, PlaceInv, TypeOK
      <3>3. ASSUME NEW i \in 1..Len(d), i + Len(q') > Len(d), term = {} PROVE d'[i] \in noted'
        <4>1. CASE i = Len(d)
          BY <3>1, <3>2, <4>1
        <4>2. CASE i < Len(d)
          <5>1. i + 1 \in 1..Len(d) /\ (i + 1) + Len(q) > Len(d) /\ d'[i] = d[i + 1]
            BY <2>1, <3>1, <3>3, <4>2
          <5> QED BY <3>2, <3>3, <5>1 DEF NotesInv
        <4> QED BY <2>1, <4>1, <4>2
      <3> QED BY <1>1, <3>1, <3>3 DEF NotesInv
    <2> QED BY <2>2, <2>3
  <1> QED BY <1>2, <1>3 DEF Push

\* A worker takes the front job: whether it had a note or not, those behind
\* the others remain.
LEMMA LoopNotes ==
    ASSUME PlaceInv, NotesInv, NEW w \in Workers, NEW dd, NEW nn, NEW ss,
           \/ dd = d /\ w \notin Waiting(d)
           \/ dd = Remove(d, w) /\ w \in Waiting(d),
           noted \cap Workers \subseteq nn, Loop(w, dd, nn, ss), UNCHANGED members
    PROVE  NotesInv'
  <1>1. UNCHANGED term /\ Len(d) \in Nat /\ Len(q) \in Nat
    BY DEF members, PlaceInv, TypeOK
  <1>2. CASE w \in term
    BY <1>1, <1>2 DEF NotesInv
  <1>3. CASE q # <<>> /\ d' = dd /\ q' = Tail(q)
    <2>1. Len(q') = Len(q) - 1
      BY <1>3 DEF PlaceInv, TypeOK
    <2>2. \A v \in Workers : v \in noted /\ v # w => v \in noted'
      BY DEF Loop
    <2>3. CASE dd = d /\ w \notin Waiting(d)
      <3>1. \A i \in 1..Len(d) : d[i] \in Workers /\ d[i] # w
        BY <2>3 DEF Waiting, PlaceInv, TypeOK
      <3> QED BY <1>1, <1>3, <2>1, <2>2, <2>3, <3>1 DEF NotesInv
    <2>4. CASE dd = Remove(d, w) /\ w \in Waiting(d)
      <3>1. /\ d' \in Seq(Workers) /\ Len(d') = Len(d) - 1 /\ Len(d) - 1 \in Nat
            /\ w \notin Waiting(d')
        BY <1>3, <2>4, RemoveAt, RemoveFacts DEF PlaceInv, TypeOK, OnceInv
      <3>2. PICK x \in 1..Len(d) :
                \A k \in 1..(Len(d) - 1) : d'[k] = IF k < x THEN d[k] ELSE d[k + 1]
        BY <1>3, <2>4, RemoveAt DEF PlaceInv, TypeOK
      <3>3. ASSUME NEW i \in 1..Len(d'), i + Len(q') > Len(d'), term = {}
            PROVE  d'[i] \in noted'
        <4>1. /\ i \in 1..Len(d) /\ i + Len(q) > Len(d)
              /\ i + 1 \in 1..Len(d) /\ (i + 1) + Len(q) > Len(d)
          BY <1>1, <2>1, <3>1, <3>3
        <4>2. d[i] \in noted /\ d[i + 1] \in noted
          BY <3>3, <4>1 DEF NotesInv
        <4>3. d'[i] \in noted
          BY <3>1, <3>2, <4>2
        <4>4. d'[i] \in Workers /\ d'[i] # w
          BY <3>1 DEF Waiting
        <4> QED BY <2>2, <4>3, <4>4
      <3> QED BY <1>1, <3>3 DEF NotesInv
    <2> QED BY <2>3, <2>4
  <1>4. CASE q = <<>> /\ UNCHANGED q /\ d' = Append(dd, w)
    <2>1. dd \in Seq(Workers)
      BY RemoveType DEF PlaceInv, TypeOK
    <2>2. Len(q') = 0 /\ Len(d') \in Nat
      BY <1>4, <2>1
    <2> QED BY <2>2 DEF NotesInv
  <1> QED BY <1>2, <1>3, <1>4 DEF Loop

\* NotesInv is inductive.
LEMMA StepNotes == PlaceInv /\ NotesInv /\ [Next]_vars => NotesInv'
  <1> SUFFICES ASSUME PlaceInv, NotesInv, [Next]_vars PROVE NotesInv'
    OBVIOUS
  <1>1. CASE UNCHANGED vars
    BY <1>1, KeepNotes DEF vars
  <1>2. ASSUME NEW s \in Submitters PROVE noted \cap Workers \subseteq noted \ {s}
    BY PoolAssumption
  <1>3. ASSUME NEW s \in Submitters, Submit(s) PROVE NotesInv'
    BY <1>3, KeepNotes, PushNotes DEF Submit, members
  <1>4. ASSUME NEW s \in Submitters, WakeSubmit(s) PROVE NotesInv'
    BY <1>2, <1>4, KeepNotes, PushNotes DEF WakeSubmit, members
  <1>5. ASSUME NEW s \in Submitters, InterruptSubmit(s) PROVE NotesInv'
    BY <1>2, <1>5, KeepNotes DEF InterruptSubmit, members
  <1>6. ASSUME NEW w \in Workers, Enter(w) PROVE NotesInv'
    <2>1. w \notin Waiting(d)
      BY <1>6 DEF Enter, PlaceInv, JobsExact
    <2> QED BY <1>6, <2>1, KeepNotes, LoopNotes DEF Enter, members
  <1>7. ASSUME NEW w \in Workers, Wake(w) PROVE NotesInv'
    <2>1. w \in Waiting(d)
      BY <1>7 DEF Wake, PlaceInv, JobsExact
    <2>2. CASE q = <<>>
      <3>1. Len(q') = 0 /\ Len(d') \in Nat
        BY <1>7, <2>2 DEF Wake, PlaceInv, TypeOK
      <3> QED BY <3>1 DEF NotesInv
    <2>3. CASE q # <<>>
      BY <1>7, <2>1, <2>3, LoopNotes DEF Wake
    <2> QED BY <2>2, <2>3
  <1>8. ASSUME NEW w \in Workers, Throw(w) PROVE NotesInv'
    <2>1. w \in Waiting(d)
      BY <1>8 DEF Throw, PlaceInv, JobsExact
    <2> QED BY <1>8, <2>1, LoopNotes DEF Throw
  <1>9. ASSUME NEW w \in Workers, Finish(w) PROVE NotesInv'
    <2>1. w \notin Waiting(d)
      BY <1>9 DEF Finish, PlaceInv, JobsExact
    <2> QED BY <1>9, <2>1, LoopNotes DEF Finish
  <1>10. CASE Del \/ Terminate \/ Join \/ \E w \in Workers : Add(w)
    BY <1>10, KeepNotes DEF Del, Terminate, Join, Add
  <1> QED BY <1>1, <1>3, <1>4, <1>5, <1>6, <1>7, <1>8, <1>9, <1>10 DEF Next

\* The notes at the back of the dock are as many as the jobs.
LEMMA NotesSuffice == PlaceInv /\ NotesInv => Attended
  <1> SUFFICES ASSUME PlaceInv, NotesInv, term = {}, ~(Waiting(d) \subseteq noted)
               PROVE  Len(q) <= Cardinality(Waiting(d) \cap noted)
    BY DEF Attended
  <1> DEFINE a == Len(d) - Len(q) + 1
             T == Waiting(d) \cap noted
             f == [i \in a..Len(d) |-> d[i]]
  <1>1. Len(d) \in Nat /\ Len(q) \in Nat /\ d \in Seq(Workers) /\ Once(d)
    BY DEF PlaceInv, TypeOK, OnceInv
  <1>2. Len(q) < Len(d)
    BY <1>1 DEF Waiting, NotesInv
  <1>3. a \in Int /\ a >= 1 /\ Len(d) \in Int
    BY <1>1, <1>2
  <1>4. IsFiniteSet(a..Len(d)) /\ Cardinality(a..Len(d)) = Len(q)
    <2>1. /\ IsFiniteSet(a..Len(d))
          /\ Cardinality(a..Len(d)) = IF a > Len(d) THEN 0 ELSE Len(d) - a + 1
      <3> HIDE DEF a
      <3> QED BY <1>3, FS_Interval
    <2>2. (IF a > Len(d) THEN 0 ELSE Len(d) - a + 1) = Len(q)
      BY <1>1, <1>3
    <2> QED BY <2>1, <2>2
  <1>5. IsFiniteSet(Waiting(d))
    <2> DEFINE g == [i \in 1..Len(d) |-> d[i]]
    <2>1. IsFiniteSet(1..Len(d))
      BY <1>1, FS_Interval
    <2>2. g \in Surjection(1..Len(d), Waiting(d))
      BY <1>1 DEF Waiting, Surjection
    <2> QED BY <2>1, <2>2, FS_Surjection
  <1>6. IsFiniteSet(T)
    BY <1>5, FS_Subset
  <1>7. \A i \in a..Len(d) : d[i] \in T
    BY <1>1, <1>2, <1>3 DEF NotesInv, Waiting
  <1>8. f \in Injection(a..Len(d), T)
    BY <1>1, <1>3, <1>7 DEF Injection, IsInjective, Once
  <1> HIDE DEF f, T
  <1>9. Cardinality(a..Len(d)) <= Cardinality(T)
    BY <1>6, <1>8, FS_Injection
  <1> QED BY <1>4, <1>9 DEF T

-----------------------------------------------------------------------------
\* The pool keeps its inductive invariant.
THEOREM PoolInvariant == Spec => [](PlaceInv /\ SoftLimit /\ NotesInv)
  BY InitInv, StepPlace, StepSoft, StepNotes, PTL DEF Spec

\* Whatever is submitted, interrupted, added, deleted or terminated, the docks,
\* the queue and the workers stay well-formed.
THEOREM TypeCorrect == Spec => []TypeOK
  <1>1. PlaceInv => TypeOK
    BY DEF PlaceInv
  <1> QED BY <1>1, PoolInvariant, PTL

\* pool::operator() and the workers neither lose a job nor run one twice, and
\* the docks hold exactly the contexts asleep in them.
THEOREM NoJobLost == Spec => []JobsExact
  <1>1. PlaceInv => JobsExact
    BY DEF PlaceInv
  <1> QED BY <1>1, PoolInvariant, PTL

\* A context that slept in pool::operator() pushes below the soft limit only,
\* for every limit, zero included.
THEOREM LimitKept == Spec => []SoftLimit
  BY PoolInvariant, PTL

\* No idle worker sleeps through a queued job, however notes coalesce.
THEOREM JobsAttended == Spec => []Attended
  BY NotesSuffice, PoolInvariant, PTL
=============================================================================
