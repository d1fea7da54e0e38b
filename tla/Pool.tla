-------------------------------- MODULE Pool --------------------------------
(***************************************************************************)
(* ircd::ctx::pool: a vector of worker contexts that take jobs off a       *)
(* ctx::queue (ircd/ctx.cc, include/ircd/ctx/{pool,queue}.h).  Two docks   *)
(* meet here: idle workers sleep in d, the dock of the queue, and contexts *)
(* that submit over the soft limit sleep in q_max.                         *)
(*                                                                         *)
(* A worker runs from one yield to the next without preemption: when a job *)
(* returns, the worker notifies q_max, goes round the loop of main() and   *)
(* takes the next job, or falls asleep in d, all in one slice.             *)
(***************************************************************************)
EXTENDS Dock, FiniteSets

CONSTANTS
    Workers,        \* contexts the pool may spawn
    Submitters,     \* calls of pool::operator(); each submits one job
    Bare,           \* the submitters which are not on a context
    SoftMaxes,      \* the values of opts::queue_max_soft
    HardMax,        \* opts::queue_max_hard
    MaxDel,         \* bound on the calls of del()
    Interrupts,     \* TRUE: sleeping contexts are interrupted
    Destroys,       \* TRUE: the pool is terminated and destroyed
    NoJob

ASSUME PoolAssumption ==
    /\ Workers \cap Submitters = {}
    /\ Bare \subseteq Submitters /\ NoJob \notin Submitters
    /\ SoftMaxes \subseteq Nat /\ HardMax \in Nat /\ MaxDel \in Nat
    /\ Interrupts \in BOOLEAN /\ Destroys \in BOOLEAN

VARIABLES
    ctxs,           \* the vector of workers; ctxs.size() is size()
    state,          \* "none", "posted", "pop" (asleep in d), "work", "dead"
    job,            \* the job a worker runs
    term,           \* workers flagged TERMINATED
    deleted,        \* workers taken off ctxs by del()
    d,              \* dock of the queue
    q,              \* the queue: jobs, each named by its submitter
    q_max,          \* dock of the submitters
    noted,          \* sleeping contexts which have a note
    submit,         \* "none", "blocked", "queued", "running", "done", "failed"
    destroyed,      \* ~pool() has joined its workers
    soft            \* opts::queue_max_soft, given to the constructor

vars == <<ctxs, state, job, term, deleted, d, q, q_max, noted, submit, destroyed, soft>>
members == <<ctxs, term, deleted, destroyed, soft>>

-----------------------------------------------------------------------------
\* running - working: the workers inside q.pop().
Avail == Len(d)

WouldBlock == ~(Len(q) < soft) /\ ~(soft = 0 /\ Len(q) < Avail)

\* Mutants of Push: the front worker is notified and stays the front one; the
\* closure was moved from before it is pushed.
PushFront(s, qm, nn) ==
    /\ q_max' = qm
    /\ submit' = [submit EXCEPT ![s] = "queued"]
    /\ q' = Append(q, s)
    /\ noted' = nn \cup NotifyOne(d)
    /\ UNCHANGED d
PushMoved(s, qm, nn) ==
    /\ q_max' = qm
    /\ submit' = [submit EXCEPT ![s] = "queued"]
    /\ q' = Append(q, NoJob)
    /\ noted' = nn \cup NotifyOne(d)
    /\ d' = Rotate(d)

\* The end of pool::operator(): over the hard limit it throws, else it pushes
\* the job and notifies the next worker; qm and nn are q_max and the notes
\* as the wait of s has left them.
Push(s, qm, nn) ==
    /\ q_max' = qm
    /\ IF Len(q) >= HardMax
       THEN /\ submit' = [submit EXCEPT ![s] = "failed"]
            /\ noted' = nn
            /\ UNCHANGED <<q, d>>
       ELSE /\ submit' = [submit EXCEPT ![s] = "queued"]
            /\ q' = Append(q, s)
            /\ d' = Rotate(d)
            /\ noted' = nn \cup NotifyOne(d)

\* main() from the head of its loop to the next yield of w: it ends when w is
\* terminated, starts the job at the front, or goes to sleep at the back of d.
\* dd, nn and ss are d, the notes and submit as the slice has left them.
Loop(w, dd, nn, ss) ==
    /\ noted' = nn \ {w}
    /\ \/ /\ w \in term
          /\ state' = [state EXCEPT ![w] = "dead"]
          /\ job' = [job EXCEPT ![w] = NoJob]
          /\ d' = dd /\ submit' = ss /\ UNCHANGED q
       \/ /\ w \notin term /\ q # <<>>
          /\ state' = [state EXCEPT ![w] = "work"]
          /\ job' = [job EXCEPT ![w] = Head(q)]
          /\ submit' = [ss EXCEPT ![Head(q)] = "running"]
          /\ d' = dd /\ q' = Tail(q)
       \/ /\ w \notin term /\ q = <<>>
          /\ state' = [state EXCEPT ![w] = "pop"]
          /\ job' = [job EXCEPT ![w] = NoJob]
          /\ d' = Append(dd, w) /\ submit' = ss /\ UNCHANGED q

-----------------------------------------------------------------------------
(***************************************************************************)
(* Submitters.                                                             *)
(***************************************************************************)

Init ==
    /\ ctxs = <<>> /\ d = <<>> /\ q = <<>> /\ q_max = <<>>
    /\ state = [w \in Workers |-> "none"]
    /\ job = [w \in Workers |-> NoJob]
    /\ term = {} /\ deleted = {} /\ noted = {}
    /\ submit = [s \in Submitters |-> "none"]
    /\ destroyed = FALSE
    /\ soft \in SoftMaxes

\* Mutant of Submit: a context does not wait for the soft limit.
SubmitAnyway(s) ==
    /\ submit[s] = "none" /\ ~destroyed
    /\ Push(s, q_max, noted)
    /\ UNCHANGED <<state, job, members>>

\* A call of pool::operator().  Bare metal cannot wait for the soft limit.
Submit(s) ==
    /\ submit[s] = "none" /\ ~destroyed
    /\ IF s \notin Bare /\ WouldBlock
       THEN /\ q_max' = Append(q_max, s)
            /\ submit' = [submit EXCEPT ![s] = "blocked"]
            /\ UNCHANGED <<d, q, noted>>
       ELSE Push(s, q_max, noted)
    /\ UNCHANGED <<state, job, members>>

\* A blocked submitter runs: it submits, or sleeps on in its place.
WakeSubmit(s) ==
    /\ submit[s] = "blocked" /\ s \in noted
    /\ IF WouldBlock
       THEN noted' = noted \ {s} /\ UNCHANGED <<d, q, q_max, submit>>
       ELSE Push(s, Remove(q_max, s), noted \ {s})
    /\ UNCHANGED <<state, job, members>>

\* A blocked submitter is interrupted; its wait notifies the new front.
InterruptSubmit(s) ==
    /\ Interrupts /\ submit[s] = "blocked"
    /\ q_max' = Remove(q_max, s)
    /\ noted' = (noted \ {s}) \cup NotifyOne(q_max')
    /\ submit' = [submit EXCEPT ![s] = "failed"]
    /\ UNCHANGED <<d, q, state, job, members>>

-----------------------------------------------------------------------------
(***************************************************************************)
(* Workers.                                                                *)
(***************************************************************************)

\* A spawned context is entered.  The base frame has an interruption point
\* before main(), where an interrupt ends the worker as a termination does;
\* main() notifies a submitter that there is one more worker.
Enter(w) ==
    /\ state[w] = "posted"
    /\ \/ /\ Interrupts \/ w \in term
          /\ state' = [state EXCEPT ![w] = "dead"]
          /\ UNCHANGED <<job, d, q, q_max, noted, submit>>
       \/ /\ w \notin term
          /\ q_max' = Rotate(q_max)
          /\ Loop(w, d, noted \cup NotifyOne(q_max), submit)
    /\ UNCHANGED members

\* Mutant of Wake: the worker stays in the dock while it works.
WakeQueued(w) ==
    /\ state[w] = "pop" /\ w \in noted \ term
    /\ IF q = <<>>
       THEN noted' = noted \ {w} /\ UNCHANGED <<state, job, d, q, submit>>
       ELSE Loop(w, d, noted, submit)
    /\ UNCHANGED <<q_max, members>>

\* A worker with a note runs: it takes the front job, or sleeps on in place.
Wake(w) ==
    /\ state[w] = "pop" /\ w \in noted \ term
    /\ IF q = <<>>
       THEN noted' = noted \ {w} /\ UNCHANGED <<state, job, d, q, submit>>
       ELSE Loop(w, Remove(d, w), noted, submit)
    /\ UNCHANGED <<q_max, members>>

\* Mutant of Throw: the note is not passed on.
ThrowSilent(w) ==
    /\ state[w] = "pop" /\ (Interrupts \/ w \in term)
    /\ Loop(w, Remove(d, w), noted, submit)
    /\ UNCHANGED <<q_max, members>>

\* An interrupt or a termination is thrown out of the wait of q.pop(), with a
\* note or without, and notifies the new front.  An interrupt is caught in
\* work(), and the worker goes round the loop.
Throw(w) ==
    /\ state[w] = "pop" /\ (Interrupts \/ w \in term)
    /\ LET dd == Remove(d, w)
       IN  Loop(w, dd, noted \cup NotifyOne(dd), submit)
    /\ UNCHANGED <<q_max, members>>

\* Mutant of Finish: submitters are not notified.
FinishSilent(w) ==
    /\ state[w] = "work"
    /\ Loop(w, d, noted, [submit EXCEPT ![job[w]] = "done"])
    /\ UNCHANGED <<q_max, members>>

\* The job returns or throws; work() notifies a submitter and meets an
\* interruption point, and the worker goes round the loop.
Finish(w) ==
    /\ state[w] = "work"
    /\ q_max' = Rotate(q_max)
    /\ Loop(w, d, noted \cup NotifyOne(q_max), [submit EXCEPT ![job[w]] = "done"])
    /\ UNCHANGED members

-----------------------------------------------------------------------------
(***************************************************************************)
(* Control panel.                                                          *)
(***************************************************************************)

Live(w) == state[w] \in {"posted", "pop", "work"}

\* add(), min() or set() spawns a context with the POST flag.
Add(w) ==
    /\ state[w] = "none" /\ ~destroyed /\ term \subseteq deleted
    /\ ctxs' = Append(ctxs, w)
    /\ state' = [state EXCEPT ![w] = "posted"]
    /\ UNCHANGED <<job, term, deleted, d, q, q_max, noted, submit, destroyed, soft>>

\* del() or set() drops the last context, whose destructor terminates it and
\* joins it before the next one is dropped.
Del ==
    /\ Cardinality(deleted) < MaxDel /\ ctxs # <<>> /\ ~destroyed
    /\ \A w \in deleted : ~Live(w)
    /\ LET w == ctxs[Len(ctxs)]
       IN  /\ ctxs' = SubSeq(ctxs, 1, Len(ctxs) - 1)
           /\ deleted' = deleted \cup {w}
           /\ term' = IF Live(w) THEN term \cup {w} ELSE term
    /\ UNCHANGED <<state, job, d, q, q_max, noted, submit, destroyed, soft>>

\* pool::terminate(), alone or from ~pool().
Terminate ==
    /\ Destroys
    /\ term' = term \cup {w \in Waiting(ctxs) : Live(w)}
    /\ UNCHANGED <<ctxs, state, job, deleted, d, q, q_max, noted, submit, destroyed, soft>>

\* ~pool() has joined all workers; nobody is inside of operator().
Join ==
    /\ Destroys /\ ~destroyed /\ term # {}
    /\ \A w \in Waiting(ctxs) \cup deleted : ~Live(w)
    /\ q_max = <<>>
    /\ ctxs' = <<>> /\ destroyed' = TRUE
    /\ UNCHANGED <<state, job, term, deleted, d, q, q_max, noted, submit, soft>>

Next ==
    \/ \E s \in Submitters : Submit(s) \/ WakeSubmit(s) \/ InterruptSubmit(s)
    \/ \E w \in Workers : Enter(w) \/ Wake(w) \/ Throw(w) \/ Finish(w) \/ Add(w)
    \/ Del \/ Terminate \/ Join

Spec == Init /\ [][Next]_vars

\* A context that is posted, has a note or was terminated is eventually run,
\* and jobs return.  Nobody is assumed to submit, interrupt, add or delete.
Fairness ==
    /\ \A s \in Submitters : WF_vars(WakeSubmit(s))
    /\ \A w \in Workers :
        /\ WF_vars(Enter(w)) /\ WF_vars(Wake(w)) /\ WF_vars(Finish(w))
        /\ WF_vars(w \in term /\ Throw(w))

FairSpec == Spec /\ Fairness

-----------------------------------------------------------------------------
TypeOK ==
    /\ ctxs \in Seq(Workers) /\ d \in Seq(Workers)
    /\ q \in Seq(Submitters) /\ q_max \in Seq(Submitters)
    /\ state \in [Workers -> {"none", "posted", "pop", "work", "dead"}]
    /\ job \in [Workers -> Submitters \cup {NoJob}]
    /\ term \subseteq Workers /\ deleted \subseteq Workers
    /\ noted \subseteq Workers \cup Submitters
    /\ submit \in [Submitters -> {"none", "blocked", "queued", "running", "done", "failed"}]
    /\ destroyed \in BOOLEAN /\ soft \in SoftMaxes

\* A job is in one place: each submitted job is queued once or run by one
\* worker, and the docks hold exactly the contexts asleep in them.
JobsExact ==
    /\ \A s \in Submitters :
        /\ submit[s] = "queued" <=> s \in Waiting(q)
        /\ submit[s] = "blocked" <=> s \in Waiting(q_max)
        /\ submit[s] = "running" <=> \E w \in Workers : state[w] = "work" /\ job[w] = s
    /\ \A w \in Workers : state[w] = "pop" <=> w \in Waiting(d)
    /\ \A v, w \in Workers : job[v] = job[w] /\ job[v] # NoJob => v = w

\* "The soft-limit is never actually exceeded when contexts are blocked from
\* submitting": no context puts a job in a place over the limit, although it
\* slept between looking at the limit and pushing; with a limit of zero there
\* is an available worker for it (as long as none is terminated).
SoftLimit ==
    \A i \in 1..Len(q) : q[i] \notin Bare =>
        /\ soft > 0 => i <= soft
        /\ soft = 0 /\ term = {} => i <= Avail

\* No worker sleeps through a job: as many of the idle workers as there are
\* queued jobs have a note, until a worker is terminated (a note it passes on
\* may then coalesce with that of the next job).
Attended ==
    term = {} =>
        Waiting(d) \subseteq noted \/ Len(q) <= Cardinality(Waiting(d) \cap noted)

\* Nobody is left to be notified of a job: the workers are all gone, or a second
\* one was terminated and the others sleep without a note.  A worker which is
\* terminated while it runs a job leaves main() without a look at the queue, and
\* the note it got before may have stood for more than that job.
Forsaken ==
    \A w \in Workers : Live(w) => state[w] = "pop" /\ w \notin noted /\ Cardinality(term) > 1

\* Every queued job is taken by a worker, unless the workers are all gone or
\* sleep after a second termination.
JobsRun == []<>(\A s \in Submitters : submit[s] = "queued" => Forsaken)

\* A submitter that waits for the soft limit gets out of pool::operator(),
\* unless the workers are all gone or sleep after a second termination.
SubmitReturns == []<>(\A s \in Submitters : submit[s] = "blocked" => Forsaken)
=============================================================================
