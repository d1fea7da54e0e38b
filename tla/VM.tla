--------------------------------- MODULE VM ---------------------------------
(***************************************************************************)
(* The Matrix event sequencer of construct: ircd::m::vm::execute() and the *)
(* functions under it (matrix/vm_execute.cc, vm_eval.cc, vm_inject.cc and  *)
(* vm.cc).                                                                 *)
(*                                                                         *)
(* Many cooperative contexts evaluate events at once.  An evaluation takes *)
(* a sequence number, passes the PRECOMMIT, COMMIT and RETIRE barriers of  *)
(* sequence::dock in that order, writes its transaction and only then      *)
(* becomes visible to /sync through sequence::retired.  A context runs     *)
(* without preemption between two yields (a wait on a dock, a hook that    *)
(* does I/O, a database read or write), so every action below is one such  *)
(* slice.  phase[e] names the yield at which e is parked.                  *)
(*                                                                         *)
(* An element of Evals is one call of execute(): one event of the tape of  *)
(* one eval object.  An evaluation made by a hook of another one runs in   *)
(* the same context; its parent is blocked until it is over.               *)
(***************************************************************************)
EXTENDS Naturals

CONSTANTS
    Evals,          \* calls of execute()
    RemoteEvents,   \* PDUs that federation delivers
    LocalEvents,    \* PDUs this server creates with inject()
    AuthChain,      \* AuthChain[v]: events evaluated to satisfy references of v
    Redelivery,     \* TRUE: one PDU may be delivered to several evals
    PostHooks,      \* TRUE: clients send with a txnid, so vm.post hooks eval
    Faults,         \* TRUE: checks fail, writes fail, contexts are interrupted
    MaxBoots,       \* bound on the restarts of the process
    NoEval, NoEvent

Events == RemoteEvents \cup LocalEvents

ASSUME EvalsAssumption == NoEval \notin Evals /\ NoEvent \notin Events
ASSUME EventsAssumption ==
    /\ RemoteEvents \cap LocalEvents = {}
    /\ AuthChain \in [Events -> SUBSET RemoteEvents]
    /\ \A v \in Events : v \notin AuthChain[v]
ASSUME OptionsAssumption ==
    /\ Redelivery \in BOOLEAN /\ PostHooks \in BOOLEAN /\ Faults \in BOOLEAN
    /\ MaxBoots \in Nat

VARIABLES
    phase,          \* where each eval is parked
    kind,           \* "fed", "own" (eval.copts is set) or "edu"
    event,          \* the event given to execute()
    parent,         \* eval.parent
    post,           \* parent_post: made by the POST hook of its parent
    sequence,       \* eval.sequence; 0 when not sequenced
    txn,            \* cells <<event_idx, event>> appended to eval.txn
    noted,          \* waiters of sequence::dock which were notified
    retired, committed, uncommitted,
    column,         \* event data columns: pairs <<event_idx, event_id>>
    event_idx,      \* _event_idx column: pairs <<event_idx, event_id>>
    halted,         \* vm::init::~init() has returned
    boots

ids == <<kind, event, parent, post>>
counters == <<retired, committed, uncommitted>>
db == <<column, event_idx>>
life == <<halted, boots>>
vars == <<phase, ids, sequence, txn, noted, counters, db, life>>

-----------------------------------------------------------------------------
Kinds == {"fed", "own", "edu"}

\* Phases which wait on sequence::dock, and those inside execute_pdu().
Waits == {"DUPCHK1", "DUPCHK2", "PRECOMMIT", "COMMIT", "RETIRE"}
PduPhases == {"DUPCHK2", "EXISTS2", "FETCH", "PRECOMMIT", "AUTH_RELA",
              "COMMIT", "INDEX", "POST", "WRITE", "RETIRE"}

\* execute() holds eval.event_ in these, so eval::count() counts the eval.
Counted == PduPhases \cup {"ISSUE", "EFFECTS"}
Executing == Counted \cup {"DUPCHK1", "EXISTS1", "EDU"}
Phases == Executing \cup {"NONE", "ACCEPTED", "FAULTED"}

Max2(a, b) == IF a < b THEN b ELSE a
AtMostOne(S) == \A f, g \in S : f = g

\* eval::count(event_id) counts the members of this set.
Evaluating(v) == {f \in Evals : event[f] = v /\ phase[f] \in Counted}

\* m::exists(): the event has an entry in the _event_idx column.
Exists(v) == \E c \in event_idx : c[2] = v

\* eval::seqnext(s) = e, under the sequence numbers sq.
SeqNext(sq, s, e) ==
    sq[e] > s /\ \A f \in Evals : sq[f] > s => sq[e] <= sq[f]

\* Evals for which eval::seqmax() may return.
SeqMax == {f \in Evals : \A g \in Evals : sequence[g] <= sequence[f]}

\* Mutant of NextSequence: the live numbers are not looked at.
NextSequenceUncommitted == {uncommitted + 1}

\* The number given to an eval: above the highest live one and the highest
\* past PRECOMMIT; with no live one, the successor of the last committed.
NextSequence ==
    IF \A f \in Evals : sequence[f] = 0
    THEN {committed + 1}
    ELSE {Max2(sequence[f], uncommitted) + 1 : f \in SeqMax}

\* The context of e is not running an eval made by a hook of e.
NoChild(e) == \A f \in Evals : parent[f] = e => phase[f] \notin Executing

\* Hooks which evaluate further events before they return.
HookMayEval(p, k) ==
    \/ phase[p] = "FETCH" /\ kind[p] = "fed" /\ k = "fed"
    \/ phase[p] = "POST" /\ kind[p] = "own" /\ ~post[p] /\ PostHooks /\ k = "own"
    \/ phase[p] \in {"EFFECTS", "EDU"} /\ ~post[p] /\ k = "own"

\* dock::notify_all() on sequence::dock, made by e.
NotifyAll(e) ==
    noted' = noted \cup {f \in Evals \ {e} : phase[f] \in Waits}

\* Mutant of Base: an eval made by a POST hook starts a txn of its own.
BaseSelf(e) == e

\* The eval whose txn e composes into: its parent's inside the POST hook.
Base(e) == IF post[e] THEN parent[e] ELSE e

-----------------------------------------------------------------------------
(***************************************************************************)
(* Barrier predicates: what the closures given to dock::wait() return.     *)
(***************************************************************************)

\* First DUPCHK: e is not counted yet.
MayExecute(v) == AtMostOne(Evaluating(v))

\* Mutant of MayProceed: the second DUPCHK is left out.
MayProceedAlways(e) == TRUE

\* Second DUPCHK: e is counted from now on.
MayProceed(e) == AtMostOne(Evaluating(event[e]) \cup {e})

MayPrecommit(sq, e) ==
    \/ post[e]
    \/ SeqNext(sq, committed, e)
    \/ SeqNext(sq, uncommitted, e)

\* Mutant of MayCommit: any number above committed may pass, not the lowest.
MayCommitAny(e) == post[e] \/ sequence[e] > committed

MayCommit(e) == post[e] \/ SeqNext(sequence, committed, e)

\* Mutant of MayRetire: any number above retired may pass, not the lowest.
MayRetireAny(e) == sequence[e] > retired

MayRetire(e) == SeqNext(sequence, retired, e)

-----------------------------------------------------------------------------
(***************************************************************************)
(* The phases of one evaluation.                                           *)
(***************************************************************************)

Init ==
    /\ phase = [e \in Evals |-> "NONE"]
    /\ kind = [e \in Evals |-> "edu"]
    /\ event = [e \in Evals |-> NoEvent]
    /\ parent = [e \in Evals |-> NoEval]
    /\ post = [e \in Evals |-> FALSE]
    /\ sequence = [e \in Evals |-> 0]
    /\ txn = [e \in Evals |-> {}]
    /\ noted = {}
    /\ retired = 0 /\ committed = 0 /\ uncommitted = 0
    /\ column = {} /\ event_idx = {}
    /\ halted = FALSE /\ boots = 0

\* Every step of e needs its own context, which a child eval would occupy.
At(e, p) == phase[e] = p /\ NoChild(e)

Goto(e, p) == phase' = [phase EXCEPT ![e] = p]

\* e enters a wait of sequence::dock and goes to sleep in it.
Sleep(e, p) == Goto(e, p) /\ noted' = noted \ {e}

Fresh(v) == \A f \in Evals : event[f] # v

\* inject() makes up the event_id: which of the unused ones is of no account.
NewLocal == CHOOSE v \in LocalEvents : Fresh(v)

\* The events an eval of kind k can be given.  Local events are unique by
\* construction, but a remote may send one back once it knows it.
Deliverable(k, v, p) ==
    \/ k = "edu" /\ p = NoEval /\ v = NoEvent
    \/ k = "own" /\ v \in LocalEvents /\ Fresh(v) /\ v = NewLocal
    \/ /\ k = "fed" /\ (Redelivery \/ Fresh(v))
       /\ \/ p = NoEval /\ (v \in RemoteEvents \/ (v \in LocalEvents /\ Exists(v)))
          \/ p # NoEval /\ v \in AuthChain[event[p]]

\* Entry of execute(), up to the first yield: the first DUPCHK wait, the
\* m::exists() query, the issue hook, or the hooks of execute_edu().
Execute(e, k, v, p) ==
    /\ phase[e] = "NONE" /\ ~halted
    /\ p # NoEval => NoChild(p) /\ HookMayEval(p, k)
    /\ Deliverable(k, v, p)
    /\ kind' = [kind EXCEPT ![e] = k]
    /\ event' = [event EXCEPT ![e] = v]
    /\ parent' = [parent EXCEPT ![e] = p]
    /\ post' = [post EXCEPT ![e] = p # NoEval /\ phase[p] = "POST"]
    /\ \/ k = "edu" /\ Goto(e, "EDU")
       \/ k = "own" /\ Goto(e, "ISSUE")
       \/ k = "fed" /\ MayExecute(v) /\ Goto(e, "EXISTS1")
       \/ k = "fed" /\ ~MayExecute(v) /\ Goto(e, "DUPCHK1")
    /\ UNCHANGED <<sequence, txn, noted, counters, db, life>>

\* A notified waiter finds its predicate false and sleeps on.
SleepAgain(e) ==
    /\ e \in noted
    /\ \/ phase[e] = "DUPCHK1" /\ ~MayExecute(event[e])
       \/ phase[e] = "DUPCHK2" /\ ~MayProceed(e)
       \/ phase[e] = "PRECOMMIT" /\ ~MayPrecommit(sequence, e)
       \/ phase[e] = "COMMIT" /\ ~MayCommit(e)
       \/ phase[e] = "RETIRE" /\ ~MayRetire(e)
    /\ noted' = noted \ {e}
    /\ UNCHANGED <<phase, ids, sequence, txn, counters, db, life>>

\* The first DUPCHK wait is over.
Dupchk1(e) ==
    /\ phase[e] = "DUPCHK1" /\ e \in noted /\ MayExecute(event[e])
    /\ Goto(e, "EXISTS1") /\ noted' = noted \ {e}
    /\ UNCHANGED <<ids, sequence, txn, counters, db, life>>

\* m::exists() found the event: execute() returns fault::EXISTS.
SkipExisting(e) ==
    /\ phase[e] = "EXISTS1" /\ Exists(event[e])
    /\ Goto(e, "FAULTED")
    /\ UNCHANGED <<ids, sequence, txn, noted, counters, db, life>>

\* From m::exists() or the issue hook into execute_pdu(), up to the second
\* DUPCHK.  An injected event (copts) makes no existence check.
EnterPdu(e) ==
    /\ \/ phase[e] = "EXISTS1" /\ ~Exists(event[e])
       \/ phase[e] = "ISSUE"
    /\ IF ~MayProceed(e) THEN Sleep(e, "DUPCHK2")
       ELSE /\ Goto(e, IF kind[e] = "own" THEN "FETCH" ELSE "EXISTS2")
            /\ UNCHANGED noted
    /\ UNCHANGED <<ids, sequence, txn, counters, db, life>>

Dupchk2(e) ==
    /\ phase[e] = "DUPCHK2" /\ e \in noted /\ MayProceed(e)
    /\ Goto(e, IF kind[e] = "own" THEN "FETCH" ELSE "EXISTS2")
    /\ noted' = noted \ {e}
    /\ UNCHANGED <<ids, sequence, txn, counters, db, life>>

\* Mutant of UnwindPdu: the dock is not notified by an exception.
UnwindPduSilent(e) ==
    /\ Goto(e, "FAULTED")
    /\ sequence' = [sequence EXCEPT ![e] = 0]
    /\ txn' = [txn EXCEPT ![e] = {}]
    /\ noted' = noted \ {e}
    /\ UNCHANGED <<ids, counters, db, life>>

\* An exception leaves execute_pdu().  The sequence number is given up in the
\* slice that notifies the dock.
UnwindPdu(e) ==
    /\ Goto(e, "FAULTED")
    /\ sequence' = [sequence EXCEPT ![e] = 0]
    /\ txn' = [txn EXCEPT ![e] = {}]
    /\ noted' = (noted \cup {f \in Evals : phase[f] \in Waits}) \ {e}
    /\ UNCHANGED <<ids, counters, db, life>>

\* The second existence check finds the event: fault::EXISTS is thrown.
FaultExists(e) == phase[e] = "EXISTS2" /\ Exists(event[e]) /\ UnwindPdu(e)

\* The second existence check passes: ACCESS, VERIFY, FETCH_AUTH,
\* AUTH_STATIC, FETCH_PREV and FETCH_STATE follow, in phase "FETCH".
Access(e) ==
    /\ phase[e] = "EXISTS2" /\ ~Exists(event[e])
    /\ Goto(e, "FETCH")
    /\ UNCHANGED <<ids, sequence, txn, noted, counters, db, life>>

\* e obtains its sequence number and meets the PRECOMMIT barrier.
Sequence(e) ==
    /\ At(e, "FETCH")
    /\ \E n \in NextSequence :
        /\ sequence' = [sequence EXCEPT ![e] = n]
        /\ IF MayPrecommit(sequence', e)
           THEN Goto(e, "AUTH_RELA") /\ UNCHANGED noted
           ELSE Sleep(e, "PRECOMMIT")
    /\ UNCHANGED <<ids, txn, counters, db, life>>

Precommit(e) ==
    /\ phase[e] = "PRECOMMIT" /\ e \in noted /\ MayPrecommit(sequence, e)
    /\ Goto(e, "AUTH_RELA") /\ noted' = noted \ {e}
    /\ UNCHANGED <<ids, sequence, txn, counters, db, life>>

\* check_relative() passed; e raises uncommitted and meets the COMMIT barrier.
AuthRela(e) ==
    /\ phase[e] = "AUTH_RELA"
    /\ uncommitted' = Max2(sequence[e], uncommitted)
    /\ IF MayCommit(e) THEN Goto(e, "INDEX") /\ UNCHANGED noted
                       ELSE Sleep(e, "COMMIT")
    /\ UNCHANGED <<ids, sequence, txn, retired, committed, db, life>>

Commit(e) ==
    /\ phase[e] = "COMMIT" /\ e \in noted /\ MayCommit(e)
    /\ Goto(e, "INDEX") /\ noted' = noted \ {e}
    /\ UNCHANGED <<ids, sequence, txn, counters, db, life>>

\* AUTH_PRES and EVALUATE are over; write_append() composes the transaction.
\* The vm.post hook evaluates nothing for an eval made by a vm.post hook, so
\* such an eval leaves execute_pdu() here; its parent writes for it.
Index(e) ==
    /\ phase[e] = "INDEX"
    /\ txn' = [txn EXCEPT ![Base(e)] = @ \cup {<<sequence[e], event[e]>>}]
    /\ IF post[e] THEN Goto(e, "EFFECTS") /\ NotifyAll(e)
                  ELSE Goto(e, "POST") /\ UNCHANGED noted
    /\ UNCHANGED <<ids, sequence, counters, db, life>>

\* The vm.post hook returned: the sequence is committed, then written.
Post(e) ==
    /\ At(e, "POST")
    /\ committed' = sequence[e]
    /\ Goto(e, "WRITE")
    /\ UNCHANGED <<ids, sequence, txn, noted, retired, uncommitted, db, life>>

\* write_commit(): the batch lands in the database atomically.  The context
\* has not been resumed yet, so it is as if notified for its next wait.
Write(e) ==
    /\ phase[e] = "WRITE"
    /\ column' = {c \in column : \A d \in txn[e] : d[1] # c[1]} \cup txn[e]
    /\ event_idx' = {c \in event_idx : \A d \in txn[e] : d[2] # c[2]} \cup txn[e]
    /\ Goto(e, "RETIRE") /\ noted' = noted \cup {e}
    /\ UNCHANGED <<ids, sequence, txn, counters, life>>

\* Mutant of Retire: the dock is not notified.
RetireSilent(e) ==
    /\ phase[e] = "RETIRE" /\ e \in noted /\ MayRetire(e)
    /\ retired' = sequence[e]
    /\ txn' = [txn EXCEPT ![e] = {}]
    /\ Goto(e, "EFFECTS")
    /\ noted' = noted \ {e}
    /\ UNCHANGED <<ids, sequence, committed, uncommitted, db, life>>

\* Mutant of Retire: retired is raised to the last one committed.
RetireCommitted(e) ==
    /\ phase[e] = "RETIRE" /\ e \in noted /\ MayRetire(e)
    /\ retired' = committed
    /\ txn' = [txn EXCEPT ![e] = {}]
    /\ Goto(e, "EFFECTS")
    /\ noted' = (noted \cup {f \in Evals : phase[f] \in Waits}) \ {e}
    /\ UNCHANGED <<ids, sequence, committed, uncommitted, db, life>>

\* e is the lowest live sequence above retired: it becomes the last retired,
\* execute_pdu() returns and notifies the dock, the NOTIFY hook is entered.
Retire(e) ==
    /\ phase[e] = "RETIRE" /\ e \in noted /\ MayRetire(e)
    /\ retired' = sequence[e]
    /\ txn' = [txn EXCEPT ![e] = {}]
    /\ Goto(e, "EFFECTS")
    /\ noted' = (noted \cup {f \in Evals : phase[f] \in Waits}) \ {e}
    /\ UNCHANGED <<ids, sequence, committed, uncommitted, db, life>>

\* Mutant of Edu: execute_du() does not tell an EDU from a PDU.
EduAsPdu(e) ==
    /\ At(e, "EDU")
    /\ Goto(e, "FETCH")
    /\ UNCHANGED <<ids, sequence, txn, noted, counters, db, life>>

\* The hooks of execute_edu() returned.
Edu(e) ==
    /\ At(e, "EDU")
    /\ Goto(e, "EFFECTS")
    /\ UNCHANGED <<ids, sequence, txn, noted, counters, db, life>>

\* The NOTIFY and EFFECTS hooks returned and execute() returns ACCEPT.  Only
\* vm::dock is notified here, not sequence::dock.
Accept(e) ==
    /\ At(e, "EFFECTS")
    /\ Goto(e, "ACCEPTED")
    /\ sequence' = [sequence EXCEPT ![e] = 0]
    /\ UNCHANGED <<ids, txn, noted, counters, db, life>>

-----------------------------------------------------------------------------
(***************************************************************************)
(* Errors and interrupts, shutdown and restart.                            *)
(***************************************************************************)

\* execute_pdu() unwinds: a check or hook throws, the write fails, or the
\* context is interrupted.
FaultPdu(e) ==
    /\ Faults
    /\ phase[e] \in PduPhases \cup {"EXISTS1", "ISSUE"} /\ NoChild(e)
    /\ phase[e] = "EXISTS1" => ~Exists(event[e])
    /\ UnwindPdu(e)

\* execute() unwinds outside of execute_pdu().  A wait on the dock that is
\* interrupted passes the notice on to one other waiter.
FaultDu(e) ==
    /\ Faults
    /\ phase[e] \in {"DUPCHK1", "EXISTS1", "ISSUE", "EDU", "EFFECTS"} /\ NoChild(e)
    /\ Goto(e, "FAULTED")
    /\ sequence' = [sequence EXCEPT ![e] = 0]
    /\ LET others == {f \in Evals \ {e} : phase[f] \in Waits}
       IN  IF phase[e] # "DUPCHK1" THEN UNCHANGED noted
           ELSE \/ others = {} /\ noted' = noted \ {e}
                \/ \E f \in others : noted' = (noted \cup {f}) \ {e}
    /\ UNCHANGED <<ids, txn, counters, db, life>>

\* vm::init::~init() returns: no eval is executing.
Halt ==
    /\ ~halted /\ \A e \in Evals : phase[e] \notin Executing
    /\ halted' = TRUE
    /\ UNCHANGED <<phase, ids, sequence, txn, noted, counters, db, boots>>

\* sequence::get(event_id): the last key of the event_id column.
IsLast(i) ==
    \/ column = {} /\ i = 0
    \/ \E c \in column : i = c[1] /\ \A d \in column : d[1] <= i

\* The process dies, or ended after Halt, and vm::init::init() runs again
\* over what the database has.
Boot ==
    /\ boots < MaxBoots
    /\ \E i \in {0} \cup {c[1] : c \in column} :
        IsLast(i) /\ retired' = i /\ committed' = i /\ uncommitted' = i
    /\ phase' = [e \in Evals |-> IF phase[e] \in Executing THEN "FAULTED" ELSE phase[e]]
    /\ sequence' = [e \in Evals |-> 0]
    /\ txn' = [e \in Evals |-> {}]
    /\ noted' = {} /\ halted' = FALSE /\ boots' = boots + 1
    /\ UNCHANGED <<ids, db>>

-----------------------------------------------------------------------------
\* What a context does once it is running.
Step(e) ==
    \/ SleepAgain(e) \/ Dupchk1(e) \/ SkipExisting(e) \/ EnterPdu(e)
    \/ Dupchk2(e) \/ FaultExists(e) \/ Access(e) \/ Sequence(e)
    \/ Precommit(e) \/ AuthRela(e) \/ Commit(e) \/ Index(e) \/ Post(e)
    \/ Write(e) \/ Retire(e) \/ Edu(e) \/ Accept(e)

Next ==
    \/ \E e \in Evals, k \in Kinds, p \in Evals \cup {NoEval}, v \in Events \cup {NoEvent} :
        Execute(e, k, v, p)
    \/ \E e \in Evals : Step(e) \/ FaultPdu(e) \/ FaultDu(e)
    \/ Halt
    \/ Boot

Spec == Init /\ [][Next]_vars

\* Hooks and I/O return and a notified context is eventually run: nothing is
\* assumed of new evaluations, faults, interrupts, shutdown or restarts.
Fairness == \A e \in Evals : WF_vars(Step(e))

FairSpec == Spec /\ Fairness

-----------------------------------------------------------------------------
TypeOK ==
    /\ phase \in [Evals -> Phases]
    /\ kind \in [Evals -> Kinds]
    /\ event \in [Evals -> Events \cup {NoEvent}]
    /\ parent \in [Evals -> Evals \cup {NoEval}]
    /\ post \in [Evals -> BOOLEAN]
    /\ sequence \in [Evals -> Nat]
    /\ txn \in [Evals -> SUBSET (Nat \X Events)]
    /\ noted \subseteq Evals
    /\ retired \in Nat /\ committed \in Nat /\ uncommitted \in Nat
    /\ column \subseteq Nat \X Events
    /\ event_idx \subseteq Nat \X Events
    /\ halted \in BOOLEAN /\ boots \in Nat

-----------------------------------------------------------------------------
(***************************************************************************)
(* Safety.                                                                 *)
(***************************************************************************)

\* No two evaluations hold the same sequence number (the sequnique()
\* assertion of execute_pdu()); event_idx collisions would follow.
UniqueSequence ==
    \A e, f \in Evals : e # f /\ sequence[e] # 0 => sequence[e] # sequence[f]

\* Between the COMMIT barrier and the assignment of committed at most one
\* evaluation runs, not counting those its own POST hook makes: they all read
\* the present state of the room and compose a transaction from it.
CommitExclusive ==
    \A e, f \in Evals :
        /\ phase[e] \in {"INDEX", "POST"} /\ ~post[e]
        /\ phase[f] \in {"INDEX", "POST"} /\ ~post[f]
        => e = f

\* The assertions of execute_pdu() on the three counters: whoever is past
\* PRECOMMIT is above retired, whoever is about to commit is above committed.
SequenceAsserts ==
    \A e \in Evals :
        /\ phase[e] \in {"AUTH_RELA", "COMMIT", "INDEX", "POST", "WRITE", "RETIRE"}
            => retired < sequence[e]
        /\ phase[e] \in {"INDEX", "POST"} => committed < sequence[e]

\* An accepted event is in the database, in spite of faults of others and of
\* crashes; one that a POST hook made is there once its parent is accepted.
AcceptedDurable ==
    \A e \in Evals :
        LET done == {"EFFECTS", "ACCEPTED"} IN
        /\ phase[e] \in done /\ kind[e] # "edu"
        /\ post[e] => phase[parent[e]] \in done
        => Exists(event[e])

\* An event is written once: its event_idx never changes, although several
\* contexts may be given the event and none holds a lock while it is checked.
WrittenOnce ==
    [][\A c \in event_idx : c \in event_idx']_vars

\* The sequencer implements the log its readers rely on: what is at or below
\* sequence::retired never changes, and retired is never ahead of the database.
Log == INSTANCE EventLog WITH column <- column, retired <- retired
LogSpec == Log!Spec

\* The _event_idx column leads to the data of the event it is looked up for:
\* no other event took the same index number.
EventIdxConsistent == event_idx \subseteq column

-----------------------------------------------------------------------------
(***************************************************************************)
(* The inductive invariant behind the safety properties.                   *)
(***************************************************************************)

\* Sequenced and not yet committed; committed and not yet retired.
BeforeCommit == {"PRECOMMIT", "AUTH_RELA", "COMMIT", "INDEX", "POST"}
BeforeRetire == {"WRITE", "RETIRE"}

\* A PDU has an event ID.  An eval made by a POST hook composes into its
\* parent's transaction, so it never writes, and its parent stays in POST.
NestingInv ==
    \A e \in Evals :
        /\ phase[e] \in PduPhases \cup {"DUPCHK1", "EXISTS1", "ISSUE"} => event[e] \in Events
        /\ phase[e] \in {"POST", "WRITE", "RETIRE"} => ~post[e]
        /\ phase[e] \in Executing /\ post[e] =>
            /\ parent[e] \in Evals
            /\ phase[parent[e]] = "POST"

\* Where each sequence number lies between the three counters.
CounterInv ==
    /\ retired <= committed /\ committed <= uncommitted
    /\ \A e \in Evals :
        /\ sequence[e] # 0 => phase[e] \in BeforeCommit \cup BeforeRetire \cup {"EFFECTS"}
        /\ phase[e] \in BeforeCommit => committed < sequence[e]
        /\ phase[e] \in {"COMMIT", "INDEX", "POST"} => sequence[e] <= uncommitted
        /\ phase[e] \in BeforeRetire => retired < sequence[e] /\ sequence[e] <= committed

\* Whoever is past the COMMIT barrier still has the lowest uncommitted number.
SectionInv ==
    \A e \in Evals :
        phase[e] \in {"INDEX", "POST"} /\ ~post[e] => SeqNext(sequence, committed, e)

SequenceInv ==
    TypeOK /\ NestingInv /\ CounterInv /\ UniqueSequence /\ SectionInv

\* What a transaction holds, and that retired numbers are in the database.
LogInv ==
    /\ \A e \in Evals :
        /\ \A c \in txn[e] : phase[e] \in {"POST", "WRITE", "RETIRE"} /\ sequence[e] <= c[1]
        /\ phase[e] \in {"POST", "WRITE", "RETIRE"} => <<sequence[e], event[e]>> \in txn[e]
        /\ phase[e] = "RETIRE" => \E c \in column : c[1] = sequence[e]
    /\ retired # 0 => \E c \in column : c[1] = retired

-----------------------------------------------------------------------------
(***************************************************************************)
(* Liveness.                                                               *)
(***************************************************************************)

\* Sequence numbers are not held for ever: no wakeup is lost at the PRECOMMIT,
\* COMMIT and RETIRE barriers, though raising committed or uncommitted
\* notifies nobody.  (The calls are finite in number, so each of them is rid of
\* its number if and only if all are.)
SequenceReleased == []<>(\A e \in Evals : sequence[e] = 0)

\* An eval that waits for a duplicate evaluation of its event goes on when
\* the other one is finished.
DupchkReleases ==
    \A e \in Evals :
        phase[e] \in {"DUPCHK1", "DUPCHK2"} ~> phase[e] \notin {"DUPCHK1", "DUPCHK2"}

\* Every call of execute() returns, unless one waits for a duplicate for ever:
\* nothing else in execute() can get stuck.
ExecuteReturns ==
    []<>(\A e \in Evals : phase[e] \notin {"DUPCHK1", "DUPCHK2"}) =>
        []<>(\A e \in Evals : phase[e] \notin Executing)
=============================================================================
