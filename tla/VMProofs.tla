------------------------------ MODULE VMProofs ------------------------------
(***************************************************************************)
(* Proofs of the safety of the event sequencer, for any set of evaluations *)
(* and events.                                                             *)
(***************************************************************************)
EXTENDS VM, TLAPS

(***************************************************************************)
(* The counters and every variable keep their type from Init.              *)
(***************************************************************************)
LEMMA InitInv == Init => SequenceInv /\ LogInv
<1> SUFFICES ASSUME Init PROVE SequenceInv /\ LogInv
  OBVIOUS
<1> USE DEF Init
<1>1. TypeOK
  BY DEF TypeOK, Phases, Kinds
<1>2. NestingInv /\ CounterInv
  BY DEF NestingInv, CounterInv, PduPhases, Executing, Counted, BeforeCommit, BeforeRetire
<1>3. UniqueSequence /\ SectionInv /\ LogInv
  BY DEF UniqueSequence, SectionInv, LogInv
<1> QED
  BY <1>1, <1>2, <1>3 DEF SequenceInv

(***************************************************************************)
(* An event that may be given to an eval has an ID exactly when it is not  *)
(* an EDU.                                                                 *)
(***************************************************************************)
LEMMA DeliverableType ==
  ASSUME NEW e \in Evals, NEW k \in Kinds, NEW p \in Evals \cup {NoEval}, NEW v,
         TypeOK, NestingInv, Execute(e, k, v, p)
  PROVE  /\ k = "edu" => v = NoEvent
         /\ k # "edu" => v \in Events
<1>1. CASE k = "edu" \/ k = "own"
  BY <1>1 DEF Execute, Deliverable, Events
<1>2. CASE k = "fed" /\ p = NoEval
  BY <1>2 DEF Execute, Deliverable, Events
<1>3. CASE k = "fed" /\ p # NoEval
  <2>1. phase[p] = "FETCH" /\ p \in Evals
    BY <1>3 DEF Execute, HookMayEval
  <2>2. event[p] \in Events
    BY <2>1 DEF NestingInv, PduPhases
  <2>3. AuthChain[event[p]] \subseteq Events
    BY <2>2, EventsAssumption DEF Events
  <2> QED
    BY <1>3, <2>3 DEF Execute, Deliverable
<1> QED
  BY <1>1, <1>2, <1>3 DEF Kinds

(***************************************************************************)
(* Type correctness is preserved by every step.                            *)
(***************************************************************************)
LEMMA TypeStep == TypeOK /\ NestingInv /\ [Next]_vars => TypeOK'
<1> SUFFICES ASSUME TypeOK, NestingInv, [Next]_vars PROVE TypeOK'
  OBVIOUS
<1> USE DEF TypeOK
<1>1. ASSUME NEW e \in Evals, NEW k \in Kinds, NEW p \in Evals \cup {NoEval},
             NEW v \in Events \cup {NoEvent}, Execute(e, k, v, p)
      PROVE  TypeOK'
  BY <1>1 DEF Execute, Goto, counters, db, life, Phases, Executing, Counted, PduPhases
<1>2. ASSUME NEW e \in Evals,
             \/ SleepAgain(e) \/ Dupchk1(e) \/ SkipExisting(e) \/ EnterPdu(e)
             \/ Dupchk2(e) \/ Access(e) \/ Precommit(e)
      PROVE  TypeOK'
  BY <1>2 DEF SleepAgain, Dupchk1, SkipExisting, EnterPdu, Dupchk2, Access, Precommit,
              Goto, Sleep, ids, counters, db, life, Phases, Executing, Counted, PduPhases
<1>3. ASSUME NEW e \in Evals, FaultExists(e) \/ FaultPdu(e) \/ FaultDu(e)
      PROVE  TypeOK'
  BY <1>3 DEF FaultExists, FaultPdu, FaultDu, UnwindPdu, Goto, ids, counters, db, life, Phases
<1>4. ASSUME NEW e \in Evals, Sequence(e) PROVE TypeOK'
  <2>1. NextSequence \subseteq Nat
    BY DEF NextSequence, SeqMax, Max2
  <2> QED
    BY <1>4, <2>1 DEF Sequence, At, Goto, Sleep, ids, counters, db, life, Phases,
                      Executing, Counted, PduPhases
<1>5. ASSUME NEW e \in Evals, AuthRela(e) \/ Commit(e) \/ Post(e) \/ Retire(e) \/ Edu(e) \/ Accept(e)
      PROVE  TypeOK'
  BY <1>5 DEF AuthRela, Commit, Post, Retire, Edu, Accept, At, Goto, Sleep, Max2,
              ids, counters, db, life, Phases, Executing, Counted, PduPhases
<1>6. ASSUME NEW e \in Evals, Index(e) PROVE TypeOK'
  <2>1. event[e] \in Events /\ Base(e) \in Evals
    BY <1>6 DEF Index, Base, NestingInv, PduPhases, Executing, Counted
  <2>2. txn' \in [Evals -> SUBSET (Nat \X Events)]
    BY <1>6, <2>1 DEF Index
  <2> QED
    BY <1>6, <2>2 DEF Index, NotifyAll, Goto, ids, counters, db, life, Phases,
                      Executing, Counted, PduPhases
<1>7. ASSUME NEW e \in Evals, Write(e) PROVE TypeOK'
  BY <1>7 DEF Write, Goto, ids, counters, life, Phases, Executing, Counted, PduPhases
<1>8. CASE Halt
  BY <1>8 DEF Halt, ids, counters, db
<1>9. CASE Boot
  <2>1. {0} \cup {c[1] : c \in column} \subseteq Nat
    OBVIOUS
  <2>2. retired' \in Nat /\ committed' \in Nat /\ uncommitted' \in Nat
    BY <1>9, <2>1 DEF Boot
  <2>3. phase' \in [Evals -> Phases]
    BY <1>9 DEF Boot, Phases
  <2>4. txn' \in [Evals -> SUBSET (Nat \X Events)]
    BY <1>9 DEF Boot
  <2>6. sequence' \in [Evals -> Nat]
    BY <1>9 DEF Boot
  <2>5. noted' \subseteq Evals /\ boots' \in Nat
    BY <1>9 DEF Boot
  <2>7. halted' \in BOOLEAN
    BY <1>9, Zenon DEF Boot
  <2> QED
    BY <1>9, <2>2, <2>3, <2>4, <2>5, <2>6, <2>7 DEF Boot, ids, db
<1>10. CASE UNCHANGED vars
  BY <1>10 DEF vars, ids, counters, db, life
<1> QED
  BY <1>1, <1>2, <1>3, <1>4, <1>5, <1>6, <1>7, <1>8, <1>9, <1>10 DEF Next, Step

(***************************************************************************)
(* The parent of an eval made by a POST hook stays in POST: its context is *)
(* busy with the child.                                                    *)
(***************************************************************************)
LEMMA NestingStep == TypeOK /\ NestingInv /\ [Next]_vars => NestingInv'
<1> SUFFICES ASSUME TypeOK, NestingInv, [Next]_vars PROVE NestingInv'
  OBVIOUS
<1> USE DEF TypeOK, NestingInv, NoChild, Executing, Counted, PduPhases
<1>1. ASSUME NEW e \in Evals, NEW k \in Kinds, NEW p \in Evals \cup {NoEval},
             NEW v \in Events \cup {NoEvent}, Execute(e, k, v, p)
      PROVE  NestingInv'
  <2>1. k # "edu" => v \in Events
    BY <1>1, DeliverableType
  <2>2. phase[e] = "NONE" /\ phase' = [phase EXCEPT ![e] = phase'[e]]
    BY <1>1 DEF Execute, Goto
  <2>3. phase'[e] \in PduPhases \cup {"DUPCHK1", "EXISTS1", "ISSUE"} => event'[e] \in Events
    BY <1>1, <2>1 DEF Execute, Goto
  <2>4. post'[e] => p \in Evals /\ p # e /\ phase[p] = "POST"
    BY <1>1, <2>2 DEF Execute, HookMayEval
  <2>5. /\ event' = [event EXCEPT ![e] = v] /\ parent' = [parent EXCEPT ![e] = p]
        /\ post' = [post EXCEPT ![e] = post'[e]]
    BY <1>1 DEF Execute
  <2>6. ASSUME NEW f \in Evals, f # e
        PROVE  /\ phase'[f] = phase[f] /\ event'[f] = event[f]
               /\ parent'[f] = parent[f] /\ post'[f] = post[f]
    BY <2>2, <2>5, <2>6
  <2>7. phase'[e] \notin {"POST", "WRITE", "RETIRE"}
    BY <1>1 DEF Execute, Goto
  <2>8. phase'[e] \in Executing /\ post'[e] => parent'[e] \in Evals /\ phase'[parent'[e]] = "POST"
    BY <2>4, <2>5, <2>6
  <2>9. ASSUME NEW f \in Evals, f # e, phase[f] \in Executing, post[f]
        PROVE  phase'[parent[f]] = "POST"
    BY <2>2, <2>6, <2>9
  <2> QED
    BY <2>3, <2>6, <2>7, <2>8, <2>9
<1>2. ASSUME NEW e \in Evals, \/ SleepAgain(e) \/ Dupchk1(e) \/ SkipExisting(e) \/ EnterPdu(e)
                              \/ Dupchk2(e) \/ Access(e) \/ Precommit(e)
      PROVE  NestingInv'
  BY <1>2 DEF SleepAgain, Dupchk1, SkipExisting, EnterPdu, Dupchk2, Access, Precommit,
              Goto, Sleep, ids
<1>3. ASSUME NEW e \in Evals, FaultExists(e) \/ FaultPdu(e) \/ FaultDu(e)
      PROVE  NestingInv'
  BY <1>3 DEF FaultExists, FaultPdu, FaultDu, UnwindPdu, Goto, ids
<1>4. ASSUME NEW e \in Evals, Sequence(e) \/ AuthRela(e) \/ Commit(e) \/ Write(e)
      PROVE  NestingInv'
  BY <1>4 DEF Sequence, AuthRela, Commit, Write, At, Goto, Sleep, ids
<1>5. ASSUME NEW e \in Evals, Index(e) \/ Post(e) \/ Retire(e) \/ Edu(e) \/ Accept(e)
      PROVE  NestingInv'
  BY <1>5 DEF Index, Post, Retire, Edu, Accept, At, Goto, ids
<1>6. CASE Halt \/ UNCHANGED vars
  BY <1>6 DEF Halt, vars, ids
<1>7. CASE Boot
  BY <1>7 DEF Boot, ids
<1> QED
  BY <1>1, <1>2, <1>3, <1>4, <1>5, <1>6, <1>7 DEF Next, Step

(***************************************************************************)
(* A new sequence number is above every live one and above committed.      *)
(***************************************************************************)
LEMMA NextSequenceAbove ==
  ASSUME TypeOK, CounterInv, NEW n \in NextSequence
  PROVE  /\ n \in Nat /\ n > committed
         /\ \A f \in Evals : sequence[f] < n
BY DEF TypeOK, CounterInv, NextSequence, SeqMax, Max2

(***************************************************************************)
(* No two evaluations ever hold one sequence number.                       *)
(***************************************************************************)
LEMMA UniqueStep ==
  TypeOK /\ CounterInv /\ UniqueSequence /\ [Next]_vars => UniqueSequence'
<1> SUFFICES ASSUME TypeOK, CounterInv, UniqueSequence, [Next]_vars PROVE UniqueSequence'
  OBVIOUS
<1> USE DEF UniqueSequence, TypeOK
<1>1. ASSUME NEW e \in Evals, Sequence(e) PROVE UniqueSequence'
  <2>1. PICK n \in NextSequence : sequence' = [sequence EXCEPT ![e] = n]
    BY <1>1 DEF Sequence
  <2> QED
    BY <2>1, NextSequenceAbove
<1>2. ASSUME NEW e \in Evals, sequence' = [sequence EXCEPT ![e] = 0] PROVE UniqueSequence'
  BY <1>2
<1>3. CASE UNCHANGED sequence
  BY <1>3
<1>4. CASE Boot
  BY <1>4 DEF Boot
<1> QED
  BY <1>1, <1>2, <1>3, <1>4
     DEF Next, Step, Execute, SleepAgain, Dupchk1, SkipExisting, EnterPdu, Dupchk2, Access,
         Precommit, AuthRela, Commit, Index, Post, Write, Retire, Edu, Accept, FaultExists,
         FaultPdu, FaultDu, UnwindPdu, Halt, vars

(***************************************************************************)
(* Two evaluations past the COMMIT barrier would both have the lowest      *)
(* uncommitted number.                                                     *)
(***************************************************************************)
LEMMA ExclusiveSection == SequenceInv => CommitExclusive
BY DEF SequenceInv, TypeOK, UniqueSequence, SectionInv, SeqNext, CommitExclusive

(***************************************************************************)
(* Every sequence number stays on its side of the three counters: who      *)
(* commits or retires has the lowest number above the counter, so nobody   *)
(* is passed over.                                                         *)
(***************************************************************************)
LEMMA CounterStep == SequenceInv /\ [Next]_vars => CounterInv'
<1> SUFFICES ASSUME SequenceInv, [Next]_vars PROVE CounterInv'
  OBVIOUS
<1> USE DEF SequenceInv, TypeOK, CounterInv, BeforeCommit, BeforeRetire
<1>1. ASSUME NEW e \in Evals, NEW k \in Kinds, NEW p \in Evals \cup {NoEval},
             NEW v \in Events \cup {NoEvent}, Execute(e, k, v, p)
      PROVE  CounterInv'
  BY <1>1 DEF Execute, Goto, counters
<1>2. ASSUME NEW e \in Evals, \/ SleepAgain(e) \/ Dupchk1(e) \/ SkipExisting(e) \/ EnterPdu(e)
                              \/ Dupchk2(e) \/ Access(e) \/ Precommit(e)
      PROVE  CounterInv'
  BY <1>2 DEF SleepAgain, Dupchk1, SkipExisting, EnterPdu, Dupchk2, Access, Precommit,
              Goto, Sleep, counters
<1>3. ASSUME NEW e \in Evals, FaultExists(e) \/ FaultPdu(e) \/ FaultDu(e)
      PROVE  CounterInv'
  BY <1>3 DEF FaultExists, FaultPdu, FaultDu, UnwindPdu, Goto, counters
<1>4. ASSUME NEW e \in Evals, Sequence(e) PROVE CounterInv'
  <2>1. PICK n \in NextSequence : sequence' = [sequence EXCEPT ![e] = n]
    BY <1>4 DEF Sequence
  <2>2. phase' = [phase EXCEPT ![e] = phase'[e]] /\ phase'[e] \in {"AUTH_RELA", "PRECOMMIT"}
    BY <1>4 DEF Sequence, Goto, Sleep
  <2> QED
    BY <1>4, <2>1, <2>2, NextSequenceAbove DEF Sequence, At, counters
<1>5. ASSUME NEW e \in Evals, AuthRela(e) PROVE CounterInv'
  BY <1>5 DEF AuthRela, Goto, Sleep, Max2
<1>6. ASSUME NEW e \in Evals, Commit(e) \/ Index(e) \/ Write(e) \/ Edu(e) \/ Accept(e)
      PROVE  CounterInv'
  BY <1>6 DEF Commit, Index, Write, Edu, Accept, At, Goto, counters
<1>7. ASSUME NEW e \in Evals, Post(e) PROVE CounterInv'
  <2>1. phase[e] = "POST" /\ committed' = sequence[e] /\ phase' = [phase EXCEPT ![e] = "WRITE"]
        /\ UNCHANGED <<sequence, retired, uncommitted>>
    BY <1>7 DEF Post, At, Goto
  <2>2. ASSUME NEW f \in Evals, f # e, committed < sequence[f] PROVE sequence[e] < sequence[f]
    BY <2>1, <2>2 DEF SectionInv, SeqNext, UniqueSequence, NestingInv
  <2> QED
    BY <2>1, <2>2
<1>8. ASSUME NEW e \in Evals, Retire(e) PROVE CounterInv'
  <2>1. phase[e] = "RETIRE" /\ retired' = sequence[e] /\ phase' = [phase EXCEPT ![e] = "EFFECTS"]
        /\ UNCHANGED <<sequence, committed, uncommitted>>
    BY <1>8 DEF Retire, Goto
  <2>2. ASSUME NEW f \in Evals, f # e, retired < sequence[f] PROVE sequence[e] < sequence[f]
    BY <1>8, <2>2 DEF Retire, MayRetire, SeqNext, UniqueSequence
  <2> QED
    BY <2>1, <2>2
<1>9. CASE Halt \/ UNCHANGED vars
  BY <1>9 DEF Halt, vars, counters
<1>10. CASE Boot
  <2>1. {0} \cup {c[1] : c \in column} \subseteq Nat
    OBVIOUS
  <2>2. retired' \in Nat /\ committed' = retired' /\ uncommitted' = retired'
    BY <1>10, <2>1 DEF Boot
  <2> QED
    BY <1>10, <2>2 DEF Boot, Executing, Counted, PduPhases
<1> QED
  BY <1>1, <1>2, <1>3, <1>4, <1>5, <1>6, <1>7, <1>8, <1>9, <1>10 DEF Next, Step

(***************************************************************************)
(* Whoever is past the COMMIT barrier keeps the lowest uncommitted number: *)
(* later numbers are higher and nobody else can commit.                    *)
(***************************************************************************)
LEMMA SectionStep == SequenceInv /\ [Next]_vars => SectionInv'
<1> SUFFICES ASSUME SequenceInv, [Next]_vars PROVE SectionInv'
  OBVIOUS
<1> USE DEF SequenceInv, TypeOK, SectionInv, SeqNext
<1>1. ASSUME NEW e \in Evals, NEW k \in Kinds, NEW p \in Evals \cup {NoEval},
             NEW v \in Events \cup {NoEvent}, Execute(e, k, v, p)
      PROVE  SectionInv'
  BY <1>1 DEF Execute, Goto, counters
<1>2. ASSUME NEW e \in Evals, \/ SleepAgain(e) \/ Dupchk1(e) \/ SkipExisting(e) \/ EnterPdu(e)
                              \/ Dupchk2(e) \/ Access(e) \/ Precommit(e)
      PROVE  SectionInv'
  BY <1>2 DEF SleepAgain, Dupchk1, SkipExisting, EnterPdu, Dupchk2, Access, Precommit,
              Goto, Sleep, ids, counters
<1>3. ASSUME NEW e \in Evals, FaultExists(e) \/ FaultPdu(e) \/ FaultDu(e)
      PROVE  SectionInv'
  BY <1>3 DEF FaultExists, FaultPdu, FaultDu, UnwindPdu, Goto, ids, counters
<1>4. ASSUME NEW e \in Evals, Sequence(e) PROVE SectionInv'
  <2>1. PICK n \in NextSequence : sequence' = [sequence EXCEPT ![e] = n]
    BY <1>4 DEF Sequence
  <2>2. phase' = [phase EXCEPT ![e] = phase'[e]] /\ phase'[e] \in {"AUTH_RELA", "PRECOMMIT"}
    BY <1>4 DEF Sequence, Goto, Sleep
  <2> QED
    BY <1>4, <2>1, <2>2, NextSequenceAbove DEF Sequence, At, ids, counters
<1>5. ASSUME NEW e \in Evals, AuthRela(e) \/ Commit(e) PROVE SectionInv'
  BY <1>5 DEF AuthRela, Commit, MayCommit, Goto, Sleep, ids, counters
<1>6. ASSUME NEW e \in Evals, Index(e) \/ Write(e) \/ Retire(e) \/ Edu(e) \/ Accept(e)
      PROVE  SectionInv'
  BY <1>6 DEF Index, Write, Retire, Edu, Accept, At, Goto, ids, counters
<1>7. ASSUME NEW e \in Evals, Post(e) PROVE SectionInv'
  <2>1. phase[e] = "POST" /\ phase' = [phase EXCEPT ![e] = "WRITE"] /\ post' = post
    BY <1>7 DEF Post, At, Goto, ids
  <2>2. ~post[e]
    BY <2>1 DEF NestingInv
  <2> QED
    BY <2>1, <2>2, ExclusiveSection DEF CommitExclusive
<1>8. CASE Halt \/ UNCHANGED vars
  BY <1>8 DEF Halt, vars, ids, counters
<1>9. CASE Boot
  BY <1>9 DEF Boot, Executing, Counted, PduPhases
<1> QED
  BY <1>1, <1>2, <1>3, <1>4, <1>5, <1>6, <1>7, <1>8, <1>9 DEF Next, Step

(***************************************************************************)
(* The sequence invariant is inductive.                                    *)
(***************************************************************************)
LEMMA SequenceStep == SequenceInv /\ [Next]_vars => SequenceInv'
BY TypeStep, NestingStep, CounterStep, UniqueStep, SectionStep DEF SequenceInv

(***************************************************************************)
(* SequenceInv is an invariant of the sequencer.                           *)
(***************************************************************************)
THEOREM SequenceInvariant == Spec => []SequenceInv
<1>1. Init => SequenceInv
  BY InitInv
<1> QED
  BY <1>1, SequenceStep, PTL DEF Spec

(***************************************************************************)
(* Type correctness of the sequencer.                                      *)
(***************************************************************************)
THEOREM TypeCorrect == Spec => []TypeOK
BY SequenceInvariant, PTL DEF SequenceInv

(***************************************************************************)
(* sequnique() holds in every state: no two evaluations can be given one   *)
(* event_idx at a time, in any number of concurrent evaluations.           *)
(***************************************************************************)
THEOREM SequencesUnique == Spec => []UniqueSequence
BY SequenceInvariant, PTL DEF SequenceInv

(***************************************************************************)
(* At most one evaluation (and those of its POST hook) is between the      *)
(* COMMIT barrier and the assignment of sequence::committed.               *)
(***************************************************************************)
THEOREM CommitExclusion == Spec => []CommitExclusive
BY SequenceInvariant, ExclusiveSection, PTL

(***************************************************************************)
(* The assertions of execute_pdu() on sequence::retired and committed      *)
(* cannot fail.                                                            *)
(***************************************************************************)
THEOREM AssertsHold == Spec => []SequenceAsserts
<1>1. SequenceInv => SequenceAsserts
  <2> SUFFICES ASSUME SequenceInv PROVE SequenceAsserts
    OBVIOUS
  <2> USE DEF SequenceInv, TypeOK, CounterInv, BeforeCommit, BeforeRetire
  <2>1. ASSUME NEW e \in Evals, phase[e] \in {"AUTH_RELA", "COMMIT", "INDEX", "POST"}
        PROVE  retired < sequence[e] /\ committed < sequence[e]
    BY <2>1
  <2>2. ASSUME NEW e \in Evals, phase[e] \in {"WRITE", "RETIRE"}
        PROVE  retired < sequence[e]
    BY <2>2
  <2> QED
    BY <2>1, <2>2 DEF SequenceAsserts
<1> QED
  BY <1>1, SequenceInvariant, PTL

(***************************************************************************)
(* A transaction holds index numbers from that of its eval upwards, and a  *)
(* number is retired only after its cells are in the database.             *)
(***************************************************************************)
LEMMA LogStep == SequenceInv /\ LogInv /\ [Next]_vars => LogInv'
<1> SUFFICES ASSUME SequenceInv, LogInv, [Next]_vars PROVE LogInv'
  OBVIOUS
<1> USE DEF SequenceInv, TypeOK, LogInv
<1>1. ASSUME NEW e \in Evals, NEW k \in Kinds, NEW p \in Evals \cup {NoEval},
             NEW v \in Events \cup {NoEvent}, Execute(e, k, v, p)
      PROVE  LogInv'
  BY <1>1 DEF Execute, Goto, counters, db
<1>2. ASSUME NEW e \in Evals, \/ SleepAgain(e) \/ Dupchk1(e) \/ SkipExisting(e) \/ EnterPdu(e)
                              \/ Dupchk2(e) \/ Access(e) \/ Precommit(e)
      PROVE  LogInv'
  BY <1>2 DEF SleepAgain, Dupchk1, SkipExisting, EnterPdu, Dupchk2, Access, Precommit,
              Goto, Sleep, ids, counters, db
<1>3. ASSUME NEW e \in Evals, FaultExists(e) \/ FaultPdu(e)
      PROVE  LogInv'
  BY <1>3 DEF FaultExists, FaultPdu, UnwindPdu, Goto, ids, counters, db
<1>4. ASSUME NEW e \in Evals, FaultDu(e) \/ Edu(e) \/ Accept(e)
      PROVE  LogInv'
  <2>1. /\ phase[e] \notin {"POST", "WRITE", "RETIRE"}
        /\ phase' = [phase EXCEPT ![e] = phase'[e]]
        /\ phase'[e] \in {"FAULTED", "EFFECTS", "ACCEPTED"}
    <3>1. CASE FaultDu(e)
      BY <3>1 DEF FaultDu, Goto
    <3>2. CASE Edu(e) \/ Accept(e)
      BY <3>2 DEF Edu, Accept, At, Goto
    <3> QED
      BY <1>4, <3>1, <3>2
  <2>2. /\ sequence' = [sequence EXCEPT ![e] = sequence'[e]]
        /\ UNCHANGED <<event, txn, retired, column>>
    BY <1>4 DEF FaultDu, Edu, Accept, ids, counters, db
  <2>3. txn[e] = {}
    BY <2>1
  <2>4. ASSUME NEW f \in Evals, f # e
        PROVE  phase'[f] = phase[f] /\ sequence'[f] = sequence[f]
    BY <2>1, <2>2, <2>4
  <2>5. phase'[e] \notin {"POST", "WRITE", "RETIRE"}
    BY <2>1
  <2> QED
    BY <2>2, <2>3, <2>4, <2>5
<1>5. ASSUME NEW e \in Evals, Sequence(e) PROVE LogInv'
  <2>1. PICK n \in NextSequence : sequence' = [sequence EXCEPT ![e] = n]
    BY <1>5 DEF Sequence
  <2>2. phase' = [phase EXCEPT ![e] = phase'[e]] /\ phase'[e] \in {"AUTH_RELA", "PRECOMMIT"}
    BY <1>5 DEF Sequence, Goto, Sleep
  <2> QED
    BY <1>5, <2>1, <2>2 DEF Sequence, At, ids, counters, db
<1>6. ASSUME NEW e \in Evals, AuthRela(e) \/ Commit(e) \/ Post(e)
      PROVE  LogInv'
  BY <1>6 DEF AuthRela, Commit, Post, At, Goto, Sleep, ids, counters, db
<1>7. ASSUME NEW e \in Evals, Index(e) PROVE LogInv'
  <2>1. CASE post[e]
    <3>1. parent[e] \in Evals /\ phase[parent[e]] = "POST" /\ parent[e] # e
      BY <1>7, <2>1 DEF Index, NestingInv, Executing, Counted, PduPhases
    <3>2. sequence[parent[e]] <= sequence[e]
      BY <1>7, <3>1 DEF Index, NestingInv, CounterInv, SectionInv, SeqNext, BeforeCommit
    <3>3. /\ txn' = [txn EXCEPT ![parent[e]] = @ \cup {<<sequence[e], event[e]>>}]
          /\ phase[e] = "INDEX" /\ phase' = [phase EXCEPT ![e] = "EFFECTS"]
          /\ UNCHANGED <<sequence, event, retired, column>>
      BY <1>7, <2>1 DEF Index, Base, Goto, ids, counters, db
    <3>4. ASSUME NEW c \in txn'[parent[e]] PROVE sequence[parent[e]] <= c[1]
      <4>1. c \in txn[parent[e]] \/ c = <<sequence[e], event[e]>>
        BY <3>1, <3>3
      <4>2. CASE c \in txn[parent[e]]
        BY <3>1, <4>2
      <4>3. CASE c = <<sequence[e], event[e]>>
        BY <3>2, <4>3
      <4> QED
        BY <4>1, <4>2, <4>3
    <3>5. txn[e] = {} /\ txn'[e] = {}
      BY <3>1, <3>3
    <3> QED
      BY <3>1, <3>3, <3>4, <3>5
  <2>2. CASE ~post[e]
    BY <1>7, <2>2 DEF Index, Base, Goto, ids, counters, db
  <2> QED
    BY <2>1, <2>2
<1>8. ASSUME NEW e \in Evals, Write(e) PROVE LogInv'
  <2>1. ASSUME NEW c \in column PROVE \E d \in column' : d[1] = c[1]
    BY <1>8 DEF Write
  <2>2. <<sequence[e], event[e]>> \in column'
    BY <1>8 DEF Write
  <2>3. \E d \in column' : d[1] = sequence[e]
    BY <2>2
  <2> QED
    BY <1>8, <2>1, <2>3 DEF Write, Goto, ids, counters
<1>9. ASSUME NEW e \in Evals, Retire(e) PROVE LogInv'
  BY <1>9 DEF Retire, Goto, ids, db
<1>10. CASE Halt \/ UNCHANGED vars
  BY <1>10 DEF Halt, vars, ids, counters, db
<1>11. CASE Boot
  BY <1>11 DEF Boot, IsLast, ids, db, Executing, Counted, PduPhases
<1> QED
  BY <1>1, <1>2, <1>3, <1>4, <1>5, <1>6, <1>7, <1>8, <1>9, <1>10, <1>11 DEF Next, Step

(***************************************************************************)
(* Every step of the sequencer is a step of the log or leaves it alone.    *)
(***************************************************************************)
LEMMA LogSimulation ==
  SequenceInv /\ LogInv /\ [Next]_vars => [Log!Next]_<<column, retired>>
<1> SUFFICES ASSUME SequenceInv, LogInv, [Next]_vars
             PROVE  [Log!Next]_<<column, retired>>
  OBVIOUS
<1> USE DEF SequenceInv, TypeOK, LogInv, Log!Next
<1>1. ASSUME NEW e \in Evals, Write(e) PROVE [Log!Next]_<<column, retired>>
  <2>1. ASSUME NEW d \in txn[e] PROVE d[1] > retired
    <3>1. retired < sequence[e] /\ sequence[e] \in Nat
      BY <1>1 DEF Write, CounterInv, BeforeRetire
    <3>2. sequence[e] <= d[1]
      OBVIOUS
    <3>3. d \in Nat \X Events
      OBVIOUS
    <3>4. d[1] \in Nat
      BY <3>3
    <3> QED
      BY <3>1, <3>2, <3>4
  <2>2. \A c \in (column \ column') \cup (column' \ column) : c[1] > retired
    BY <1>1, <2>1 DEF Write
  <2> QED
    BY <1>1, <2>2 DEF Write, counters, Log!Append
<1>2. ASSUME NEW e \in Evals, Retire(e) PROVE [Log!Next]_<<column, retired>>
  BY <1>2 DEF Retire, db, Log!Advance, CounterInv, BeforeRetire
<1>3. CASE Boot
  <2>1. PICK i \in {0} \cup {c[1] : c \in column} : IsLast(i) /\ retired' = i
    BY <1>3 DEF Boot
  <2>2. i >= retired /\ (i # 0 => \E c \in column : c[1] = i)
    BY <2>1 DEF IsLast
  <2> QED
    BY <1>3, <2>1, <2>2 DEF Boot, db, Log!Advance
<1>4. CASE UNCHANGED <<column, retired>>
  BY <1>4
<1> QED
  BY <1>1, <1>2, <1>3, <1>4
     DEF Next, Step, Execute, SleepAgain, Dupchk1, SkipExisting, EnterPdu, Dupchk2, Access,
         Sequence, Precommit, AuthRela, Commit, Index, Post, Edu, Accept, FaultExists,
         FaultPdu, FaultDu, UnwindPdu, Halt, vars, counters, db

(***************************************************************************)
(* The sequencer implements the log that /sync and the federation sender   *)
(* read up to sequence::retired: nothing at or below retired ever changes, *)
(* retired never goes back, not even in a restart.                         *)
(***************************************************************************)
THEOREM ImplementsLog == Spec => LogSpec
<1>1. Init => Log!Init
  BY DEF Init, Log!Init
<1>2. Spec => [](SequenceInv /\ LogInv)
  BY InitInv, SequenceStep, LogStep, PTL DEF Spec
<1> QED
  BY <1>1, <1>2, LogSimulation, PTL DEF Spec, LogSpec, Log!Spec, Log!logvars
-------------------------------------------------------------------------------
(***************************************************************************)
(* Existence and durability.  Absent are the phases in which the event of  *)
(* an eval is known not to be in the database; Past those in which the     *)
(* second DUPCHK has made the eval the only one of its event.              *)
(***************************************************************************)
Absent == {"FETCH", "PRECOMMIT", "AUTH_RELA", "COMMIT", "INDEX", "POST", "WRITE"}
Past == Absent \cup {"EXISTS2", "RETIRE", "EFFECTS"}

\* Which events the evals have: those of this server are each injected once, and
\* come back from a remote only when they are in the database.
OriginInv ==
    \A e \in Evals :
        /\ phase[e] = "NONE" => kind[e] = "edu"
        /\ kind[e] = "edu" => event[e] = NoEvent /\ phase[e] \notin {"ISSUE", "DUPCHK2"}
        /\ phase[e] = "EDU" => kind[e] = "edu"
        /\ kind[e] = "own" => event[e] \in LocalEvents
        /\ kind[e] = "fed" /\ event[e] \in LocalEvents => Exists(event[e])
        /\ post[e] => kind[e] = "own" /\ parent[e] \in Evals
        /\ \A f \in Evals : kind[e] = "own" /\ kind[f] = "own" /\ event[e] = event[f] => e = f

\* One eval at a time is past the second DUPCHK with an event.
OneEval ==
    \A e, f \in Evals :
        phase[e] \in Past /\ phase[f] \in Past /\ event[e] = event[f] /\ event[e] \in Events => e = f

\* x is an eval whose event may be in the transaction of e.
Composes(x, e) ==
    x = e \/ (post[x] /\ parent[x] = e /\ phase[x] \in {"EFFECTS", "ACCEPTED", "FAULTED"})

\* What is about to be written is not in the database, and is the event of the
\* eval or of one that its POST hook has made.
AbsentInv ==
    /\ \A c \in event_idx : \E f \in Evals : event[f] = c[2]
    /\ \A e \in Evals :
        /\ phase[e] \in Absent => ~Exists(event[e])
        /\ kind[e] = "own" /\ phase[e] \in {"ISSUE", "DUPCHK2"} => ~Exists(event[e])
        /\ \A d \in txn[e] :
            /\ phase[e] # "RETIRE" => ~Exists(d[2])
            /\ \E x \in Evals : event[x] = d[2] /\ Composes(x, e)

\* What is accepted is in the database, or in the transaction of the parent.
DurableInv ==
    \A e \in Evals :
        /\ phase[e] = "RETIRE" => Exists(event[e])
        /\ phase[e] \in {"EFFECTS", "ACCEPTED"} /\ kind[e] # "edu" =>
            \/ Exists(event[e])
            \/ /\ post[e]
               /\ \/ phase[parent[e]] = "FAULTED"
                  \/ /\ phase[parent[e]] \in {"POST", "WRITE"}
                     /\ \E d \in txn[parent[e]] : d[2] = event[e]

WriteInv == OriginInv /\ OneEval /\ AbsentInv /\ DurableInv

\* The initial state.
LEMMA InitWrite == Init => WriteInv
BY EvalsAssumption, EventsAssumption
   DEF Init, WriteInv, OriginInv, OneEval, AbsentInv, DurableInv, Exists, Absent, Past, Events

\* e goes on to phase q and nothing is written.  txn[e] stays while e has a
\* transaction, and goes when execute_pdu() is left.
Moves(e, q) ==
    /\ phase' = [phase EXCEPT ![e] = q]
    /\ UNCHANGED <<kind, event, parent, post, event_idx>>
    /\ phase[e] \in Executing /\ q \in Phases \ {"NONE", "EDU", "ISSUE", "RETIRE"}
    /\ \/ /\ txn' = txn
          /\ (phase[e] = "POST" /\ q = "WRITE") \/ phase[e] \notin {"POST", "WRITE", "RETIRE"}
       \/ /\ txn' = [txn EXCEPT ![e] = {}]
          /\ q = "FAULTED" \/ phase[e] = "RETIRE"
    /\ phase[e] = "EFFECTS" => q \in {"ACCEPTED", "FAULTED"}

\* A step of execute() that writes nothing keeps WriteInv.
LEMMA MovesWrite ==
  ASSUME SequenceInv, LogInv, WriteInv, NEW e \in Evals, NEW q, Moves(e, q),
         q \in Past => phase[e] \in Past \/ MayProceed(e) \/ event[e] = NoEvent,
         q \in Absent => ~Exists(event[e]),
         q = "DUPCHK2" => kind[e] # "edu" /\ (kind[e] = "own" => ~Exists(event[e])),
         q \in {"EFFECTS", "ACCEPTED"} =>
            phase[e] = "EFFECTS" \/ kind[e] = "edu" \/ Exists(event[e])
  PROVE  WriteInv'
<1> USE EvalsAssumption, EventsAssumption DEF Moves, WriteInv, SequenceInv, TypeOK
<1>1. \A v : Exists(v)' <=> Exists(v)
  BY DEF Exists
<1>2. /\ phase'[e] = q /\ \A f \in Evals : f # e => phase'[f] = phase[f]
      /\ UNCHANGED <<kind, event, parent, post, event_idx>>
      /\ \A f \in Evals : txn'[f] \subseteq txn[f]
      /\ \A f \in Evals : f # e => txn'[f] = txn[f]
  OBVIOUS
<1>3. OriginInv'
  BY <1>1, <1>2 DEF OriginInv
<1>4. OneEval'
  <2>1. ASSUME NEW f \in Evals, f # e, q \in Past, phase[f] \in Past,
               event[e] = event[f], event[e] \in Events
        PROVE  FALSE
    <3>1. CASE phase[e] \in Past
      BY <2>1, <3>1 DEF OneEval
    <3>2. CASE MayProceed(e)
      BY <2>1, <3>2 DEF MayProceed, AtMostOne, Evaluating, Past, Absent, Counted, PduPhases
    <3> QED BY <2>1, <3>1, <3>2
  <2> QED BY <1>2, <2>1 DEF OneEval
<1>5. \A x, f \in Evals : Composes(x, f) => Composes(x, f)'
  BY <1>2 DEF Composes, Executing, Counted, PduPhases
<1>6. AbsentInv'
  <2>1. ASSUME NEW f \in Evals, NEW d \in txn'[f]
        PROVE  /\ phase'[f] # "RETIRE" => ~Exists(d[2])
               /\ \E x \in Evals : event[x] = d[2] /\ Composes(x, f)
    <3>1. d \in txn[f]
      BY <1>2, <2>1
    <3>2. phase[f] # "RETIRE" \/ f # e
      BY <2>1
    <3> QED BY <1>2, <3>1, <3>2 DEF AbsentInv
  <2> QED BY <1>1, <1>2, <1>5, <2>1 DEF AbsentInv
<1>7. DurableInv'
  <2>1. ASSUME NEW f \in Evals, phase'[f] = "RETIRE" PROVE Exists(event[f])
    BY <1>2, <2>1 DEF DurableInv
  <2>2. ASSUME NEW f \in Evals, phase'[f] \in {"EFFECTS", "ACCEPTED"}, kind[f] # "edu", ~Exists(event[f])
        PROVE  /\ post[f]
               /\ \/ phase'[parent[f]] = "FAULTED"
                  \/ /\ phase'[parent[f]] \in {"POST", "WRITE"}
                     /\ \E d \in txn'[parent[f]] : d[2] = event[f]
    <3>1. phase[f] \in {"EFFECTS", "ACCEPTED"}
      BY <1>2, <2>2
    <3>2. /\ post[f] /\ parent[f] \in Evals
          /\ \/ phase[parent[f]] = "FAULTED"
             \/ /\ phase[parent[f]] \in {"POST", "WRITE"}
                /\ \E d \in txn[parent[f]] : d[2] = event[f]
      BY <2>2, <3>1 DEF DurableInv, OriginInv
    <3>3. CASE parent[f] # e
      BY <1>2, <3>2, <3>3
    <3>4. CASE parent[f] = e
      BY <1>2, <3>2, <3>4 DEF Executing, Counted, PduPhases
    <3> QED BY <3>3, <3>4
  <2> QED BY <1>1, <1>2, <2>1, <2>2 DEF DurableInv
<1> QED BY <1>3, <1>4, <1>6, <1>7
\* A new eval: an event of this server that nobody has evaluated is not in the
\* database, since what is there was evaluated.
LEMMA ExecuteWrite ==
  ASSUME SequenceInv, LogInv, WriteInv, NEW e \in Evals, NEW k \in Kinds,
         NEW p \in Evals \cup {NoEval}, NEW v \in Events \cup {NoEvent}, Execute(e, k, v, p)
  PROVE  WriteInv'
<1> USE EvalsAssumption, EventsAssumption DEF WriteInv, SequenceInv, TypeOK
<1>1. \A w : Exists(w)' <=> Exists(w)
  BY DEF Execute, db, Exists
<1>2. /\ phase[e] = "NONE" /\ kind[e] = "edu" /\ event[e] = NoEvent /\ ~post[e] /\ txn[e] = {}
  BY DEF Execute, OriginInv, LogInv
<1>3. /\ kind'[e] = k /\ event'[e] = v /\ parent'[e] = p
      /\ phase'[e] \in {"EDU", "ISSUE", "EXISTS1", "DUPCHK1"}
      /\ phase'[e] = "EDU" <=> k = "edu"
      /\ phase'[e] = "ISSUE" <=> k = "own"
      /\ \A f \in Evals : f # e => /\ kind'[f] = kind[f] /\ event'[f] = event[f]
                                   /\ parent'[f] = parent[f] /\ post'[f] = post[f]
                                   /\ phase'[f] = phase[f]
      /\ UNCHANGED <<txn, event_idx>>
  BY DEF Execute, Goto, db
<1>4. post'[e] => k = "own" /\ p \in Evals
  BY DEF Execute, HookMayEval
<1>5. k = "own" => v \in LocalEvents /\ (\A f \in Evals : event[f] # v) /\ ~Exists(v)
  BY DEF Execute, Deliverable, Fresh, AbsentInv, Exists
<1>6. k = "edu" => v = NoEvent
  BY DEF Execute, Deliverable
<1>7. k = "fed" /\ v \in LocalEvents => Exists(v)
  <2>1. ASSUME k = "fed", p # NoEval PROVE v \in RemoteEvents
    <3>1. event[p] \in Events
      BY <2>1 DEF Execute, HookMayEval, NestingInv, PduPhases
    <3> QED BY <2>1, <3>1 DEF Execute, Deliverable
  <2> QED BY <2>1 DEF Execute, Deliverable
<1>8. OriginInv'
  BY <1>1, <1>3, <1>4, <1>5, <1>6, <1>7 DEF OriginInv
<1>9. OneEval'
  BY <1>3 DEF OneEval, Past, Absent
<1>10. \A x, f \in Evals : Composes(x, f) => x # e \/ f = e
  BY <1>2 DEF Composes
<1>11. AbsentInv'
  <2>1. \A c \in event_idx : \E f \in Evals : event'[f] = c[2]
    BY <1>2, <1>3 DEF AbsentInv
  <2>2. ASSUME NEW f \in Evals, NEW d \in txn[f]
        PROVE  \E x \in Evals : event'[x] = d[2] /\ Composes(x, f)'
    <3>1. PICK x \in Evals : event[x] = d[2] /\ Composes(x, f)
      BY DEF AbsentInv
    <3>2. f # e
      BY <1>2
    <3>3. x # e
      BY <1>10, <3>1, <3>2
    <3> QED BY <1>3, <3>1, <3>2, <3>3 DEF Composes
  <2>3. phase'[e] \notin Absent /\ phase'[e] # "DUPCHK2"
    BY <1>3 DEF Absent
  <2> QED BY <1>1, <1>2, <1>3, <1>5, <2>1, <2>2, <2>3 DEF AbsentInv
<1>12. DurableInv'
  <2>1. ASSUME NEW f \in Evals, f # e, post[f], parent[f] = e, phase[f] \in {"EFFECTS", "ACCEPTED"},
               kind[f] # "edu"
        PROVE  Exists(event[f])
    BY <1>2, <2>1 DEF DurableInv
  <2> QED BY <1>1, <1>3, <2>1 DEF DurableInv, OriginInv
<1> QED BY <1>8, <1>9, <1>11, <1>12

\* write_append(): the event joins the transaction of the eval, or of the parent
\* whose POST hook made it.
LEMMA IndexWrite ==
  ASSUME SequenceInv, LogInv, WriteInv, NEW e \in Evals, Index(e)
  PROVE  WriteInv'
<1> USE EvalsAssumption, EventsAssumption DEF WriteInv, SequenceInv, TypeOK
<1>1. \A v : Exists(v)' <=> Exists(v)
  BY DEF Index, db, Exists
<1>2. /\ phase[e] = "INDEX" /\ ~Exists(event[e]) /\ event[e] \in Events
  BY DEF Index, AbsentInv, Absent, NestingInv, PduPhases
<1>3. PICK b \in Evals : /\ b = Base(e)
                         /\ (post[e] => b = parent[e] /\ phase[b] = "POST") /\ (~post[e] => b = e)
  BY <1>2 DEF Base, NestingInv, Executing, Counted, PduPhases
<1>4. /\ phase'[e] = IF post[e] THEN "EFFECTS" ELSE "POST"
      /\ \A f \in Evals : f # e => phase'[f] = phase[f]
      /\ UNCHANGED <<kind, event, parent, post, event_idx>>
      /\ txn'[b] = txn[b] \cup {<<sequence[e], event[e]>>}
      /\ \A f \in Evals : f # b => txn'[f] = txn[f]
  BY <1>3 DEF Index, Goto, ids, db
<1>5. OriginInv'
  BY <1>1, <1>4 DEF OriginInv
<1>6. OneEval'
  BY <1>2, <1>4 DEF OneEval, Past, Absent
<1>7. \A x, f \in Evals : Composes(x, f) => Composes(x, f)'
  BY <1>2, <1>4 DEF Composes
<1>8. Composes(e, b)'
  BY <1>3, <1>4 DEF Composes
<1>9. AbsentInv'
  <2>1. ASSUME NEW f \in Evals, NEW d \in txn'[f]
        PROVE  /\ phase'[f] # "RETIRE" => ~Exists(d[2])
               /\ \E x \in Evals : event[x] = d[2] /\ Composes(x, f)'
    <3>1. CASE d \in txn[f]
      BY <1>2, <1>4, <1>7, <3>1 DEF AbsentInv
    <3>2. CASE d \notin txn[f]
      <4>1. f = b /\ d = <<sequence[e], event[e]>>
        BY <1>4, <2>1, <3>2
      <4>2. d[2] = event[e]
        BY <4>1
      <4> QED BY <1>2, <1>8, <4>1, <4>2
    <3> QED BY <3>1, <3>2
  <2> QED BY <1>1, <1>2, <1>4, <2>1 DEF AbsentInv, Absent
<1>10. DurableInv'
  <2>1. ASSUME NEW f \in Evals, phase'[f] \in {"EFFECTS", "ACCEPTED"}, kind[f] # "edu", ~Exists(event[f])
        PROVE  /\ post[f]
               /\ \/ phase'[parent[f]] = "FAULTED"
                  \/ /\ phase'[parent[f]] \in {"POST", "WRITE"}
                     /\ \E d \in txn'[parent[f]] : d[2] = event[f]
    <3>1. CASE f # e
      <4>1. /\ post[f] /\ parent[f] \in Evals
            /\ \/ phase[parent[f]] = "FAULTED"
               \/ /\ phase[parent[f]] \in {"POST", "WRITE"}
                  /\ \E d \in txn[parent[f]] : d[2] = event[f]
        BY <1>4, <2>1, <3>1 DEF DurableInv, OriginInv
      <4>2. parent[f] # e /\ txn[parent[f]] \subseteq txn'[parent[f]]
        BY <1>2, <1>4, <4>1
      <4> QED BY <1>4, <4>1, <4>2
    <3>2. CASE f = e
      <4>1. post[e] /\ b = parent[e] /\ b # e /\ phase'[b] = "POST"
        BY <1>2, <1>3, <1>4, <2>1, <3>2
      <4>2. <<sequence[e], event[e]>> \in txn'[b] /\ <<sequence[e], event[e]>>[2] = event[e]
        BY <1>4
      <4> QED BY <3>2, <4>1, <4>2
    <3> QED BY <3>1, <3>2
  <2>2. ASSUME NEW f \in Evals, phase'[f] = "RETIRE" PROVE Exists(event[f])
    BY <1>4, <2>2 DEF DurableInv
  <2> QED BY <1>1, <1>4, <2>1, <2>2 DEF DurableInv
<1> QED BY <1>5, <1>6, <1>9, <1>10
\* Two evals whose events are in different transactions, or one in a transaction
\* and the other about to be, have different events.
LEMMA ComposeOnce ==
  ASSUME SequenceInv, WriteInv, NEW e \in Evals, NEW f \in Evals, e # f,
         NEW x \in Evals, NEW y \in Evals, Composes(x, e), event[x] = event[y],
         phase[e] = "WRITE", ~Exists(event[x]),
         \/ Composes(y, f) /\ phase[f] \in {"POST", "WRITE"}
         \/ y = f /\ phase[f] \in Absent
         \/ y = f /\ kind[f] = "own" /\ phase[f] \in {"ISSUE", "DUPCHK2"}
  PROVE  FALSE
<1> USE EvalsAssumption, EventsAssumption DEF WriteInv, SequenceInv, TypeOK
<1>1. CASE x = e
  <2>1. event[e] \in Events /\ kind[e] # "edu"
    BY DEF NestingInv, PduPhases, OriginInv, Events
  <2>2. CASE y = f /\ phase[f] \in Past
    BY <1>1, <2>1, <2>2 DEF OneEval, Past, Absent
  <2>3. CASE kind[y] = "own"
    <3>1. event[e] \in LocalEvents /\ (kind[e] = "own" => e = y)
      BY <1>1, <2>3 DEF OriginInv
    <3>2. kind[e] = "own"
      BY <1>1, <2>1, <3>1 DEF OriginInv, Kinds
    <3> QED BY <1>1, <3>1, <3>2 DEF Composes
  <2>4. (y = f /\ phase[f] \in Past) \/ kind[y] = "own"
    BY DEF Composes, OriginInv, Past, Absent
  <2> QED BY <2>2, <2>3, <2>4
<1>2. CASE x # e
  <2>1. kind[x] = "own" /\ parent[x] = e /\ phase[x] \in {"EFFECTS", "ACCEPTED", "FAULTED"}
    BY <1>2 DEF Composes, OriginInv
  <2>2. event[x] \in LocalEvents /\ kind[y] # "fed" /\ kind[y] # "edu"
    BY <2>1 DEF OriginInv, Events
  <2>3. x = y
    BY <2>1, <2>2 DEF OriginInv, Kinds
  <2> QED BY <2>1, <2>3 DEF Composes, Absent
<1> QED BY <1>1, <1>2

\* write_commit(): nothing of the batch was in the database, no other eval is
\* about to write any of it, and all of it is there afterwards.
LEMMA CommitWrite ==
  ASSUME SequenceInv, LogInv, WriteInv, NEW e \in Evals, Write(e)
  PROVE  WriteInv' /\ \A c \in event_idx : c \in event_idx'
<1> USE EvalsAssumption, EventsAssumption DEF WriteInv, SequenceInv, TypeOK
<1>1. /\ phase[e] = "WRITE" /\ phase'[e] = "RETIRE"
      /\ \A f \in Evals : f # e => phase'[f] = phase[f]
      /\ UNCHANGED <<kind, event, parent, post, txn>>
      /\ event_idx' = {c \in event_idx : \A d \in txn[e] : d[2] # c[2]} \cup txn[e]
  BY DEF Write, Goto, ids
<1>2. \A d \in txn[e] : ~Exists(d[2])
  BY <1>1 DEF AbsentInv
<1>3. event_idx' = event_idx \cup txn[e]
  BY <1>1, <1>2 DEF Exists
<1>4. \A v : Exists(v)' <=> (Exists(v) \/ \E d \in txn[e] : d[2] = v)
  BY <1>3 DEF Exists
<1>5. <<sequence[e], event[e]>> \in txn[e]
  BY <1>1 DEF LogInv
<1>6. Exists(event[e])'
  <2>1. <<sequence[e], event[e]>>[2] = event[e]
    OBVIOUS
  <2> QED BY <1>1, <1>4, <1>5, <2>1
<1>7. OriginInv'
  BY <1>1, <1>4 DEF OriginInv
<1>8. OneEval'
  BY <1>1 DEF OneEval, Past, Absent
<1>9. \A x, f \in Evals : Composes(x, f)' <=> Composes(x, f)
  BY <1>1 DEF Composes
<1>10. AbsentInv'
  <2>1. \A c \in event_idx' : \E f \in Evals : event[f] = c[2]
    BY <1>3 DEF AbsentInv
  <2>2. ASSUME NEW f \in Evals, NEW y \in Evals, f # e, ~Exists(event[y]), Exists(event[y])',
               \/ Composes(y, f) /\ phase[f] \in {"POST", "WRITE"}
               \/ y = f /\ phase[f] \in Absent
               \/ y = f /\ kind[f] = "own" /\ phase[f] \in {"ISSUE", "DUPCHK2"}
        PROVE  FALSE
    <3>1. PICK d \in txn[e] : d[2] = event[y]
      BY <1>1, <1>4, <2>2
    <3>2. PICK x \in Evals : event[x] = d[2] /\ Composes(x, e)
      BY <3>1 DEF AbsentInv
    <3> QED BY <1>1, <2>2, <3>1, <3>2, ComposeOnce
  <2>3. ASSUME NEW f \in Evals, phase'[f] \in Absent PROVE ~Exists(event[f])'
    BY <1>1, <2>2, <2>3 DEF AbsentInv, Absent
  <2>4. ASSUME NEW f \in Evals, kind[f] = "own", phase'[f] \in {"ISSUE", "DUPCHK2"}
        PROVE  ~Exists(event[f])'
    BY <1>1, <2>2, <2>4 DEF AbsentInv
  <2>5. ASSUME NEW f \in Evals, NEW d \in txn[f], phase'[f] # "RETIRE" PROVE ~Exists(d[2])'
    <3>1. f # e /\ phase[f] \in {"POST", "WRITE"} /\ ~Exists(d[2])
      BY <1>1, <2>5 DEF LogInv, AbsentInv
    <3>2. PICK y \in Evals : event[y] = d[2] /\ Composes(y, f)
      BY DEF AbsentInv
    <3>3. ~(Exists(event[y]))'
      BY <1>1, <2>2, <3>1, <3>2
    <3> QED BY <1>1, <1>4, <3>2, <3>3
  <2> QED BY <1>1, <1>9, <2>1, <2>3, <2>4, <2>5 DEF AbsentInv
<1>11. DurableInv'
  <2>1. ASSUME NEW f \in Evals, phase'[f] = "RETIRE" PROVE Exists(event[f])'
    BY <1>1, <1>4, <1>6, <2>1 DEF DurableInv
  <2>2. ASSUME NEW f \in Evals, phase'[f] \in {"EFFECTS", "ACCEPTED"}, kind[f] # "edu", ~Exists(event[f])'
        PROVE  /\ post[f]
               /\ \/ phase'[parent[f]] = "FAULTED"
                  \/ /\ phase'[parent[f]] \in {"POST", "WRITE"}
                     /\ \E d \in txn[parent[f]] : d[2] = event[f]
    <3>1. phase[f] \in {"EFFECTS", "ACCEPTED"} /\ ~Exists(event[f])
      BY <1>1, <1>4, <2>2
    <3>2. /\ post[f] /\ parent[f] \in Evals
          /\ \/ phase[parent[f]] = "FAULTED"
             \/ /\ phase[parent[f]] \in {"POST", "WRITE"}
                /\ \E d \in txn[parent[f]] : d[2] = event[f]
      BY <2>2, <3>1 DEF DurableInv, OriginInv
    <3>3. parent[f] # e
      BY <1>1, <1>4, <2>2, <3>2
    <3> QED BY <1>1, <3>2, <3>3
  <2> QED BY <1>1, <2>1, <2>2 DEF DurableInv
<1> QED BY <1>3, <1>7, <1>8, <1>10, <1>11

\* WriteInv is inductive.
LEMMA WriteStep == SequenceInv /\ LogInv /\ WriteInv /\ [Next]_vars => WriteInv'
<1> SUFFICES ASSUME SequenceInv, LogInv, WriteInv, [Next]_vars PROVE WriteInv'
  OBVIOUS
<1>1. CASE UNCHANGED <<phase, kind, event, parent, post, txn, event_idx>>
  BY <1>1 DEF WriteInv, OriginInv, OneEval, AbsentInv, DurableInv, Exists, Composes
<1>2. ASSUME NEW e \in Evals, NEW k \in Kinds, NEW p \in Evals \cup {NoEval},
             NEW v \in Events \cup {NoEvent}, Execute(e, k, v, p)
      PROVE  WriteInv'
  BY <1>2, ExecuteWrite
<1>3. ASSUME NEW e \in Evals, Dupchk1(e) \/ SkipExisting(e) PROVE WriteInv'
  <2>1. Moves(e, phase'[e]) /\ phase'[e] \in {"EXISTS1", "FAULTED"}
    BY <1>3 DEF Dupchk1, SkipExisting, Moves, Goto, ids, db, SequenceInv, TypeOK,
                Phases, Executing, Counted, PduPhases
  <2> QED BY <2>1, MovesWrite DEF Past, Absent
<1>4. ASSUME NEW e \in Evals, EnterPdu(e) \/ Dupchk2(e) PROVE WriteInv'
  <2>1. Moves(e, phase'[e])
    BY <1>4 DEF EnterPdu, Dupchk2, Moves, Goto, Sleep, ids, db, SequenceInv, TypeOK,
                Phases, Executing, Counted, PduPhases
  <2>2. /\ phase'[e] \in {"DUPCHK2", "FETCH", "EXISTS2"}
        /\ phase'[e] # "DUPCHK2" => MayProceed(e)
        /\ phase'[e] = "FETCH" => kind[e] = "own"
    BY <1>4 DEF EnterPdu, Dupchk2, Goto, Sleep, SequenceInv, TypeOK
  <2>3. /\ kind[e] = "own" => ~Exists(event[e])
        /\ kind[e] # "edu"
    BY <1>4, EventsAssumption, EvalsAssumption DEF EnterPdu, Dupchk2, WriteInv, OriginInv, AbsentInv, SequenceInv, NestingInv
  <2> QED BY <2>1, <2>2, <2>3, MovesWrite DEF Past, Absent
<1>5. ASSUME NEW e \in Evals, FaultExists(e) \/ FaultPdu(e) PROVE WriteInv'
  <2>1. Moves(e, "FAULTED")
    BY <1>5 DEF FaultExists, FaultPdu, UnwindPdu, Moves, Goto, ids, db, SequenceInv, TypeOK,
                Phases, Executing, Counted, PduPhases
  <2> QED BY <2>1, MovesWrite DEF Past, Absent
<1>6. ASSUME NEW e \in Evals, FaultDu(e) PROVE WriteInv'
  <2>1. Moves(e, "FAULTED")
    BY <1>6 DEF FaultDu, Moves, Goto, ids, db, Phases, Executing, Counted, PduPhases
  <2> QED BY <2>1, MovesWrite DEF Past, Absent
<1>7. ASSUME NEW e \in Evals, Access(e) PROVE WriteInv'
  <2>1. Moves(e, "FETCH") /\ phase[e] \in Past /\ ~Exists(event[e])
    BY <1>7 DEF Access, Moves, Goto, ids, db, Phases, Executing, Counted, PduPhases, Past
  <2> QED BY <2>1, MovesWrite
<1>8. ASSUME NEW e \in Evals, Sequence(e) \/ Precommit(e) \/ AuthRela(e) \/ Commit(e) \/ Post(e)
      PROVE  WriteInv'
  <2>1. /\ phase[e] \in {"FETCH", "PRECOMMIT", "AUTH_RELA", "COMMIT", "POST"}
        /\ phase'[e] \in {"PRECOMMIT", "AUTH_RELA", "COMMIT", "INDEX", "WRITE"}
        /\ phase[e] = "POST" => phase'[e] = "WRITE"
        /\ phase' = [phase EXCEPT ![e] = phase'[e]]
    BY <1>8 DEF Sequence, Precommit, AuthRela, Commit, Post, At, Goto, Sleep, SequenceInv, TypeOK
  <2>2. UNCHANGED <<kind, event, parent, post, txn, event_idx>>
    BY <1>8 DEF Sequence, Precommit, AuthRela, Commit, Post, ids, db
  <2>3. Moves(e, phase'[e])
    BY <2>1, <2>2 DEF Moves, Phases, Executing, Counted, PduPhases
  <2>4. phase[e] \in Absent /\ ~Exists(event[e])
    BY <2>1 DEF WriteInv, AbsentInv, Absent
  <2> QED BY <2>1, <2>3, <2>4, MovesWrite DEF Past
<1>9. ASSUME NEW e \in Evals, Retire(e) PROVE WriteInv'
  <2>1. Moves(e, "EFFECTS") /\ phase[e] = "RETIRE"
    BY <1>9 DEF Retire, Moves, Goto, ids, db, Phases, Executing, Counted, PduPhases
  <2>2. Exists(event[e])
    BY <2>1 DEF WriteInv, DurableInv
  <2> QED BY <2>1, <2>2, MovesWrite DEF Past, Absent
<1>10. ASSUME NEW e \in Evals, Edu(e) PROVE WriteInv'
  <2>1. Moves(e, "EFFECTS") /\ phase[e] = "EDU"
    BY <1>10 DEF Edu, At, Moves, Goto, ids, db, Phases, Executing, Counted, PduPhases
  <2>2. kind[e] = "edu" /\ event[e] = NoEvent
    BY <2>1 DEF WriteInv, OriginInv
  <2> QED BY <2>1, <2>2, MovesWrite DEF Absent
<1>11. ASSUME NEW e \in Evals, Accept(e) PROVE WriteInv'
  <2>1. Moves(e, "ACCEPTED") /\ phase[e] = "EFFECTS"
    BY <1>11 DEF Accept, At, Moves, Goto, ids, db, Phases, Executing, Counted, PduPhases
  <2> QED BY <2>1, MovesWrite DEF Past, Absent
<1>12. ASSUME NEW e \in Evals, Index(e) PROVE WriteInv'
  BY <1>12, IndexWrite
<1>13. ASSUME NEW e \in Evals, Write(e) PROVE WriteInv'
  BY <1>13, CommitWrite
<1>14. CASE Boot
  <2>1. /\ \A f \in Evals : /\ phase'[f] = IF phase[f] \in Executing THEN "FAULTED" ELSE phase[f]
                            /\ phase'[f] \notin Executing /\ txn'[f] = {}
        /\ UNCHANGED <<kind, event, parent, post, event_idx>>
    BY <1>14 DEF Boot, ids, db, Executing, Counted, PduPhases
  <2>2. \A f \in Evals : phase'[f] \notin Past \cup {"ISSUE", "DUPCHK2", "EDU", "RETIRE"}
    BY <2>1 DEF Executing, Counted, PduPhases, Past, Absent
  <2>3. OriginInv' /\ OneEval' /\ AbsentInv'
    BY <2>1, <2>2 DEF WriteInv, OriginInv, OneEval, AbsentInv, Exists, Past
  <2>4. DurableInv'
    BY <2>1, <2>2 DEF WriteInv, OriginInv, DurableInv, Exists, Executing, Counted, PduPhases, Past
  <2> QED BY <2>3, <2>4 DEF WriteInv
<1> QED
  BY <1>1, <1>2, <1>3, <1>4, <1>5, <1>6, <1>7, <1>8, <1>9, <1>10, <1>11, <1>12, <1>13, <1>14
     DEF Next, Step, SleepAgain, Halt, vars, ids, db

\* WriteInv is an invariant of the sequencer.
THEOREM WriteInvariant == Spec => [](SequenceInv /\ LogInv /\ WriteInv)
BY InitInv, InitWrite, SequenceStep, LogStep, WriteStep, PTL DEF Spec

(***************************************************************************)
(* What execute() has accepted is in the database, in spite of the faults  *)
(* of others and of restarts; what a POST hook evaluates is there once its *)
(* parent is accepted.                                                     *)
(***************************************************************************)
THEOREM AcceptIsDurable == Spec => []AcceptedDurable
<1>1. WriteInv => AcceptedDurable
  BY DEF WriteInv, DurableInv, AcceptedDurable
<1> QED BY <1>1, WriteInvariant, PTL

(***************************************************************************)
(* An event is written once and keeps its event_idx, although any number   *)
(* of evaluations may be given it and none of them holds a lock.           *)
(***************************************************************************)
THEOREM EventsWrittenOnce == Spec => WrittenOnce
<1>1. SequenceInv /\ LogInv /\ WriteInv /\ [Next]_vars => [\A c \in event_idx : c \in event_idx']_vars
  <2> SUFFICES ASSUME SequenceInv, LogInv, WriteInv, Next PROVE \A c \in event_idx : c \in event_idx'
    OBVIOUS
  <2>1. ASSUME NEW e \in Evals, Write(e) PROVE \A c \in event_idx : c \in event_idx'
    BY <2>1, CommitWrite
  <2>2. CASE UNCHANGED event_idx
    BY <2>2
  <2> QED
    BY <2>1, <2>2
       DEF Next, Step, Execute, SleepAgain, Dupchk1, SkipExisting, EnterPdu, Dupchk2, Access,
           Sequence, Precommit, AuthRela, Commit, Index, Post, Retire, Edu, Accept, FaultExists,
           FaultPdu, FaultDu, UnwindPdu, Halt, Boot, db
<1> QED BY <1>1, WriteInvariant, PTL DEF Spec, WrittenOnce
=============================================================================
