------------------------------ MODULE SyncProofs ------------------------------
(***************************************************************************)
(* Proofs of the safety of GET /sync, for any clients, events and bounds:  *)
(* the assertion of poll(), and that the requests implement Feed.          *)
(*                                                                         *)
(* All of it rests on the log being final below retired + 1: what a        *)
(* request has looked at stays as it was, however long it takes.           *)
(***************************************************************************)
EXTENDS Sync, TLAPS

\* The cells of the log from index i up to j which are for the clients.
Cells(i, j) == {x \in column : i <= x[1] /\ x[1] < j /\ x[2] \in Relevant}

\* What a request knows of its range: the linear iteration has put out what is
\* behind it, and a long poll is behind a range with nothing in it.
RangeInv ==
    \A c \in Clients :
        /\ since[c] <= retired + 1
        /\ at[c] # "idle" => since[c] <= second[c] /\ second[c] <= retired + 1
        /\ at[c] = "linear" =>
            /\ since[c] <= pos[c] /\ pos[c] <= second[c]
            /\ out[c] = Cells(since[c], pos[c])
        /\ at[c] \in {"poll", "asleep", "polled"} => Cells(since[c], second[c]) = {}
        /\ at[c] = "polled" => second[c] <= retired

SyncInv == TypeOK /\ RangeInv

-------------------------------------------------------------------------------
\* Windows of the log which end at retired stay as they are: a transaction
\* writes above it.
LEMMA Final ==
  ASSUME TypeOK, NEW i \in Nat, NEW v \in Events, Append(i, v),
         NEW m \in Nat, NEW n \in Nat, n <= retired + 1
  PROVE  Cells(m, n)' = Cells(m, n)
BY DEF Append, Cells, TypeOK

\* The next index adds what is there for the client.
LEMMA NextCell ==
  ASSUME TypeOK, NEW m \in Nat, NEW n \in Nat, m <= n
  PROVE  /\ Cells(m, n + 1) = Cells(m, n) \cup Hit(n)
         /\ Cells(m, m) = {}
BY DEF Cells, Hit, TypeOK

\* The initial state.
LEMMA InitInv == Init => SyncInv
<1> SUFFICES ASSUME Init PROVE SyncInv
  OBVIOUS
<1>1. quiet \in BOOLEAN
  BY Zenon DEF Init
<1>2. TypeOK
  BY <1>1, SyncAssumption DEF Init, TypeOK, Log!Init
<1>3. RangeInv
  BY DEF Init, RangeInv, Log!Init
<1> QED BY <1>2, <1>3 DEF SyncInv

-------------------------------------------------------------------------------
(***************************************************************************)
(* Every step of a request.  A response moves the token of the client to   *)
(* the end of a window and hands over what is in it: a Read of Feed.       *)
(***************************************************************************)

\* A response whose content is that of the window up to its token.
LEMMA RespondStep ==
  ASSUME SyncInv, NEW c \in Clients, NEW n \in Nat, NEW S,
         Respond(c, n, S), since[c] <= n, n <= retired + 1, S = Cells(since[c], n)
  PROVE  SyncInv' /\ FeedOf!Read(c)
<1> USE DEF SyncInv, Respond, Finish, Goto, log
<1>1. S \subseteq column
  BY DEF Cells
<1>2. UNCHANGED quiet
  BY Zenon
<1>3. TypeOK'
  BY <1>1, <1>2, SyncAssumption DEF TypeOK
<1>4. RangeInv'
  <2> SUFFICES ASSUME NEW d \in Clients PROVE RangeInv!(d)'
    BY DEF RangeInv
  <2>1. CASE d = c
    BY <2>1 DEF TypeOK, RangeInv
  <2>2. CASE d # c
    BY <2>2 DEF TypeOK, RangeInv, Cells
  <2> QED BY <2>1, <2>2
<1>5. FeedOf!Read(c)
  BY DEF FeedOf!Read, FeedOf!Window, TypeOK, Cells
<1> QED BY <1>3, <1>4, <1>5

\* A step of the request of c alone, which tells its client nothing.
LEMMA InnerStep ==
  ASSUME SyncInv, NEW c \in Clients,
         HandleGet(c) \/ Choose(c) \/ Proffer(c) \/ Poll(c) \/ Wake(c) \/ Gone(c)
  PROVE  SyncInv' /\ UNCHANGED <<column, retired, since, got>>
<1> USE DEF SyncInv, log
<1>1. CASE HandleGet(c)
  <2> USE <1>1 DEF HandleGet, Goto
  <2>1. PICK n \in 0..MaxIdx : cap' = [cap EXCEPT ![c] = n]
    BY SyncAssumption
  <2>2. TypeOK'
    BY <2>1, SyncAssumption DEF TypeOK, Lower
  <2>3. RangeInv'
    BY <2>1, SyncAssumption DEF TypeOK, RangeInv, Lower, Cells
  <2> QED BY <2>2, <2>3
<1>2. CASE Choose(c)
  <2> USE <1>2 DEF Choose, Goto
  <2>1. TypeOK'
    BY SyncAssumption DEF TypeOK
  <2>2. RangeInv'
    BY NextCell, SyncAssumption DEF TypeOK, RangeInv, Cells
  <2> QED BY <2>1, <2>2
<1>3. CASE Proffer(c)
  <2> USE <1>3 DEF Proffer
  <2>1. TypeOK'
    BY SyncAssumption DEF TypeOK, Hit, RangeInv
  <2>2. RangeInv'
    BY NextCell, SyncAssumption DEF TypeOK, RangeInv, Cells
  <2> QED BY <2>1, <2>2
<1>4. CASE Poll(c) \/ Wake(c)
  <2> USE <1>4 DEF Poll, Wake, PollReady, Goto
  <2>1. /\ at' = [at EXCEPT ![c] = IF second[c] <= retired THEN "polled" ELSE "asleep"]
        /\ at[c] \in {"poll", "asleep"} /\ noted' \subseteq noted
        /\ UNCHANGED <<column, retired, owed, quiet, cap, second, pos, out, since, got>>
    OBVIOUS
  <2>2. TypeOK'
    BY <2>1, SyncAssumption DEF TypeOK
  <2>3. RangeInv'
    BY <2>1, SyncAssumption DEF TypeOK, RangeInv, Cells
  <2> QED BY <2>1, <2>2, <2>3
<1>5. CASE Gone(c)
  BY <1>5, SyncAssumption DEF Gone, Finish, Goto, TypeOK, RangeInv, Cells
<1> QED BY <1>1, <1>2, <1>3, <1>4, <1>5

\* The ends of the three methods: each response is a window of the log, and
\* who goes on to poll has seen that its window is empty.
LEMMA OuterStep ==
  ASSUME SyncInv, NEW c \in Clients,
         Linear(c) \/ Polylog(c) \/ TimesOut(c) \/ Polled(c)
  PROVE  SyncInv' /\ (FeedOf!Read(c) \/ UNCHANGED <<column, retired, since, got>>)
<1> USE DEF SyncInv
<1>0. /\ since[c] \in Nat /\ second[c] \in Nat /\ pos[c] \in Nat /\ retired \in Nat
      /\ since[c] <= retired + 1
  BY SyncAssumption DEF TypeOK, RangeInv
<1>1. CASE Linear(c)
  <2>0. /\ since[c] <= pos[c] /\ pos[c] <= second[c] /\ second[c] <= retired + 1
        /\ out[c] = Cells(since[c], pos[c])
    BY <1>1 DEF Linear, RangeInv
  <2>1. CASE pos[c] = second[c] /\ Respond(c, second[c], out[c])
    BY <1>0, <2>0, <2>1, RespondStep
  <2>2. CASE pos[c] < second[c] /\ Respond(c, Lower(pos[c], second[c]), out[c])
    BY <1>0, <2>0, <2>2, RespondStep DEF Lower
  <2>3. CASE out[c] = {} /\ pos[c] = second[c] /\ Goto(c, "poll")
             /\ UNCHANGED <<log, cap, second, pos, out, noted, since, got>>
    BY <1>0, <2>0, <2>3, SyncAssumption DEF Goto, log, TypeOK, RangeInv, Cells
  <2> QED BY <1>1, <2>1, <2>2, <2>3 DEF Linear
<1>2. CASE Polylog(c)
  <2>0. since[c] <= second[c] /\ second[c] <= retired + 1
    BY <1>2 DEF Polylog, RangeInv
  <2>1. CASE Respond(c, second[c], Cells(since[c], second[c]))
    BY <1>0, <2>0, <2>1, RespondStep
  <2>2. CASE Cells(since[c], second[c]) = {} /\ Goto(c, "poll")
             /\ UNCHANGED <<log, cap, second, pos, out, noted, since, got>>
    BY <1>0, <2>0, <2>2, SyncAssumption DEF Goto, log, TypeOK, RangeInv, Cells
  <2> QED BY <1>2, <2>1, <2>2 DEF Polylog, Cells
<1>3. CASE TimesOut(c)
  <2>0. since[c] <= second[c] /\ second[c] <= retired + 1 /\ Cells(since[c], second[c]) = {}
    BY <1>3 DEF TimesOut, RangeInv
  <2>1. CASE Respond(c, second[c], {})
    BY <1>0, <2>0, <2>1, RespondStep
  <2>2. CASE PollReady(c) /\ noted' = noted \ {c} /\ Goto(c, "polled")
             /\ UNCHANGED <<log, cap, second, pos, out, since, got>>
    BY <1>0, <2>0, <2>2, SyncAssumption DEF Goto, PollReady, log, TypeOK, RangeInv, Cells
  <2> QED BY <1>3, <2>1, <2>2 DEF TimesOut
<1>4. CASE Polled(c)
  <2>0. /\ since[c] <= second[c] /\ second[c] <= retired
        /\ Cells(since[c], second[c] + 1) = Hit(second[c])
        /\ Cells(since[c], second[c]) = {}
    <3>1. since[c] <= second[c] /\ second[c] <= retired /\ Cells(since[c], second[c]) = {}
      BY <1>4 DEF Polled, RangeInv
    <3>2. Cells(since[c], second[c] + 1) = Cells(since[c], second[c]) \cup Hit(second[c])
      BY <1>0, <3>1, NextCell
    <3> QED BY <3>1, <3>2
  <2>1. CASE Respond(c, Lower(second[c], retired) + 1, Hit(second[c]))
    BY <1>0, <2>0, <2>1, RespondStep DEF Lower
  <2>2. CASE Respond(c, second[c], {})
    <3>1. second[c] <= retired + 1 /\ {} = Cells(since[c], second[c])
      BY <1>0, <2>0
    <3> QED BY <1>0, <2>0, <2>2, <3>1, RespondStep
  <2>3. CASE Hit(second[c]) = {} /\ second' = [second EXCEPT ![c] = @ + 1] /\ Goto(c, "poll")
             /\ UNCHANGED <<log, cap, pos, out, noted, since, got>>
    BY <1>0, <2>0, <2>3, SyncAssumption DEF Goto, log, TypeOK, RangeInv, Cells
  <2> QED BY <1>4, <2>1, <2>2, <2>3 DEF Polled
<1> QED BY <1>1, <1>2, <1>3, <1>4

-------------------------------------------------------------------------------
(***************************************************************************)
(* The log moves on under the requests.                                    *)
(***************************************************************************)

\* What the sequencer does to the log leaves the ranges of the requests alone.
LEMMA LogStep ==
  ASSUME SyncInv, NEW i \in 1..MaxIdx,
         Advance(i) \/ Notify(i) \/ \E v \in Events : Append(i, v)
  PROVE  SyncInv' /\ (Log!Next \/ UNCHANGED <<column, retired>>) /\ UNCHANGED <<since, got>>
<1> USE DEF SyncInv, clients
<1>1. CASE Advance(i)
  <2> USE <1>1 DEF Advance
  <2>0. PICK v \in Events : quiet' = (v \in Silent)
    OBVIOUS
  <2>1. quiet' \in BOOLEAN
    <3>1. quiet' = TRUE \/ quiet' = FALSE
      BY ONLY <2>0
    <3> QED BY ONLY <3>1, Zenon
  <2>2. TypeOK'
    BY <2>1, SyncAssumption DEF TypeOK
  <2>3. RangeInv'
    BY SyncAssumption DEF TypeOK, RangeInv, Cells
  <2>4. Log!Advance
    BY SyncAssumption DEF TypeOK, Log!Advance
  <2> QED BY <2>2, <2>3, <2>4 DEF Log!Next
<1>2. CASE Notify(i)
  BY <1>2, SyncAssumption DEF Notify, TypeOK, RangeInv, Cells
<1>3. ASSUME NEW v \in Events, Append(i, v)
      PROVE  SyncInv' /\ Log!Append /\ UNCHANGED <<since, got>>
  <2> USE <1>3
  <2>1. TypeOK'
    BY SyncAssumption DEF Append, TypeOK
  <2>2. RangeInv'
    <3> SUFFICES ASSUME NEW c \in Clients PROVE RangeInv!(c)'
      BY DEF RangeInv
    <3>1. /\ since[c] \in Nat /\ second[c] \in Nat /\ pos[c] \in Nat /\ retired \in Nat
          /\ UNCHANGED <<since, second, pos, out, at, retired>>
      BY SyncAssumption DEF Append, TypeOK
    <3>2. \A n \in Nat : n <= retired + 1 => Cells(since[c], n)' = Cells(since[c], n)
      BY <3>1, Final DEF Cells
    <3> QED BY <3>1, <3>2 DEF RangeInv
  <2>3. Log!Append
    <3>1. <<i, v>> \notin column /\ <<i, v>> \in column'
      BY DEF Append
    <3> QED BY <3>1, SyncAssumption DEF Append, TypeOK, Log!Append
  <2> QED BY <2>1, <2>2, <2>3 DEF Append
<1> QED BY <1>1, <1>2, <1>3 DEF Log!Next

-------------------------------------------------------------------------------
\* Each step keeps SyncInv and is a step of Feed or a stutter.
LEMMA StepInv ==
  SyncInv /\ [Next]_vars => SyncInv' /\ [FeedOf!Next]_(FeedOf!feedvars)
<1> SUFFICES ASSUME SyncInv, [Next]_vars
             PROVE  SyncInv' /\ [FeedOf!Next]_(FeedOf!feedvars)
  OBVIOUS
<1> USE DEF FeedOf!Next, FeedOf!feedvars
<1>1. ASSUME NEW c \in Clients,
             HandleGet(c) \/ Choose(c) \/ Proffer(c) \/ Poll(c) \/ Wake(c) \/ Gone(c)
      PROVE  SyncInv' /\ [FeedOf!Next]_(FeedOf!feedvars)
  BY <1>1, InnerStep
<1>2. ASSUME NEW c \in Clients, Linear(c) \/ Polylog(c) \/ TimesOut(c) \/ Polled(c)
      PROVE  SyncInv' /\ [FeedOf!Next]_(FeedOf!feedvars)
  BY <1>2, OuterStep
<1>3. ASSUME NEW i \in 1..MaxIdx, Advance(i) \/ Notify(i) \/ \E v \in Events : Append(i, v)
      PROVE  SyncInv' /\ [FeedOf!Next]_(FeedOf!feedvars)
  BY <1>3, LogStep DEF Log!Next, Log!Append, Log!Advance,
                       FeedOf!Log!Next, FeedOf!Log!Append, FeedOf!Log!Advance
<1>4. CASE UNCHANGED vars
  BY <1>4 DEF vars, log, SyncInv, TypeOK, RangeInv, Cells
<1> QED BY <1>1, <1>2, <1>3, <1>4 DEF Next, Request

\* What a request knows of its range stays true while it yields, whatever the
\* sequencer and the other requests do.
THEOREM RangeInvariant == Spec => []SyncInv
BY InitInv, StepInv, PTL DEF Spec

\* The variables keep their types.
THEOREM TypeCorrect == Spec => []TypeOK
<1>1. SyncInv => TypeOK
  BY DEF SyncInv
<1> QED BY <1>1, RangeInvariant, PTL

\* The assertion of poll() never fails, for any number of clients and events.
THEOREM AssertsHold == Spec => []PollAsserts
<1>1. SyncInv => PollAsserts
  BY DEF SyncInv, RangeInv, PollAsserts
<1> QED BY <1>1, RangeInvariant, PTL

\* GET /sync keeps its promise: by linear, polylog and long poll responses in
\* any mixture, with timeouts and lost responses, a client that sends back its
\* token is given every event that is for it once.
THEOREM ImplementsFeed == Spec => FeedSpec
<1>1. Init => FeedOf!Init
  BY DEF Init, FeedOf!Init, Log!Init, FeedOf!Log!Init
<1> QED BY <1>1, InitInv, StepInv, PTL DEF Spec, FeedSpec, FeedOf!Spec
=============================================================================
