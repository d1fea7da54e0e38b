----------------------------- MODULE SenderProofs -----------------------------
(***************************************************************************)
(* Proofs of the safety of the federation sender, for any events, servers  *)
(* and room memberships: outside of a race of its two workers in flush(),  *)
(* the events of a server go out in one transaction at a time, and none    *)
(* leaves a queue without being in one.                                    *)
(***************************************************************************)
EXTENDS Sender, TLAPS

\* While a worker is in flush() for a node there is no transaction to it, and
\* what the worker will send is the whole queue; who has a transaction has it
\* in node::curtxn.  The recv worker takes no answer before its flush() is over,
\* and the send worker is at a unit that was notified.
FlushInv ==
    /\ at["recv"] # "timeouts" => Idle("recv")
    /\ at["send"] = "send" => done < made
    /\ \A n \in Nodes \ raced :
        /\ \A t \in txns : t.node = n => n \in curtxn /\ Making(n) = {}
        /\ \A t, u \in txns : t.node = n /\ u.node = n => t = u
        /\ \A v, w \in Making(n) : v = w
        /\ \A w \in Making(n) : making[w].units = q[n]

SenderInv == TypeOK /\ FlushInv

Txn == [node : Nodes, units : SUBSET Units, by : Workers]

\* The transaction that flush() of a worker is about to send.
LEMMA MakingType ==
  ASSUME TypeOK, NEW w \in Workers, making[w] # NoTxn
  PROVE  /\ making[w] \in Txn
         /\ making[w].node \in Nodes /\ making[w].units \in SUBSET Units
BY DEF TypeOK, Idle, Txn

\* The initial state.
LEMMA InitInv == Init => SenderInv
<1> SUFFICES ASSUME Init PROVE SenderInv
  OBVIOUS
<1>1. TypeOK
  BY SenderAssumption DEF Init, TypeOK, Idle
<1>2. FlushInv
  BY SenderAssumption DEF Init, FlushInv, Idle, Making, NoTxn, Workers
<1> QED BY <1>1, <1>2 DEF SenderInv

-------------------------------------------------------------------------------
(***************************************************************************)
(* flush() up to its yield.  It is called where the other worker may be in *)
(* flush() too, which is the race; otherwise the node has no transaction.  *)
(***************************************************************************)
LEMMA FlushStep ==
  ASSUME TypeOK, NEW w \in Workers, NEW n \in Nodes, NEW S \in SUBSET Units,
         Idle(w), Flush(w, n, S)
  PROVE  /\ making' \in [Workers -> {NoTxn} \cup Txn]
         /\ \A v \in Workers : making'[v] = NoTxn \/ making'[v].by = v
         /\ making' = [making EXCEPT ![w] = making'[w]]
         /\ making'[w] \in {NoTxn, [node |-> n, units |-> S, by |-> w]}
         /\ making'[w] # NoTxn => n \notin curtxn'
         /\ making'[w] # NoTxn /\ n \notin raced' => Making(n) = {}
         /\ raced \subseteq raced' /\ raced' \subseteq raced \cup {n}
<1> DEFINE t == [node |-> n, units |-> S, by |-> w]
<1>1. t \in Txn /\ t.by = w
  BY DEF Txn
<1>2. CASE UNCHANGED <<making, raced>>
  BY <1>2 DEF TypeOK, Idle, Txn
<1>3. CASE n \notin curtxn' /\ making' = [making EXCEPT ![w] = t]
           /\ raced' = IF Making(n) # {} THEN raced \cup {n} ELSE raced
  BY <1>1, <1>3 DEF TypeOK, Idle, Txn
<1> QED BY <1>2, <1>3 DEF Flush

\* Every variable keeps its type.
LEMMA TypeStep == SenderInv /\ [Next]_vars => TypeOK'
<1> SUFFICES ASSUME SenderInv, [Next]_vars PROVE TypeOK'
  OBVIOUS
<1> USE SenderAssumption DEF SenderInv
<1>1. CASE Notify
  BY <1>1 DEF Notify, TypeOK, Idle
<1>2. CASE Send
  BY <1>2 DEF Send, TypeOK, Idle, Workers, Units
<1>3. ASSUME NEW n \in Nodes, Push(n) PROVE TypeOK'
  <2>1. q'[n] \in SUBSET Units /\ q' \in [Nodes -> SUBSET Units]
    BY <1>3 DEF Push, TypeOK, FlushInv, Units
  <2>2. raced' \subseteq Nodes
        /\ making' \in [Workers -> {NoTxn} \cup Txn]
        /\ \A v \in Workers : making'[v] = NoTxn \/ making'[v].by = v
    BY <1>3, <2>1, FlushStep DEF Push, TypeOK, Workers
  <2> QED BY <1>3, <2>1, <2>2 DEF Push, TypeOK, Idle, Txn
<1>4. ASSUME NEW n \in Nodes, Skip(n) PROVE TypeOK'
  BY <1>4 DEF Skip, TypeOK, Idle
<1>5. CASE Pop
  BY <1>5 DEF Pop, TypeOK, FlushInv, Idle, Workers
<1>6. ASSUME NEW w \in Workers, Launch(w) PROVE TypeOK'
  <2>1. making[w] \in Txn /\ making[w].node \in Nodes /\ making[w].units \in SUBSET Units
    BY <1>6, MakingType DEF Launch, Idle
  <2> QED BY <1>6, <2>1 DEF Launch, TypeOK, Idle, Txn
<1>7. ASSUME NEW w \in Workers, FlushFails(w) PROVE TypeOK'
  <2>1. making[w].node \in Nodes
    BY <1>7, MakingType DEF FlushFails, Idle
  <2> QED BY <1>7, <2>1 DEF FlushFails, TypeOK, Idle
<1>8. ASSUME NEW t \in txns, RecvGood(t) PROVE TypeOK'
  <2>1. t.node \in Nodes /\ Idle("recv") /\ q[t.node] \in SUBSET Units
    BY <1>8 DEF RecvGood, TypeOK, FlushInv
  <2>2. raced' \subseteq Nodes
        /\ making' \in [Workers -> {NoTxn} \cup Txn]
        /\ \A v \in Workers : making'[v] = NoTxn \/ making'[v].by = v
    BY <1>8, <2>1, FlushStep DEF RecvGood, TypeOK, Workers
  <2>3. curtxn' \subseteq {u.node : u \in txns'}
    BY <1>8 DEF RecvGood, Ended, TypeOK
  <2> QED BY <1>8, <2>1, <2>2, <2>3 DEF RecvGood, Ended, TypeOK, Idle, Txn
<1>9. ASSUME NEW t \in txns, RecvBad(t) PROVE TypeOK'
  <2>1. curtxn' \subseteq {u.node : u \in txns'}
    BY <1>9 DEF RecvBad, Ended, TypeOK
  <2> QED BY <1>9, <2>1 DEF RecvBad, Ended, TypeOK, Idle
<1>10. CASE RecvWait \/ RecvNone \/ RecvTimeouts
  BY <1>10 DEF RecvWait, RecvNone, RecvTimeouts, TypeOK, Idle
<1>11. ASSUME NEW t \in txns, Answer(t) \/ Elapse(t) PROVE TypeOK'
  BY <1>11 DEF Answer, Elapse, TypeOK, Idle
<1>12. CASE UNCHANGED vars
  BY <1>12 DEF vars, TypeOK, Idle
<1> QED
  BY <1>1, <1>2, <1>3, <1>4, <1>5, <1>6, <1>7, <1>8, <1>9, <1>10, <1>11, <1>12
     DEF Next, Sending, Receiving, Made

-------------------------------------------------------------------------------
\* A step which touches neither transactions nor queues.
LEMMA Untouched ==
  ASSUME SenderInv, UNCHANGED <<making, q, curtxn, txns, raced>>,
         at'["recv"] # "timeouts" => Idle("recv"), at'["send"] = "send" => done' < made'
  PROVE  FlushInv'
BY DEF SenderInv, FlushInv, Idle, Making

\* flush() begins in worker w for node n, whose transaction, if it had one, has
\* just ended; the queue of n alone may have grown.
LEMMA FlushBegins ==
  ASSUME SenderInv, NEW w \in Workers, NEW n \in Nodes, Idle(w),
         Flush(w, n, q'[n]), q'[n] \in SUBSET Units,
         \A m \in Nodes \ {n} : q'[m] = q[m] /\ (m \in curtxn' <=> m \in curtxn),
         txns' \subseteq txns, curtxn' \subseteq curtxn,
         n \in raced \/ \A t \in txns' : t.node = n => UNCHANGED <<curtxn, txns>>,
         q'[n] = {} => q[n] = {},
         q'[n] # q[n] => q'[n] # {} /\ w = "send",
         at'["recv"] # "timeouts" => w = "send" /\ Idle("recv"),
         at'["send"] = "send" => done' < made'
  PROVE  FlushInv'
<1> USE SenderAssumption DEF SenderInv
<1> DEFINE t == [node |-> n, units |-> q'[n], by |-> w]
<1>1. /\ making' = [making EXCEPT ![w] = making'[w]]
      /\ making'[w] \in {NoTxn, t}
      /\ making'[w] # NoTxn => n \notin curtxn'
      /\ making'[w] # NoTxn /\ n \notin raced' => Making(n) = {}
      /\ raced \subseteq raced' /\ raced' \subseteq raced \cup {n}
  BY FlushStep
<1>2. making \in [Workers -> {NoTxn} \cup Txn]
  BY DEF TypeOK, Txn
<1>3. \A m \in Nodes \ {n} : Making(m)' = Making(m) /\ \A v \in Making(m) : making'[v] = making[v]
  BY <1>1, <1>2 DEF Making, Idle, NoTxn
<1>4. Making(n)' = Making(n) \cup (IF making'[w] = NoTxn THEN {} ELSE {w})
  BY <1>1, <1>2 DEF Making, Idle, NoTxn
<1>5. \A v \in Making(n) : v # w /\ making'[v] = making[v]
  BY <1>1, <1>2 DEF Making, Idle, NoTxn
<1>6. ASSUME NEW m \in Nodes \ raced', m # n
      PROVE  /\ \A u \in txns' : u.node = m => m \in curtxn' /\ Making(m)' = {}
             /\ \A u, x \in txns' : u.node = m /\ x.node = m => u = x
             /\ \A u, x \in Making(m)' : u = x
             /\ \A u \in Making(m)' : making'[u].units = q'[m]
  BY <1>1, <1>3, <1>6 DEF FlushInv
<1>7. ASSUME n \notin raced'
      PROVE  /\ \A u \in txns' : u.node = n => n \in curtxn' /\ Making(n)' = {}
             /\ \A u, x \in txns' : u.node = n /\ x.node = n => u = x
             /\ \A u, x \in Making(n)' : u = x
             /\ \A u \in Making(n)' : making'[u].units = q'[n]
  <2>1. n \notin raced
    BY <1>1, <1>7
  <2>2. \A u \in txns' : u.node = n => n \in curtxn' /\ Making(n)' = {}
    BY <1>1, <1>4, <2>1 DEF FlushInv
  <2>3. \A u, x \in Making(n)' : u = x
    BY <1>1, <1>4, <1>7, <2>1 DEF FlushInv
  <2>4. \A u \in Making(n)' : making'[u].units = q'[n]
    <3>1. CASE making'[w] # NoTxn
      BY <1>1, <1>4, <1>7, <3>1
    <3>2. CASE making'[w] = NoTxn
      <4>1. q'[n] = q[n] \/ n \in curtxn'
        BY <3>2, <1>1, <1>2 DEF Flush, Idle, NoTxn
      <4>2. CASE q'[n] = q[n]
        BY <4>2, <3>2, <1>4, <1>5, <2>1 DEF FlushInv
      <4>3. CASE n \in curtxn'
        <5>1. PICK u \in txns : u.node = n
          BY <4>3 DEF TypeOK
        <5>2. Making(n) = {}
          BY <5>1, <2>1 DEF FlushInv
        <5> QED BY <5>2, <3>2, <1>4
      <4> QED BY <4>1, <4>2, <4>3
    <3> QED BY <3>1, <3>2
  <2> QED BY <2>1, <2>2, <2>3, <2>4 DEF FlushInv
<1>8. at'["recv"] # "timeouts" => Idle("recv")'
  BY <1>1, <1>2 DEF Idle, Workers
<1> QED BY <1>6, <1>7, <1>8 DEF FlushInv

\* SenderInv is inductive.
LEMMA StepInv == SenderInv /\ [Next]_vars => SenderInv'
<1> SUFFICES ASSUME SenderInv, [Next]_vars PROVE FlushInv'
  BY TypeStep DEF SenderInv
<1> USE SenderAssumption DEF SenderInv
<1>0. /\ at \in [Workers -> {"idle", "send", "wait", "timeouts"}]
      /\ "send" \in Workers /\ "recv" \in Workers
      /\ made \in Nat /\ done \in Nat
      /\ at["recv"] # "timeouts" => Idle("recv")
      /\ at["send"] = "send" => done < made
  BY DEF TypeOK, FlushInv, Workers
<1>1. CASE Notify
  BY <1>0, <1>1, Untouched DEF Notify
<1>2. CASE Send
  BY <1>0, <1>2, Untouched DEF Send
<1>3. ASSUME NEW n \in Nodes, Push(n) PROVE FlushInv'
  <2>1. q'[n] = q[n] \cup {done + 1} /\ q'[n] # {} /\ q'[n] \in SUBSET Units
        /\ \A m \in Nodes \ {n} : q'[m] = q[m]
    BY <1>0, <1>3 DEF Push, TypeOK, Units
  <2> QED BY <1>0, <1>3, <2>1, FlushBegins DEF Push
<1>4. ASSUME NEW n \in Nodes, Skip(n) PROVE FlushInv'
  BY <1>0, <1>4, Untouched DEF Skip
<1>5. CASE Pop
  BY <1>0, <1>5, Untouched DEF Pop
<1>6. ASSUME NEW w \in Workers, Launch(w) PROVE FlushInv'
  <2>1. PICK n \in Nodes : making[w].node = n /\ making[w] \in Txn /\ w \in Making(n)
    BY <1>6, MakingType DEF Launch, Idle, Making
  <2>2. making' = [making EXCEPT ![w] = NoTxn] /\ making \in [Workers -> {NoTxn} \cup Txn]
    BY <1>6 DEF Launch, TypeOK, Txn
  <2>3. \A m \in Nodes : Making(m)' = Making(m) \ {w}
    BY <2>2 DEF Making, NoTxn
  <2>4. \A m \in Nodes : \A v \in Making(m)' : making'[v] = making[v]
    BY <2>2, <2>3 DEF Making
  <2>5. ASSUME NEW m \in Nodes \ raced', m # n
        PROVE  /\ \A u \in txns' : u.node = m => m \in curtxn' /\ Making(m)' = {}
               /\ \A u, x \in txns' : u.node = m /\ x.node = m => u = x
               /\ \A u, x \in Making(m)' : u = x
               /\ \A u \in Making(m)' : making'[u].units = q'[m]
    BY <1>6, <2>1, <2>3, <2>4, <2>5 DEF Launch, FlushInv, TypeOK
  <2>6. ASSUME n \notin raced'
        PROVE  /\ \A u \in txns' : u.node = n => n \in curtxn' /\ Making(n)' = {}
               /\ \A u, x \in txns' : u.node = n /\ x.node = n => u = x
               /\ Making(n)' = {}
    <3>1. \A u \in txns : u.node # n
      BY <1>6, <2>1, <2>6 DEF Launch, FlushInv
    <3>2. Making(n)' = {}
      <4>1. \A v \in Making(n) : v = w
        BY <1>6, <2>1, <2>6 DEF Launch, FlushInv
      <4> QED BY <4>1, <2>1, <2>3
    <3> QED BY <1>6, <3>1, <3>2 DEF Launch
  <2>7. at'["recv"] # "timeouts" => Idle("recv")'
    BY <1>0, <1>6, <2>2 DEF Launch, Idle
  <2>8. at'["send"] = "send" => done' < made'
    BY <1>0, <1>6 DEF Launch
  <2>9. ASSUME NEW m \in Nodes \ raced'
        PROVE  /\ \A u \in txns' : u.node = m => m \in curtxn' /\ Making(m)' = {}
               /\ \A u, x \in txns' : u.node = m /\ x.node = m => u = x
               /\ \A u, x \in Making(m)' : u = x
               /\ \A u \in Making(m)' : making'[u].units = q'[m]
    <3>1. CASE m = n
      BY <2>6, <2>9, <3>1
    <3>2. CASE m # n
      BY <2>5, <3>2
    <3> QED BY <3>1, <3>2
  <2> QED BY <2>7, <2>8, <2>9 DEF FlushInv
<1>7. ASSUME NEW w \in Workers, FlushFails(w) PROVE FlushInv'
  <2>2. making' = [making EXCEPT ![w] = NoTxn] /\ making \in [Workers -> {NoTxn} \cup Txn]
    BY <1>7 DEF FlushFails, TypeOK, Txn
  <2>3. \A m \in Nodes : Making(m)' = Making(m) \ {w}
    BY <2>2 DEF Making, NoTxn
  <2>4. \A m \in Nodes : \A v \in Making(m)' : making'[v] = making[v]
    BY <2>2, <2>3 DEF Making
  <2>7. at'["recv"] # "timeouts" => Idle("recv")'
    BY <1>0, <1>7, <2>2 DEF FlushFails, Idle
  <2> QED BY <1>0, <1>7, <2>3, <2>4, <2>7 DEF FlushFails, FlushInv
<1>8. ASSUME NEW t \in txns, RecvGood(t) PROVE FlushInv'
  <2>1. t.node \in Nodes /\ q'[t.node] = q[t.node] /\ q[t.node] \in SUBSET Units
    BY <1>8 DEF RecvGood, TypeOK
  <2>2. at'["recv"] = "timeouts" /\ at'["send"] = at["send"]
    BY <1>0, <1>8 DEF RecvGood, Ended
  <2>3. t.node \in raced \/ \A u \in txns' : u.node # t.node
    BY <1>8, <2>1 DEF RecvGood, Ended, FlushInv
  <2> QED BY <1>0, <1>8, <2>1, <2>2, <2>3, FlushBegins DEF RecvGood, Ended
<1>9. ASSUME NEW t \in txns, RecvBad(t) PROVE FlushInv'
  <2>1. \A m \in Nodes : Making(m)' = Making(m)
    BY <1>9 DEF RecvBad, Making
  <2>2. at'["recv"] = "timeouts" /\ at'["send"] = at["send"]
    BY <1>0, <1>9 DEF RecvBad, Ended
  <2>3. t.node \in Nodes
    BY <1>9 DEF TypeOK
  <2>4. \A m \in Nodes \ raced : \A u \in txns' : u.node = m => m \in curtxn'
    BY <1>9, <2>3 DEF RecvBad, Ended, FlushInv
  <2> QED BY <1>0, <1>9, <2>1, <2>2, <2>4 DEF RecvBad, Ended, FlushInv
<1>10. CASE RecvWait \/ RecvNone \/ RecvTimeouts
  BY <1>0, <1>10, Untouched DEF RecvWait, RecvNone, RecvTimeouts
<1>11. ASSUME NEW t \in txns, Answer(t) \/ Elapse(t) PROVE FlushInv'
  BY <1>0, <1>11, Untouched DEF Answer, Elapse
<1>12. CASE UNCHANGED vars
  BY <1>0, <1>12, Untouched DEF vars
<1> QED
  BY <1>1, <1>2, <1>3, <1>4, <1>5, <1>6, <1>7, <1>8, <1>9, <1>10, <1>11, <1>12
     DEF Next, Sending, Receiving, Made

-------------------------------------------------------------------------------
\* While a worker is in flush() for a node, unless the other is too, there is no
\* transaction to that node and the worker has its whole queue.
THEOREM SenderInvariant == Spec => []SenderInv
BY InitInv, StepInv, PTL DEF Spec

\* The state of the sender is well typed; in particular a node with a curtxn has
\* a transaction, and what was cancelled is a transaction whose future is ready.
THEOREM TypeCorrect == Spec => []TypeOK
<1>1. SenderInv => TypeOK
  BY DEF SenderInv
<1> QED BY <1>1, SenderInvariant, PTL

\* flush(): the units of a node go out in one transaction at a time, except where
\* both workers were in there for the node.
THEOREM OneAtATime == Spec => []OneTxn
<1>1. SenderInv => OneTxn
  <2> SUFFICES ASSUME SenderInv, NEW n \in Nodes \ raced,
                      NEW t \in txns \cup {making[w] : w \in Workers},
                      NEW u \in txns \cup {making[w] : w \in Workers},
                      t.node = n, u.node = n
               PROVE  t = u
    BY DEF OneTxn
  <2>1. CASE t \in txns /\ u \in txns
    BY <2>1 DEF SenderInv, FlushInv
  <2>2. CASE t \in txns /\ u \notin txns
    BY <2>2 DEF SenderInv, FlushInv, Making
  <2>3. CASE t \notin txns /\ u \in txns
    BY <2>3 DEF SenderInv, FlushInv, Making
  <2>4. CASE t \notin txns /\ u \notin txns
    BY <2>4 DEF SenderInv, FlushInv, Making
  <2> QED BY <2>1, <2>2, <2>3, <2>4
<1> QED BY <1>1, SenderInvariant, PTL

\* flush() clears the queue of a node only for a transaction with all of it,
\* whatever fails, except where both workers were in there for the node.
THEOREM NothingDropped == Spec => Carried
<1>1. SenderInv /\ [Next]_vars
        => [\A n \in Nodes \ raced' : q[n] \ q[n]' \subseteq launched'[n]]_vars
  <2> SUFFICES ASSUME SenderInv, Next, NEW n \in Nodes \ raced'
               PROVE  q[n] \ q'[n] \subseteq launched'[n]
    OBVIOUS
  <2>1. CASE q'[n] = q[n]
    BY <2>1
  <2>2. ASSUME NEW m \in Nodes, Push(m) PROVE q[n] \subseteq q'[n]
    BY <2>2 DEF Push, SenderInv, TypeOK
  <2>3. ASSUME NEW w \in Workers, Launch(w) PROVE q[n] \subseteq launched'[n] \/ q'[n] = q[n]
    <3>1. making[w].node \in Nodes /\ w \in Making(making[w].node)
      BY <2>3, MakingType DEF SenderInv, Launch, Idle, Making
    <3>2. CASE making[w].node = n
      <4>1. making[w].units = q[n]
        BY <2>3, <3>1, <3>2 DEF SenderInv, FlushInv, Launch
      <4> QED BY <2>3, <3>2, <4>1 DEF Launch, SenderInv, TypeOK
    <3>3. CASE making[w].node # n
      BY <2>3, <3>1, <3>3 DEF Launch, SenderInv, TypeOK
    <3> QED BY <3>2, <3>3
  <2>4. UNCHANGED q \/ (\E m \in Nodes : Push(m)) \/ (\E w \in Workers : Launch(w))
    BY DEF Next, Sending, Receiving, Made, Notify, Send, Skip, Pop, FlushFails,
           RecvGood, RecvBad, RecvWait, RecvNone, RecvTimeouts, Answer, Elapse
  <2> QED BY <2>1, <2>2, <2>3, <2>4
<1> QED BY <1>1, SenderInvariant, PTL DEF Spec, Carried
=============================================================================
