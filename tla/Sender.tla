------------------------------- MODULE Sender -------------------------------
(***************************************************************************)
(* The federation sender (modules/federation/sender.cc).  The NOTIFY hook  *)
(* queues the events of this server.  The send worker takes them in order  *)
(* and pushes each to the queue of every server (node) it is for; flush()  *)
(* makes one transaction of the whole queue of a node unless one is under  *)
(* way there.  The recv worker waits for the answers, flushes the node     *)
(* again after a good one, and cancels what takes too long.                *)
(*                                                                         *)
(* Making the m::fed::send of a transaction yields: m::fed::server() looks *)
(* up the well-known of the node, in the database or over the network.     *)
(* Both workers may be there with the same node at the same time.          *)
(***************************************************************************)
EXTENDS Naturals

CONSTANTS
    MaxUnits,       \* bound on the events; they are named in their order
    Nodes,
    Targets         \* the nodes which are in the room of an event

Units == 1..MaxUnits

ASSUME SenderAssumption ==
    /\ MaxUnits \in Nat /\ "none" \notin Nodes
    /\ Targets \in [Units -> SUBSET Nodes]

Workers == {"send", "recv"}

VARIABLES
    made, done,     \* notified_queue holds the units done + 1 to made
    left,           \* nodes which send() has still to come to
    at,             \* "idle", "send" (send worker), "wait" or "timeouts" (recv
                    \* worker)
    armed,          \* the txns which the when_any() of recv() looks at
    making,         \* the transaction which the flush() of a worker makes
    q,              \* the queue of each node
    curtxn,         \* nodes with a txn in node::curtxn
    txns,           \* records [node, units, by]
    ready,          \* txns whose future is ready
    canceled,       \* those of them which recv_timeouts() has cancelled
    old,            \* txns of more than 45 seconds
    \* History, not in the code:
    launched,       \* the units of each node which were in a transaction
    failed,         \* nodes where the last transaction, or making one, failed
    raced           \* nodes where both workers made a transaction at once

NoTxn == [node |-> "none", units |-> {}, by |-> "none"]

vars == <<made, done, left, at, armed, making, q, curtxn, txns, ready, canceled,
          old, launched, failed, raced>>

-----------------------------------------------------------------------------
Init ==
    /\ made = 0 /\ done = 0 /\ left = {}
    /\ at = [w \in Workers |-> "idle"]
    /\ making = [w \in Workers |-> NoTxn]
    /\ q = [n \in Nodes |-> {}]
    /\ armed = {} /\ curtxn = {} /\ txns = {} /\ ready = {} /\ canceled = {} /\ old = {}
    /\ launched = [n \in Nodes |-> {}]
    /\ failed = {} /\ raced = {}

Idle(w) == making[w] = NoTxn

Making(n) == {w \in Workers : making[w].node = n}

\* Mutant of Flush: it returns when the other worker is in there.
FlushOnce(w, n, S) ==
    IF S = {} \/ n \in curtxn' \/ Making(n) # {}
    THEN UNCHANGED <<making, raced>>
    ELSE /\ making' = [making EXCEPT ![w] = [node |-> n, units |-> S, by |-> w]]
         /\ UNCHANGED raced

\* Mutant of Flush: it does not look for a transaction under way.
FlushAlways(w, n, S) ==
    /\ UNCHANGED raced
    /\ making' = IF S = {} THEN making
                 ELSE [making EXCEPT ![w] = [node |-> n, units |-> S, by |-> w]]

\* flush() up to the point where it yields; S is the queue of the node.
Flush(w, n, S) ==
    IF S = {} \/ n \in curtxn'
    THEN UNCHANGED <<making, raced>>
    ELSE /\ making' = [making EXCEPT ![w] = [node |-> n, units |-> S, by |-> w]]
         /\ raced' = IF Making(n) # {} THEN raced \cup {n} ELSE raced

\* handle_notify().
Notify ==
    /\ made < MaxUnits
    /\ made' = made + 1
    /\ UNCHANGED <<done, left, at, armed, making, q, curtxn, txns, ready, canceled,
                   old, launched, failed, raced>>

-----------------------------------------------------------------------------
(***************************************************************************)
(* The send worker.                                                        *)
(***************************************************************************)

Send ==
    /\ at["send"] = "idle" /\ done < made
    /\ at' = [at EXCEPT !["send"] = "send"]
    /\ left' = Targets[done + 1]
    /\ UNCHANGED <<made, done, armed, making, q, curtxn, txns, ready, canceled, old,
                   launched, failed, raced>>

\* The next node of the iteration: push() and flush().
Push(n) ==
    /\ at["send"] = "send" /\ Idle("send") /\ n \in left
    /\ left' = left \ {n}
    /\ q' = [q EXCEPT ![n] = @ \cup {done + 1}]
    /\ UNCHANGED curtxn
    /\ Flush("send", n, q'[n])
    /\ UNCHANGED <<made, done, at, armed, txns, ready, canceled, old, launched, failed>>

\* m::fed::errant(): the node is left out.
Skip(n) ==
    /\ at["send"] = "send" /\ Idle("send") /\ n \in left
    /\ left' = left \ {n}
    /\ UNCHANGED <<made, done, at, armed, making, q, curtxn, txns, ready, canceled,
                   old, launched, failed, raced>>

\* The unit is popped, at the end of the iteration or on an exception.
Pop ==
    /\ at["send"] = "send" /\ Idle("send")
    /\ at' = [at EXCEPT !["send"] = "idle"]
    /\ left' = {} /\ done' = done + 1
    /\ UNCHANGED <<made, armed, making, q, curtxn, txns, ready, canceled, old,
                   launched, failed, raced>>

-----------------------------------------------------------------------------
(***************************************************************************)
(* The rest of flush(), in either worker.                                  *)
(***************************************************************************)

\* The transaction is made: it takes the place of the whole queue.
Launch(w) ==
    /\ ~Idle(w)
    /\ LET t == making[w] IN
        /\ txns' = txns \cup {t}
        /\ curtxn' = curtxn \cup {t.node}
        /\ q' = [q EXCEPT ![t.node] = {}]
        /\ launched' = [launched EXCEPT ![t.node] = @ \cup t.units]
        /\ failed' = failed \ {t.node}
    /\ making' = [making EXCEPT ![w] = NoTxn]
    /\ UNCHANGED <<made, done, left, at, armed, ready, canceled, old, raced>>

\* An exception: the queue stays for the next flush().
FlushFails(w) ==
    /\ ~Idle(w)
    /\ failed' = failed \cup {making[w].node}
    /\ making' = [making EXCEPT ![w] = NoTxn]
    /\ UNCHANGED <<made, done, left, at, armed, q, curtxn, txns, ready, canceled, old,
                   launched, raced>>

-----------------------------------------------------------------------------
(***************************************************************************)
(* The recv worker.                                                        *)
(***************************************************************************)

\* The loop of the worker comes to recv(), which waits for any of the
\* transactions of this moment.
RecvWait ==
    /\ at["recv"] = "idle" /\ txns # {}
    /\ at' = [at EXCEPT !["recv"] = "wait"]
    /\ armed' = txns
    /\ UNCHANGED <<made, done, left, making, q, curtxn, txns, ready, canceled, old,
                   launched, failed, raced>>

\* Mutant of Ended: the pointer to the transaction is left.
EndedCur(t) ==
    /\ armed' = {}
    /\ txns' = txns \ {t} /\ ready' = ready \ {t}
    /\ canceled' = canceled \ {t} /\ old' = old \ {t}
    /\ at' = [at EXCEPT !["recv"] = "timeouts"]
    /\ UNCHANGED curtxn

\* What goes with a transaction that has ended.
Ended(t) ==
    /\ armed' = {}
    /\ txns' = txns \ {t} /\ ready' = ready \ {t}
    /\ canceled' = canceled \ {t} /\ old' = old \ {t}
    /\ curtxn' = curtxn \ {t.node}
    /\ at' = [at EXCEPT !["recv"] = "timeouts"]

\* Mutant of RecvGood: the node is not flushed.
RecvGoodOnly(t) ==
    /\ at["recv"] = "wait" /\ t \in (armed \cap ready) \ canceled
    /\ Ended(t)
    /\ UNCHANGED <<made, done, left, q, making, launched, failed, raced>>

\* recv(): an answer, and the node is flushed.
RecvGood(t) ==
    /\ at["recv"] = "wait" /\ t \in (armed \cap ready) \ canceled
    /\ Ended(t)
    /\ Flush("recv", t.node, q[t.node])
    /\ UNCHANGED <<made, done, left, q, launched, failed>>

\* An error, or the transaction was cancelled: the node is not flushed.
RecvBad(t) ==
    /\ at["recv"] = "wait" /\ t \in armed \cap ready
    /\ Ended(t)
    /\ failed' = failed \cup {t.node}
    /\ UNCHANGED <<made, done, left, q, making, launched, raced>>

\* None of them was answered for 2 seconds; others may have been, that were
\* launched meanwhile.
RecvNone ==
    /\ at["recv"] = "wait" /\ armed \cap ready = {}
    /\ at' = [at EXCEPT !["recv"] = "timeouts"]
    /\ armed' = {}
    /\ UNCHANGED <<made, done, left, making, q, curtxn, txns, ready, canceled, old,
                   launched, failed, raced>>

\* Mutant of RecvTimeouts: nothing is cancelled.
RecvTimeoutsNone ==
    /\ at["recv"] = "timeouts" /\ Idle("recv")
    /\ at' = [at EXCEPT !["recv"] = "idle"]
    /\ UNCHANGED <<made, done, left, armed, making, q, curtxn, txns, ready, canceled,
                   old, launched, failed, raced>>

\* recv_timeouts(), after the flush: cancel() readies the futures.
RecvTimeouts ==
    /\ at["recv"] = "timeouts" /\ Idle("recv")
    /\ at' = [at EXCEPT !["recv"] = "idle"]
    /\ canceled' = canceled \cup (old \ ready)
    /\ ready' = ready \cup old
    /\ UNCHANGED <<made, done, left, armed, making, q, curtxn, txns, old, launched,
                   failed, raced>>

-----------------------------------------------------------------------------
\* An answer or an error of server::request.
Answer(t) ==
    /\ t \in txns \ ready
    /\ ready' = ready \cup {t}
    /\ UNCHANGED <<made, done, left, at, armed, making, q, curtxn, txns, canceled, old,
                   launched, failed, raced>>

Elapse(t) ==
    /\ t \in txns \ old
    /\ old' = old \cup {t}
    /\ UNCHANGED <<made, done, left, at, armed, making, q, curtxn, txns, ready,
                   canceled, launched, failed, raced>>

Sending == Send \/ Pop \/ \E n \in Nodes : Push(n) \/ Skip(n)

Receiving ==
    \/ \E t \in txns : RecvGood(t) \/ RecvBad(t)
    \/ RecvWait \/ RecvNone \/ RecvTimeouts

Made(w) == Launch(w) \/ FlushFails(w)

Next ==
    \/ Notify \/ Sending \/ Receiving
    \/ \E w \in Workers : Made(w)
    \/ \E t \in txns : Answer(t) \/ Elapse(t)

Spec == Init /\ [][Next]_vars

\* Both workers run, requests are made or fail, and the clock goes on; nothing
\* is assumed about the answers.
FairSpec ==
    /\ Spec
    /\ WF_vars(Sending) /\ WF_vars(Receiving)
    /\ \A w \in Workers : WF_vars(Made(w))
    /\ WF_vars(\E t \in txns : Elapse(t))

-----------------------------------------------------------------------------
TypeOK ==
    /\ made \in 0..MaxUnits /\ done \in 0..made /\ left \subseteq Nodes
    /\ at \in [Workers -> {"idle", "send", "wait", "timeouts"}] /\ armed \subseteq txns
    /\ making \in [Workers -> {NoTxn} \cup [node : Nodes, units : SUBSET Units, by : Workers]]
    /\ \A w \in Workers : Idle(w) \/ making[w].by = w
    /\ q \in [Nodes -> SUBSET Units]
    /\ txns \subseteq [node : Nodes, units : SUBSET Units, by : Workers]
    /\ curtxn \subseteq {t.node : t \in txns}
    /\ canceled \subseteq ready /\ ready \subseteq txns /\ old \subseteq txns
    /\ launched \in [Nodes -> SUBSET Units]
    /\ failed \subseteq Nodes /\ raced \subseteq Nodes

\* The units of a node go out in one transaction at a time, so that they reach
\* it in their order, except where both workers were in flush() for the node.
OneTxn ==
    \A n \in Nodes \ raced :
        \A t, u \in txns \cup {making[w] : w \in Workers} : t.node = n /\ u.node = n => t = u

\* A unit leaves the queue of a node only with a transaction, whatever fails,
\* except where both workers were in flush() for the node: then q.clear() of
\* the one also drops what the other did not flush.
Carried ==
    [][\A n \in Nodes \ raced' : q[n] \ q[n]' \subseteq launched'[n]]_vars

\* What was queued while a transaction was under way goes out after it, unless
\* that transaction has failed.
Flushed ==
    []<>(\A n \in Nodes : q[n] = {} \/ n \in failed)

\* Transactions end, though their servers never answer.
TxnsEnd ==
    []<>(txns = {})
=============================================================================
