------------------------------- MODULE Server -------------------------------
(***************************************************************************)
(* ircd::server: the requests to one remote server, pipelined over a few   *)
(* links (ircd/server.cc, and the sockets of ircd/net.cc under them).      *)
(*                                                                         *)
(* A request is carried by a tag in the queue of a link; a tag is          *)
(* committed once a part of it was written.  The remote answers the        *)
(* requests of a link in order.  All handlers run on the event loop, each  *)
(* to its end.  Closing a link resubmits its uncommitted tags, which may   *)
(* close other links: what such a handler has still to do is the stack     *)
(* todo, and nothing else runs until it is empty.                          *)
(***************************************************************************)
EXTENDS Integers, Sequences, FiniteSets, Functions

CONSTANTS
    Requests,
    Links,          \* peer::link_max links at most
    LinkMin,        \* peer::link_min
    CommitMax,      \* link::tag_commit_max
    MaxFaults,      \* bound on failing connections
    Coalesce        \* TRUE: the remote may put two responses in one TLS record

ASSUME ServerAssumption ==
    /\ IsFiniteSet(Links) /\ LinkMin \in Nat /\ CommitMax \in Nat \ {0}
    /\ MaxFaults \in Nat /\ Coalesce \in BOOLEAN

VARIABLES
    run,            \* run::level is "RUN", or "QUIT"; "HALT" once ~init() has begun
    resolve,        \* the DNS query under way, "done": the address is known
    e, fini,        \* peer::e (there is an error), peer::op_fini
    links,          \* peer::links
    link,           \* the state of each link
    todo,           \* what the running handler has still to do
    res,            \* of a request: "none", "pending", "value", "error"
    answer,         \* history: whose response a request got
    faults

vars == <<run, resolve, e, fini, links, link, todo, res, answer, faults>>
peer == <<run, resolve, e, fini>>

-----------------------------------------------------------------------------
\* A tag: its request, which may be gone ("null") or replaced by one with
\* cancellation buffers ("dummy"), and how much of it is written.
Tag == [r : Requests, req : {"user", "null", "dummy"}, w : {"none", "part", "all"}]

Committed(t) == t.w # "none"
Commits(q) == {i \in 1..Len(q) : Committed(q[i])}
TagCommitted(q) == Cardinality(Commits(q))

\* The entries of q at the places I, in their order.
Place(I, k) == CHOOSE i \in I : Cardinality({j \in I : j <= i}) = k
Keep(q, I) == [k \in 1..Cardinality(I) |-> q[Place(I, k)]]

\* sock is "closing" while the TLS shutdown is under way; op holds the op_...
\* flags; wire the requests the remote received and inbox its records.
NewLink == [sock |-> "none", op |-> {}, queue |-> <<>>, wire |-> <<>>, inbox |-> <<>>]

Ready(k) == k.sock = "open" /\ k.op \cap {"init", "fini"} = {}

LinkFinished(k) == k.sock = "none" \/ (k.sock = "closed" /\ k.op = {"fini"})

Resolving == {"SRV", "AAAA", "A"}

PeerFinished == links = <<>> /\ resolve \notin Resolving /\ fini

\* wait_writable() and wait_readable().
WaitFor(k, x) == IF "fini" \in k.op THEN k ELSE [k EXCEPT !.op = @ \cup {x}]

\* Mutant of Settle: the link is only looked at when it is closed, not when
\* its last operation was cancelled.
SettleLate(l, k) ==
    IF LinkFinished(k) /\ k.op = link[l].op
    THEN /\ links' = Keep(links, {i \in 1..Len(links) : links[i] # l})
         /\ link' = [link EXCEPT ![l] = NewLink]
    ELSE /\ link' = [link EXCEPT ![l] = k]
         /\ UNCHANGED links

\* Link l becomes k; when that is finished the peer deletes it.
Settle(l, k) ==
    IF LinkFinished(k)
    THEN /\ links' = Keep(links, {i \in 1..Len(links) : links[i] # l})
         /\ link' = [link EXCEPT ![l] = NewLink]
    ELSE /\ link' = [link EXCEPT ![l] = k]
         /\ UNCHANGED links

-----------------------------------------------------------------------------
(***************************************************************************)
(* link::close(): the link takes no more tags, its uncommitted ones are    *)
(* resubmitted to the peer, its committed ones fail, its socket is closed. *)
(***************************************************************************)

Resubmits(q) ==
    LET s == Keep(q, {i \in 1..Len(q) : ~Committed(q[i]) /\ q[i].req = "user"})
    IN  [i \in 1..Len(s) |-> [do |-> "submit", r |-> s[i].r]]

\* Mutant of Close: the tags that were not written are not resubmitted.
CloseDropping(f, l, how, rest) ==
    /\ link' = [f EXCEPT ![l].op = @ \cup {"fini"}, ![l].queue = Keep(@, Commits(@))]
    /\ todo' = (IF "fini" \in f[l].op THEN <<>>
                ELSE <<[do |-> "shut", l |-> l, how |-> how]>>) \o rest

\* f is the state of the links as the handler has left it.
Close(f, l, how, rest) ==
    IF "fini" \in f[l].op
    THEN link' = f /\ todo' = rest
    ELSE /\ link' = [f EXCEPT ![l].op = @ \cup {"fini"}, ![l].queue = Keep(@, Commits(@))]
         /\ todo' = Resubmits(f[l].queue)
                    \o <<[do |-> "shut", l |-> l, how |-> how]>> \o rest

\* The end of link::close(): "RST" closes the socket at once, "NOTIFY" starts
\* the TLS shutdown and cancels the operations under way.
Shut ==
    /\ todo # <<>> /\ Head(todo).do = "shut"
    /\ LET l == Head(todo).l
           k == link[l]
       IN  /\ res' = [r \in Requests |->
                        IF \E i \in 1..Len(k.queue) :
                            k.queue[i].r = r /\ k.queue[i].req = "user"
                        THEN "error" ELSE res[r]]
           /\ Settle(l, [k EXCEPT !.queue = <<>>, !.wire = <<>>, !.inbox = <<>>,
                                  !.sock = IF @ = "none" THEN "none"
                                           ELSE IF Head(todo).how = "RST" THEN "closed"
                                           ELSE "closing"])
    /\ todo' = Tail(todo)
    /\ UNCHANGED <<peer, answer, faults>>

-----------------------------------------------------------------------------
(***************************************************************************)
(* Submitting and cancelling requests.                                     *)
(***************************************************************************)

Init ==
    /\ run = "RUN" /\ resolve = "none" /\ e = FALSE /\ fini = FALSE
    /\ links = <<>> /\ link = [l \in Links |-> NewLink] /\ todo = <<>>
    /\ res = [r \in Requests |-> "none"]
    /\ answer = [r \in Requests |-> {}]
    /\ faults = 0

\* peer::resolve() fails before there is a query: nothing is closed.
ResolveThrows == resolve' = "failed" /\ e' = TRUE

\* server::submit(): the first request creates the peer, which resolves its
\* name unless it is an address.
Submit(r) ==
    /\ todo = <<>> /\ res[r] = "none"
    /\ \/ /\ run # "RUN"
          /\ res' = [res EXCEPT ![r] = "error"]
          /\ UNCHANGED <<todo, resolve, e>>
       \/ /\ run = "RUN"
          /\ res' = [res EXCEPT ![r] = "pending"]
          /\ todo' = <<[do |-> "submit", r |-> r]>>
          /\ \/ /\ resolve' \in IF resolve = "none" THEN {"SRV", "AAAA", "done"} ELSE {resolve}
                /\ UNCHANGED e
             \/ resolve = "none" /\ ResolveThrows
    /\ UNCHANGED <<run, fini, links, link, answer, faults>>

\* cleanup_canceled(): the tags without a request which were not written.
Swept == [l \in Links |-> [link[l] EXCEPT !.queue =
            Keep(@, {i \in 1..Len(@) : Committed(@[i]) \/ @[i].req # "null"})]]

\* Every committed tag of the link was cancelled; it will be closed.
Dead(l) ==
    /\ "fini" \notin link[l].op
    /\ LET q == link[l].queue
       IN  Commits(q) # {} /\ \A i \in Commits(q) : q[i].req = "dummy"

\* Mutant of NewTag: the tag is left with the request that was moved from.
NewTagMoved(r) == [r |-> r, req |-> "moved", w |-> "none"]

NewTag(r) == [r |-> r, req |-> "user", w |-> "none"]

\* link::submit().
Enqueue(l, r) ==
    LET k == [Swept[l] EXCEPT !.queue = Append(@, NewTag(r))]
    IN  /\ link' = [Swept EXCEPT ![l] = IF Ready(k) THEN WaitFor(k, "write") ELSE k]
        /\ UNCHANGED links

\* link_add(): the link is opened at once if the address is known.
LinkAdd(r) ==
    \E l \in Links \ Range(links) :
        /\ links' = Append(links, l)
        /\ link' = [Swept EXCEPT ![l] =
                [NewLink EXCEPT !.queue = <<NewTag(r)>>,
                                !.sock = IF resolve = "done" THEN "open" ELSE "none",
                                !.op = IF resolve = "done" THEN {"init"} ELSE {}]]

\* link_get(): any of the links with the shortest pipe may turn out the best.
LinkGet(r) ==
    LET cands == {l \in Range(links) : "fini" \notin link[l].op}
        maxed(l) == TagCommitted(link[l].queue) >= CommitMax
        room == {l \in cands : ~maxed(l)}
    IN  \/ \E l \in room : Enqueue(l, r) /\ UNCHANGED res
        \/ /\ room = {} /\ Len(links) < Cardinality(Links)
           /\ LinkAdd(r) /\ UNCHANGED res
        \/ /\ room = {} /\ Len(links) = Cardinality(Links)
           /\ IF cands # {}
              THEN \E l \in cands : Enqueue(l, r) /\ UNCHANGED res
              ELSE res' = [res EXCEPT ![r] = "error"] /\ link' = Swept /\ UNCHANGED links

\* peer::err_clear(): a peer whose name did not resolve is not resolved again.
ErrCleared == e' = FALSE /\ fini' = (run # "RUN")

\* peer::submit(): refused while the peer has an error that is not expired, and
\* outside of RUN, where an expired one is cleared all the same; closes the
\* links whose pipe is dead; then places the request.
PeerSubmit ==
    /\ todo # <<>> /\ Head(todo).do = "submit"
    /\ LET r == Head(todo).r
       IN  \/ /\ fini \/ e \/ run # "RUN"
              /\ UNCHANGED <<e, fini>> \/ (e /\ ~fini /\ run # "RUN" /\ ErrCleared)
              /\ res' = [res EXCEPT ![r] = "error"]
              /\ todo' = Tail(todo) /\ UNCHANGED <<links, link>>
           \/ /\ ~fini /\ run = "RUN" /\ ErrCleared
              /\ \E l \in Range(links) : Dead(l) /\ Close(link, l, "NOTIFY", todo)
              /\ UNCHANGED <<links, res>>
           \/ /\ ~fini /\ run = "RUN" /\ ErrCleared
              /\ \A l \in Range(links) : ~Dead(l)
              /\ LinkGet(r)
              /\ todo' = Tail(todo)
    /\ UNCHANGED <<run, resolve, answer, faults>>

\* server::errclear(), for a request which comes in from the errant server.
ErrClear ==
    /\ todo = <<>> /\ e /\ run # "HALT"
    /\ ErrCleared
    /\ UNCHANGED <<run, resolve, links, link, todo, res, answer, faults>>

\* Mutant of CancelTag: the tag of a written request is taken out of the pipe.
CancelTagOut(q, i) ==
    IF Committed(q[i]) THEN SubSeq(q, 1, i - 1) \o SubSeq(q, i + 1, Len(q))
    ELSE [q EXCEPT ![i].req = "null"]

\* A written request leaves a dummy in its place, another one an empty tag.
CancelTag(q, i) == [q EXCEPT ![i].req = IF Committed(q[i]) THEN "dummy" ELSE "null"]

\* server::cancel().
Cancel(r) ==
    /\ todo = <<>>
    /\ \E l \in Range(links) : \E i \in 1..Len(link[l].queue) :
        /\ link[l].queue[i].r = r /\ link[l].queue[i].req = "user"
        /\ link' = [link EXCEPT ![l].queue = CancelTag(@, i)]
    /\ res' = [res EXCEPT ![r] = "error"]
    /\ UNCHANGED <<peer, links, todo, answer, faults>>

-----------------------------------------------------------------------------
(***************************************************************************)
(* Resolving and opening.                                                  *)
(***************************************************************************)

\* peer::close(): the links are closed one after the other, f being their
\* state; what they resubmit is refused.
CloseAll(f) ==
    /\ fini' = TRUE
    /\ link' = f
    /\ todo' = [i \in 1..Len(links) |-> [do |-> "close", l |-> links[i]]]

CloseNext ==
    /\ todo # <<>> /\ Head(todo).do = "close"
    /\ Close(link, Head(todo).l, "NOTIFY", Tail(todo))
    /\ UNCHANGED <<peer, links, res, answer, faults>>

ResolveFails ==
    /\ resolve \in {"SRV", "A"} /\ run = "RUN" /\ ~fini
    /\ resolve' = "failed" /\ e' = TRUE
    /\ CloseAll(link)

\* open_links().
Resolved ==
    /\ resolve \in {"AAAA", "A"} /\ run = "RUN" /\ ~fini
    /\ resolve' = "done"
    /\ link' = [l \in Links |-> IF l \in Range(links)
                    THEN [link[l] EXCEPT !.sock = "open", !.op = @ \cup {"init"}] ELSE link[l]]
    /\ UNCHANGED <<e, fini, todo>>

\* handle_resolve_SRV(), _AAAA() and _A().
HandleResolve ==
    /\ todo = <<>>
    /\ \/ ResolveFails
       \/ Resolved
       \/ /\ run = "RUN" /\ ~fini
          /\ \/ resolve = "SRV" /\ resolve' \in {"AAAA", "A"} /\ UNCHANGED e
             \/ resolve = "AAAA" /\ resolve' = "A" /\ UNCHANGED e
             \/ resolve \in {"SRV", "AAAA"} /\ ResolveThrows
          /\ UNCHANGED <<fini, link, todo>>
       \/ /\ run # "RUN" \/ fini
          /\ resolve \in Resolving /\ resolve' = "failed"
          /\ fini' = TRUE
          /\ UNCHANGED <<e, link, todo>>
    /\ UNCHANGED <<run, links, res, answer, faults>>

\* link::handle_open() and peer::handle_open(), after a connect and handshake
\* which failed, or were cancelled by a close.
OpenFails(l) ==
    /\ todo = <<>> /\ "init" \in link[l].op
    /\ \/ link[l].sock \in {"closing", "closed"} /\ UNCHANGED faults
       \/ link[l].sock = "open" /\ faults < MaxFaults /\ faults' = faults + 1
    /\ e' = (e \/ l = links[1])
    /\ LET k == [link[l] EXCEPT !.op = @ \ {"init"}]
       IN  IF fini THEN Settle(l, k) /\ UNCHANGED todo
           ELSE Close([link EXCEPT ![l] = k], l, "RST", <<>>) /\ UNCHANGED links
    /\ UNCHANGED <<run, resolve, fini, res, answer>>

\* Mutant of OpenSucceeds: an open link does not start on its queue.
OpenSucceedsIdle(l) ==
    /\ todo = <<>> /\ "init" \in link[l].op /\ link[l].sock \in {"open", "closing"}
    /\ link' = [link EXCEPT ![l].op = @ \ {"init"}]
    /\ UNCHANGED <<peer, links, todo, res, answer, faults>>

OpenSucceeds(l) ==
    /\ todo = <<>> /\ "init" \in link[l].op /\ link[l].sock \in {"open", "closing"}
    /\ LET k == [link[l] EXCEPT !.op = @ \ {"init"}]
       IN  link' = [link EXCEPT ![l] = WaitFor(k, "write")]
    /\ UNCHANGED <<peer, links, todo, res, answer, faults>>

-----------------------------------------------------------------------------
(***************************************************************************)
(* Writing.                                                                *)
(***************************************************************************)

\* How far the loop of handle_writable_success() may get: it stops behind the
\* first tag when the pipe is full, or when it becomes full.
Reach(q) == IF TagCommitted(q) >= CommitMax THEN 1
            ELSE IF Len(q) < CommitMax THEN Len(q) ELSE CommitMax

\* The queue after n tags are written, and a part of the next one if the socket
\* takes no more; the places of those the remote did not have.
Wrote(q, n) ==
    [i \in 1..Len(q) |-> [q[i] EXCEPT !.w = IF i <= n THEN "all"
                            ELSE IF i = n + 1 /\ n < Reach(q) THEN "part" ELSE @]]
Unsent(q, n) == {i \in 1..n : q[i].w # "all"}

\* handle_writable_success().  Tags cancelled before they were written are
\* dropped; a lone cancelled tag in the pipe closes the link; else n tags get
\* written.
HandleWritable(l) ==
    /\ todo = <<>> /\ link[l].sock = "open" /\ "write" \in link[l].op
    /\ LET all == link[l].queue
           q == Keep(all, {i \in 1..Len(all) : Committed(all[i]) \/ all[i].req = "user"})
           k == [link[l] EXCEPT !.op = @ \ {"write"}, !.queue = q]
       IN  \/ /\ TagCommitted(q) = 1 /\ q[1].req = "dummy"
              /\ Close([link EXCEPT ![l] = k], l, "NOTIFY", <<>>)
           \/ /\ ~(TagCommitted(q) = 1 /\ q[1].req = "dummy")
              /\ \E n \in 0..Reach(q) :
                    /\ n < Reach(q) => q[n + 1].w = "none"
                    /\ LET new == Keep(q, Unsent(q, n))
                           armed == IF q # <<>> /\ TagCommitted(q) = 0 THEN WaitFor(k, "read") ELSE k
                           more == IF n < Reach(q) THEN WaitFor(armed, "write") ELSE armed
                           wrote == [more EXCEPT !.queue = Wrote(q, n),
                                        !.wire = @ \o [i \in 1..Len(new) |-> new[i].r]]
                       IN  link' = [link EXCEPT ![l] = wrote]
              /\ UNCHANGED todo
    /\ UNCHANGED <<peer, links, res, answer, faults>>

\* The remote answers the oldest request it has received, in a record of its
\* own or at the end of the one before it.
RemoteAnswers(l) ==
    /\ todo = <<>> /\ link[l].sock = "open" /\ link[l].wire # <<>>
    /\ LET b == link[l].inbox
           r == Head(link[l].wire)
           own == [link[l] EXCEPT !.wire = Tail(@), !.inbox = Append(@, <<r>>)]
           joined == [link[l] EXCEPT !.wire = Tail(@),
                                     !.inbox = [b EXCEPT ![Len(b)] = Append(b[Len(b)], r)]]
       IN  \/ link' = [link EXCEPT ![l] = own]
           \/ Coalesce /\ b # <<>> /\ link' = [link EXCEPT ![l] = joined]
    /\ UNCHANGED <<peer, links, todo, res, answer, faults>>

-----------------------------------------------------------------------------
(***************************************************************************)
(* Reading.                                                                *)
(***************************************************************************)

HandleReadable(l) ==
    /\ todo = <<>> /\ link[l].sock = "open" /\ "read" \in link[l].op
    /\ link[l].inbox # <<>>
    /\ link' = [link EXCEPT ![l].op = @ \ {"read"}]
    /\ todo' = <<[do |-> "read", l |-> l, overrun |-> <<>>]>>
    /\ UNCHANGED <<peer, links, res, answer, faults>>

\* Mutant of Pop: the response to a cancelled request is left for the next.
PopLess(k) ==
    [k EXCEPT !.queue = Tail(@),
              !.inbox = IF Head(k.queue).req = "dummy" THEN @ ELSE Tail(@)]

Pop(k) == [k EXCEPT !.queue = Tail(@), !.inbox = Tail(@)]

\* The front tag of l has received response x and is popped.  A full pipe has
\* room for another one; an empty queue closes a link that is not needed.
TagDone(l, x, overrun) ==
    LET q == link[l].queue
        t == Head(q)
        k == Pop(link[l])
        w == IF TagCommitted(q) >= CommitMax THEN WaitFor(k, "write") ELSE k
    IN  /\ res' = [res EXCEPT ![t.r] = IF t.req = "user" THEN "value" ELSE @]
        /\ answer' = [answer EXCEPT ![t.r] = IF t.req = "user" THEN @ \cup {x} ELSE @]
        /\ \/ /\ Tail(q) # <<>>
              /\ link' = [link EXCEPT ![l] = w]
              /\ todo' = <<[do |-> "read", l |-> l, overrun |-> overrun]>>
           \/ /\ Tail(q) = <<>>
              /\ IF Cardinality({m \in Range(links) : Ready(link[m])}) > LinkMin
                 THEN Close([link EXCEPT ![l] = w], l, "NOTIFY", <<>>)
                 ELSE link' = [link EXCEPT ![l] = WaitFor(w, "read")] /\ todo' = <<>>

\* process_read(), once for each tag.  The overrun of the tag before it is
\* copied to the buffer of this one, but only what is read now is counted: on
\* its own it is lost, and in front of new data it makes a head which is
\* wrong, or cut off.
ProcessRead ==
    /\ todo # <<>> /\ Head(todo).do = "read"
    /\ LET l == Head(todo).l
           q == link[l].queue
           in == link[l].inbox
           overrun == Head(todo).overrun
       IN  \/ /\ ~Committed(q[1])        \* discard_read() throws eof
              /\ Close(link, l, "RST", <<>>) /\ UNCHANGED <<res, answer>>
           \/ /\ q[1].req = "dummy" /\ TagCommitted(q) = 1
              /\ Close(link, l, "NOTIFY", <<>>) /\ UNCHANGED <<res, answer>>
           \/ /\ Committed(q[1]) /\ ~(q[1].req = "dummy" /\ TagCommitted(q) = 1)
              /\ \/ /\ in = <<>>
                    /\ link' = [link EXCEPT ![l] = WaitFor(@, "read")]
                    /\ todo' = <<>> /\ UNCHANGED <<res, answer>>
                 \/ /\ in # <<>> /\ overrun = <<>>
                    /\ TagDone(l, in[1][1], Tail(in[1]))
                 \/ /\ in # <<>> /\ overrun # <<>>
                    /\ \/ TagDone(l, overrun[1], <<>>)
                       \/ Close(link, l, "RST", <<>>) /\ UNCHANGED <<res, answer>>
    /\ UNCHANGED <<peer, links, faults>>

-----------------------------------------------------------------------------
(***************************************************************************)
(* Failing and closing.                                                    *)
(***************************************************************************)

\* A wait ends with an error or the end of the stream, a write fails, or what
\* was read is not a response or too long: handle_error().
HandleError(l, x) ==
    /\ todo = <<>> /\ link[l].sock = "open" /\ x \in link[l].op \cap {"read", "write"}
    /\ faults < MaxFaults /\ faults' = faults + 1
    /\ Close([link EXCEPT ![l].op = @ \ {x}], l, "RST", <<>>)
    /\ UNCHANGED <<peer, links, res, answer>>

\* The wait was cancelled by the close.
Canceled(l, x) ==
    /\ todo = <<>> /\ link[l].sock \in {"closing", "closed"}
    /\ x \in link[l].op \cap {"read", "write"}
    /\ Settle(l, [link[l] EXCEPT !.op = @ \ {x}])
    /\ UNCHANGED <<peer, todo, res, answer, faults>>

\* socket::handle_disconnect(), after the TLS shutdown or its timeout.
HandleDisconnect(l) ==
    /\ todo = <<>> /\ link[l].sock = "closing"
    /\ Settle(l, [link[l] EXCEPT !.sock = "closed"])
    /\ UNCHANGED <<peer, todo, res, answer, faults>>

\* The run level changes, long before server::init is destroyed.
Quit ==
    /\ todo = <<>> /\ run = "RUN" /\ run' = "QUIT"
    /\ UNCHANGED <<resolve, e, fini, links, link, todo, res, answer, faults>>

\* server::init::~init(): every request fails, and what the remote still sends
\* has no tag and is discarded; then every link is closed, unless op_fini is
\* set already: peer::close() does nothing then.
Halt ==
    /\ todo = <<>> /\ run = "QUIT" /\ run' = "HALT"
    /\ res' = [r \in Requests |-> IF res[r] = "pending" THEN "error" ELSE res[r]]
    /\ LET f == [l \in Links |->
                    [link[l] EXCEPT !.queue = <<>>, !.wire = <<>>, !.inbox = <<>>]]
       IN  IF resolve = "none" \/ fini THEN link' = f /\ UNCHANGED <<fini, todo>>
           ELSE CloseAll(f)
    /\ UNCHANGED <<resolve, e, links, answer, faults>>

Next ==
    \/ \E r \in Requests : Submit(r) \/ Cancel(r)
    \/ PeerSubmit \/ CloseNext \/ Shut \/ ProcessRead
    \/ HandleResolve \/ ErrClear \/ Quit \/ Halt
    \/ \E l \in Links :
        \/ OpenFails(l) \/ OpenSucceeds(l) \/ HandleWritable(l) \/ RemoteAnswers(l)
        \/ HandleReadable(l) \/ HandleDisconnect(l)
        \/ \E x \in {"read", "write"} : HandleError(l, x) \/ Canceled(l, x)

Spec == Init /\ [][Next]_vars

\* A handler runs to its end, the callbacks of the event loop are delivered,
\* and the remote answers what it has received.
Fairness ==
    /\ WF_vars(PeerSubmit) /\ WF_vars(CloseNext) /\ WF_vars(Shut) /\ WF_vars(ProcessRead)
    /\ WF_vars(HandleResolve)
    /\ \A l \in Links :
        /\ WF_vars(OpenFails(l) \/ OpenSucceeds(l))
        /\ WF_vars(HandleWritable(l)) /\ WF_vars(RemoteAnswers(l))
        /\ WF_vars(HandleReadable(l)) /\ WF_vars(HandleDisconnect(l))
        /\ \A x \in {"read", "write"} : WF_vars(Canceled(l, x))

FairSpec == Spec /\ Fairness

-----------------------------------------------------------------------------
LinkState ==
    [sock : {"none", "open", "closing", "closed"},
     op : SUBSET {"init", "fini", "read", "write"},
     queue : Seq(Tag), wire : Seq(Requests), inbox : Seq(Seq(Requests) \ {<<>>})]

Step ==
    [do : {"submit"}, r : Requests] \cup [do : {"close"}, l : Links]
        \cup [do : {"shut"}, l : Links, how : {"RST", "NOTIFY"}]
        \cup [do : {"read"}, l : Links, overrun : Seq(Requests)]

TypeOK ==
    /\ run \in {"RUN", "QUIT", "HALT"} /\ e \in BOOLEAN /\ fini \in BOOLEAN
    /\ resolve \in Resolving \cup {"none", "done", "failed"}
    /\ links \in Seq(Links) /\ link \in [Links -> LinkState] /\ todo \in Seq(Step)
    /\ res \in [Requests -> {"none", "pending", "value", "error"}]
    /\ answer \in [Requests -> SUBSET Requests]
    /\ faults \in 0..MaxFaults

\* A request is answered by the response to it, and at most once, although
\* others in its pipe were cancelled, resubmitted or failed.
OwnAnswer == \A r \in Requests : answer[r] = IF res[r] = "value" THEN {r} ELSE {}

\* The written tags are in front of the queue of a link and are what the remote
\* has still to answer, in that order: a cancelled request keeps its
\* place, an unwritten one has none; nor do the commits outgrow tag_commit_max()
\* (an assertion of process_write()).  Not so once peer::close() has come to it.
PipeExact ==
    \A l \in Links :
        LET k == link[l]
            sent == {i \in 1..Len(k.queue) : k.queue[i].w = "all"}
        IN  "fini" \notin k.op /\ [do |-> "close", l |-> l] \notin Range(todo) =>
            /\ TagCommitted(k.queue) <= CommitMax
            /\ sent = 1..(Len(k.inbox) + Len(k.wire))
            /\ \A i \in sent :
                k.queue[i].r = IF i <= Len(k.inbox) THEN k.inbox[i][1]
                               ELSE k.wire[i - Len(k.inbox)]

\* A request is pending exactly as long as one tag, or one step of the
\* running handler, stands for it: closing a link loses none of its tags.
Carried ==
    \A r \in Requests :
        Cardinality(UNION {{<<l, i>> : i \in {j \in 1..Len(link[l].queue) :
                                link[l].queue[j].r = r /\ link[l].queue[j].req = "user"}} :
                                l \in Links})
      + Cardinality({i \in 1..Len(todo) : todo[i].do = "submit" /\ todo[i].r = r})
      = IF res[r] = "pending" THEN 1 ELSE 0

\* The peer does not serve r: its tag is on a link that is never opened, as the
\* name did not resolve and the error was cleared, or nothing was closed, or the
\* run level changed.
Stranded(r) ==
    /\ resolve = "failed"
    /\ \E l \in Range(links) :
        link[l].sock = "none" /\ \E i \in 1..Len(link[l].queue) : link[l].queue[i].r = r

\* Every request comes to an end if the remote answers, unless the peer does
\* not serve it: no wakeup of a link is lost, whoever cancels, however often
\* links fail and errors are cleared.
Completes == \A r \in Requests : []<>(res[r] # "pending" \/ Stranded(r))

\* A link that is closed is deleted in the end (link::finished()), whatever it
\* was doing when; and the wait of ~init() for the peer ends, unless op_fini was
\* set before it and peer::close() has left links which nobody closes.
Closes ==
    /\ \A l \in Links : []<>("fini" \notin link[l].op)
    /\ []<>(run = "HALT" => \/ resolve = "none" \/ PeerFinished
                            \/ \E l \in Range(links) : "fini" \notin link[l].op)
=============================================================================
