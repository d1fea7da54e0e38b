# TLA+ models of construct (charybdis / ircd)

construct is a Matrix homeserver: one process, one OS thread for its core, and
many cooperative contexts (stackful coroutines) on it. This directory holds TLA+
models of its core logic, the TLC configurations that check them on small
instances, and TLAPS proofs of the results that matter most for any size.

## The system and its parts

| Part | State | Operations | Interacts with |
|---|---|---|---|
| Contexts, `ircd/ctx.cc`, `include/ircd/ctx/` | per context: notes, flags (interrupted, terminated, nointerrupt), an alarm; wait queues | `wait`, `note`, `yield`, `interrupt`, `terminate`, `join` | everything; all blocking goes through it |
| Synchronisation, `include/ircd/ctx/{dock,mutex,shared_mutex,condition_variable,queue,latch,view,pool}.h` | queue of waiting contexts plus the object's own word | `lock`/`unlock`, `wait(pred)`, `push`/`pop`, `notify*` | contexts; used by the database, the server and the Matrix layers |
| Promises, `include/ircd/ctx/{promise,future,shared_state,when}.h` | a list of promises and a list of futures per shared state | `set_value`, `set_exception`, `get`, `wait`, `when_all`, `when_any` | aio, DNS, server requests |
| Matrix VM, `matrix/vm*.cc` | live evals with phase, event and sequence number; `retired`, `committed`, `uncommitted`; one transaction per eval | `execute`, `inject`, the phases of `execute_pdu`, boot and halt | database, hooks (`vm.post`, `vm.effect`, `vm.fetch.*`), `/sync`, federation sender |
| Events database, `matrix/dbs*.cc`, `ircd/db*.cc` | RocksDB columns keyed by `event_idx` and by `event_id` | compose a `txn`, commit it, point and range queries | VM, rooms |
| Event fetching, `matrix/fetch.cc`, `modules/m_vm_fetch.cc` | set of requests, each with attempted servers, a server request and a promise; one mutex, one dock | start, answer, retry, timeout, cleanup | federation client, VM |
| Remote servers, `ircd/server.cc`, `include/ircd/server/` | peers, links, tags (pipelined requests) | submit, write, read, cancel, timeout, error, close | net, DNS, federation requests |
| Federation sender, `modules/federation/sender.cc` | queue of notified events; per remote node a queue of units and the transaction in flight | notify hook, send, flush, receive, cancel | VM notify, server |
| Clients, `ircd/client.cc`, `ircd/resource.cc`, `modules/client/` | connections, request pool, `/sync` long polls | accept, parse, dispatch, timeout, disconnect | VM `retired`, contexts |
| DNS, `ircd/net_dns*.cc` | cache in a room, resolver tags | resolve, answer, timeout, retry | net, VM effect hook |
| Rooms, `matrix/room_*.cc` | state derived from the database | auth rules, power levels, heads, state | VM, clients |
| Run levels, `ircd/run.cc`, `ircd/ircd.cc`, `construct/` | current run level | change of level, start, quit | all |

Not core logic of this program, and left out: JSON/CBOR/URL/RFC grammars
(`json.cc`, `rfc*.cc`, pure parsing), the JavaScript embedding, OpenSSL and libmagick
wrappers, the console and the web client, build files and the RocksDB port layer.

## What is hard here

* Contexts interleave at every yield. A slice between two yields is atomic, but a
  value read before one (a database read, a dock wait, a hook) may be stale after it.
* Waiting is level-triggered on predicates, but waking is edge-triggered by explicit
  notifications: whoever changes a predicate must notify, on the exceptional path too.
* Any wait can end by an interrupt instead of a notification.
* Evaluations nest: hooks evaluate further events in the context of an evaluation.
* The process may die between the counters in memory and the transaction on disk.
* Requests to a remote are pipelined, and the answers carry no name: who gets which answer
  depends on every cancelled, failed and resubmitted request before it. Closing a link
  resubmits its requests, which may close and open links while the close is still running.
* `/sync` reads a log that grows while it is read, by three different methods, and the token
  of each response must continue exactly where the response ends.
* Answers race with timeouts in `fetch` and in the sender; whoever cleans up may hold a
  result that was taken before a yield.

## Properties that make each part correct

* Contexts and docks: a notification is never lost while its object can be taken;
  a dock holds exactly the contexts asleep in it.
* Mutexes: exclusion; a free object with waiters is taken again.
* Pool: a job is run once, limits hold when a job is pushed (not when the limit was
  looked at), no idle worker sleeps through a job, blocked submitters return.
* VM: distinct numbers, an exclusive commit section, monotonic counters, a log that is
  final at and below `retired`, durability of what was accepted, every call returns.
* Remote servers: each request gets the response to itself or an error; none is lost when a
  link closes; a shutdown ends.
* Sync: a client sees every event that is for it once, whatever mixture of responses it gets; a poll
  is not left asleep in front of a retired event.
* Fetch: all servers are tried before an error; a request never sits without anything to move
  it on; callers get a result.
* Sender: one transaction at a time to a server, so that its events arrive in order; nothing
  leaves a queue unsent; what was queued behind a transaction follows it.
* Not modelled: each promise is satisfied or broken once (promises, beyond their use in `Fetch`).

## Modules

A slice of a context, from one yield to the next, is one action everywhere: contexts are
cooperative and share one thread. Which context runs next is left open.

### `VM`: the event sequencer

`Evals` are calls of `execute()`. `phase[e]` is the yield at which the context of `e` is
parked; the phases have the names of `enum vm::phase`, with `DUPCHK1`/`EXISTS1` in
`execute()` and `DUPCHK2`/`EXISTS2` in `execute_pdu()`; `FETCH` stands for the checks from
ACCESS to FETCH_STATE, `INDEX` for AUTH_PRES, EVALUATE and INDEX, `EFFECTS` for NOTIFY
and EFFECTS: within such a group the code only reads, throws or evaluates other events.

| State | Code |
|---|---|
| `event`, `parent`, `kind`, `post` | `eval::event_`, `eval::parent`, `eval::copts` or an EDU, `parent_post` of `execute_pdu` |
| `sequence`, `txn` | `eval::sequence`, `eval::txn` (the event index numbers it holds) |
| `retired`, `committed`, `uncommitted` | the members of `vm::sequence` |
| `column`, `event_idx` | the event data columns and the `_event_idx` column |
| `noted` | waiters of `sequence::dock` with a note |
| `halted`, `boots` | `vm::init::~init` has returned; restarts so far |

| Action | Code |
|---|---|
| `Execute` | `execute()` to its first yield |
| `Dupchk1`, `SkipExisting`, `EnterPdu`, `Dupchk2`, `FaultExists`, `Access` | both duplicate checks and both existence checks |
| `Sequence`, `Precommit`, `AuthRela`, `Commit` | the number, the two barriers, `uncommitted` |
| `Index`, `Post`, `Write`, `Retire` | `write_append`, `committed`, `write_commit`, the RETIRE barrier and `retired` |
| `Edu`, `Accept` | `execute_edu`, the end of `execute_du` |
| `SleepAgain` | a notified waiter whose predicate is false |
| `FaultPdu`, `FaultDu` | exceptions and interrupts, inside and outside of `execute_pdu` |
| `Halt`, `Boot` | `vm::init::~init`, and `vm::init::init` after a halt or a crash |

The dock is modelled by the set `noted` of waiters with a pending notification; the
interrupted wait's `dock::notify_one` picks any waiter, so no order in the dock is relied
on. Taken from outside of the model: a RocksDB batch is atomic and durable, and the hooks of a
phase return.

### `EventLog`: what readers may rely on

The abstract specification: at and below `retired` the log is final, and `retired` moves
only to an index that is in the database. `VM` implements it (`LogSpec`), with `column` and
`retired` mapped to themselves, and `Feed` and `Sync` are built on it.

### `Dock`: the wait queue

Operators on the sequence of contexts asleep in a `ctx::dock`: `NotifyOne`, `Rotate` (the
move to the back that makes `notify()` out of `notify_one()`), `Remove`, `Waiting`
(`notify_all()`). `Mutex`, `SharedMutex` and `Pool` are built on it. They keep the notes
as a set because `ctx::note()` does nothing for a context that already has one.

### `Mutex`

`m` is the owner, `q` the dock, `pc[c]` where a context is; `timed[c]` tells `lock()` from
`try_lock_until()`.

| Action | Code |
|---|---|
| `LockFree` | `lock()`, `try_lock()`, `try_lock_until()` of a free mutex, without a look at `q` |
| `LockWait` | the other case of `lock()` and `try_lock_until()` |
| `Wake`, `Expire`, `Interrupt` | the wait goes on after a note, after its alarm, or throws |
| `Unlock` | `unlock()` |

### `SharedMutex`

`u` and `s` are the members of the class, `mode[c]` is what the calls that returned to `c`
have granted it, `wait[c]` the call it sleeps in. `Call`/`CallWait` are the seven locking calls
by whether their predicate holds; `TryLockShared`, `TryUnlockSharedAndLock`,
`TryUnlockSharedAndLockUpgrade` never wait; `Unlock...` are the six releases. Assertions do
not stop the model.
The constant `Usages` is a set of ways to use the lock, one of which is chosen at the start (`usage`):
`"upgrade"` allows upgrade locks and downgrades, `"convert"` the conversions from shared to
unique. The code is not exclusive when both are used (see Limits). `downgraded` is a history variable: the last release
of the unique lock was a downgrade, which wakes one waiter or none, and not an `unlock()`, which wakes all.

### `Pool`

A pool, its `ctx::queue` and the two docks `d` (idle workers) and `q_max` (submitters over the
soft limit). A job has the name of its submitter. The soft limit `soft` is any of `SoftMaxes`;
submitters in `Bare` are not contexts and never wait.

| Action | Code |
|---|---|
| `Submit`, `WakeSubmit`, `InterruptSubmit` | `pool::operator()`, up to and after its wait; `Push` is its end |
| `Enter` | a spawned context runs: interruption point, where an interrupt ends it too, `main()`, `q_max.notify()` |
| `Wake`, `Throw` | the wait of `queue::pop()` in `work()` returns, or throws |
| `Finish` | the job returns or throws; `q_max.notify()`; round the loop of `main()` |
| `Add`, `Del`, `Terminate`, `Join` | `add()`/`min()`/`set()`, `del()`/`set()`, `terminate()`, `~pool()` |

`Loop` is the rest of a worker's slice: the head of the loop of `main()`, then a job, sleep or exit. `Forsaken` are the
states in which a queued job has nobody to run it: the workers are gone, or all of them sleep without a note after a
second termination (see Limits). They are the exception in `JobsRun` and `SubmitReturns`.

### `Server`

One `server::peer` with its links and tags, and the sockets under them. Handlers run on the event
loop without a yield, but they call each other: closing a link resubmits its tags, a submission
closes dead links. What the running handler has still to do is the stack `todo`; while it is not
empty nothing else can happen.

| State | Code |
|---|---|
| `links`, `e`, `fini`, `resolve` | `peer::links`, `peer::e`, `peer::op_fini`, the query of `op_resolve` |
| `link[l].queue` | `link::queue` of tags: their request, or the cancellation buffers in place of it, and how much is written |
| `link[l].sock`, `.op` | the socket, and `op_init`, `op_fini`, `op_write`, `op_read` |
| `link[l].wire`, `.inbox` | external: what the remote received, and the records it sent |
| `res`, `answer` | the promise of each request; whose response it got (history) |

| Action | Code |
|---|---|
| `Submit`, `PeerSubmit`, `LinkGet`, `LinkAdd`, `Enqueue` | `server::submit`, `peer::submit`, `link_get`, `link_add`, `link::submit` |
| `Cancel`, `CancelTag` | `server::cancel`, `tag` and its cancellation |
| `ErrClear`, `ErrCleared` | `server::errclear`, `peer::err_clear`: the error and, in RUN, `op_fini` are reset |
| `HandleResolve`, `Resolved`, `ResolveFails`, `ResolveThrows` | the three resolve handlers, `open_links`, a query that cannot be started |
| `OpenSucceeds`, `OpenFails` | `handle_open` of link and peer |
| `HandleWritable` | `handle_writable_success`, `process_write` with partial writes |
| `HandleReadable`, `ProcessRead`, `TagDone` | `handle_readable_success`, `process_read`, `process_read_next`, `discard_read`, `handle_tag_done` |
| `HandleError`, `Close`, `Shut`, `Canceled`, `HandleDisconnect` | error paths, `link::close` with `peer::disperse`, and the callbacks after it |
| `Quit` | the run level leaves RUN, some time before `~init`: requests are refused from now on |
| `Halt`, `CloseAll`, `CloseNext` | `server::init::~init`, `peer::close`, which closes one link after the other, and none if `op_fini` is set |

Handlers drop tags from a queue in several ways (the written ones, the cancelled ones, those to resubmit). `Keep(s, I)`
is what is left of a sequence at a set `I` of places, in their order, and `Place(I, j)` is the place of its element `j`.

`Stranded(r)` are the states in which the peer does not serve a request, the exception in `Completes`: its link is never
opened because the name did not resolve. `Closes` says that a link that is closing is deleted in the end, and that
the wait of `~init()` for the peer ends, except where `peer::close()` came to a peer with `op_fini` and left links unclosed (see Limits).

`Coalesce` allows the remote to put two responses into one record. The run `server` is without it,
since what the code does then is the subject of `server_coalesce`.

### `Feed` and `Sync`

`Feed` is what `GET /sync` promises: a client's token moves over the log in windows up to
`retired + 1`, and a response (`got` is the last one) holds exactly the events of its window that are for the client, so
none is skipped and none comes again. `Sync`
implements it (`FeedSpec`), with `column`, `retired`, `since` and `got` mapped to themselves. Both see the log
as `EventLog` promises it, which `VM` implements: `FeedSpec`
also checks that the log actions of `Sync` keep to `EventLog`. `Sync` writes one event at a time: a transaction of several
is several `Append`s above `retired`, where no reader looks.

`at[c]` is where the request of a client is; `second` is the upper end of its range (the lower one is the
token `since`), `pos` the place of the linear iteration, `cap` a `next_batch` token.

| Action | Code |
|---|---|
| `HandleGet`, `Choose` | `handle_get`: the range, then the choice after a yield |
| `Proffer`, `Linear`, `Polylog` | `linear_proffer`, `linear_handle`, `polylog_handle` |
| `Poll`, `Wake`, `TimesOut`, `Polled` | `longpoll::poll`, its wait on the dock, `polled` and the loop of `longpoll_handle` |
| `Gone` | the response is lost with its connection, or `fini()` interrupts the poll |
| `Append`, `Advance`, `Notify` | the sequencer: a write, a retirement, and the NOTIFY hook `handle_notify`, which comes later |

### `Fetch`

`requests`, `finished`, `attempted`, `hinted`, `future`, `old` are the set and the members of its
requests; `owner` is `requests_mutex`, `dock` the dock which the callers and the worker share. `observed`
stands for the OBSERVED state that `when_any()` leaves in a future, `armed` and `next` for the when_any() under way.

| Action | Code |
|---|---|
| `Call`, `WakeCall`, `Enter` | `start(opts)`: wait for room, then the mutex, find or make the request |
| `Start`, `Refused`, `NotFound` | one attempt of `start(request)`: handed to a server, refused, no server left |
| `WakeWorker`, `WhenAny`, `EndWait` | the loop of `request_worker`, `request_handle` up to and after its wait |
| `HandleGood`, `HandleBad`, `HandleNone` | the rest of `request_handle`, with `finish` and `retry` |
| `Expire`, `Erase` | `request_cleanup` |
| `Answer`, `Elapse`, `Abandon` | external: servers, the clock, a caller that drops its future |

### `Sender`

`made` and `done` delimit `notified_queue`, `q` are the queues of the nodes, `making[w]` the transaction that the
`flush()` of a worker is about to send: constructing its `m::fed::send` yields. `txns`, `curtxn`, `ready`,
`canceled`, `old` are the transactions, their futures and their age, `armed` those which the `when_any()` under way looks at. The history variable `raced` marks
the nodes where both workers were in `flush()` at once.

| Action | Code |
|---|---|
| `Notify` | `handle_notify` |
| `Send`, `Push`, `Skip`, `Pop` | `send_worker`, `send`: each target node, `push` and `flush` |
| `Launch`, `FlushFails` | the rest of `flush()`, after its yield |
| `RecvWait`, `RecvGood`, `RecvBad`, `RecvNone`, `RecvTimeouts` | `recv_worker`, `recv` up to and after its wait, `recv_timeouts` |
| `Answer`, `Elapse` | external: servers and the clock |

## Runs

| Run | Instance | Shows |
|---|---|---|
| `vm` | 3 evals, 4 events, 1 restart | unique numbers, exclusive commit section, assertions of `execute_pdu`, durability, single write and refinement of `EventLog`, with a crash anywhere; no wakeup is lost at the three barriers; only a wait for a duplicate can keep `execute()` from returning |
| `mutex` | 4 contexts | one owner, exact dock, a note with the front waiter of a free mutex; a free mutex with waiters is taken again |
| `shared_mutex` | 3 contexts, either usage | nobody is inside with a unique owner; once the last unique owner has left by `unlock()` no reader sleeps for ever while it could share |
| `pool` | 3 workers, 3 submitters (one is not a context), soft limit 0 or 1, hard limit 2, 2 deletions, destruction | jobs in one place, limits hold when a job is pushed, no idle worker asleep next to a job; every job is run and every blocked submitter returns, unless all workers sleep after a second termination or are gone |
| `server` | 3 requests, 2 links, pipes of 2, 2 failures | each request gets its own response or an error, the pipe mirrors what the remote owes, no request is lost, and none is left pending but on links that are never opened; closing links are deleted, and a shutdown ends unless it meets unopened links of a peer that was finishing |
| `sync` | 2 clients, 3 events | refinement of `Feed`, the assertion of `poll()`, no poll asleep in front of a retired event |
| `fetch` | 2 callers, 2 requests, 2 servers | no request without anything to move it on, all servers tried before an error, results come, room is taken |
| `sender` | 4 events, 2 nodes | one transaction at a time, nothing dropped from a queue unsent, queues are flushed after a good transaction, transactions end |

Runs that end in a counterexample, each about a sentence or an assertion of the repository:

| Run | Disagreement |
|---|---|
| `vm_index_reuse` | an event made by a `vm.post` hook is written under a number above `committed`; when nothing is live the next event takes the same number and replaces its data columns |
| `vm_dupchk_wait` | a duplicate waits on `sequence::dock` (`vm_execute.cc:576`, and 241) for a count which drops when `execute()` returns; that notifies only `vm::dock` |
| `server_coalesce` | a response that is read together with the one before it is copied to the next tag, but not counted (`server.cc:2461`): it is lost, and the tag takes the response after it |
| `fetch_results` | a request that fails at once stays in the set as finished while the worker sleeps (`fetch.cc:241`); the next caller joins it, and its future is never set |

### Bounds

* VM: three evaluations are a parent, the child made by a hook and a bystander, or three at different
  barriers. `r1` refers to `r2`, so an auth chain is evaluated by a nested call. One restart (`MaxBoots`) is enough for crash, reload
  of the counters and reuse of numbers. A `Boot` is possible in any state, which
  is the crash.
* Mutex: with four contexts an owner, a barging context, a front and a second waiter coexist. SharedMutex: an
  upgrader, a writer and a sharer. `Min` is -6 instead of -2^63 and `MaxTries` bounds the failed calls to
  two, so `s` never reaches zero from below, as it does not in practice.
* Pool: three workers are the least for one that is notified, one that is next and one that is deleted. With two deletions (`MaxDel`)
  the state of `Forsaken` is reached, so its exception is not vacuous.
* Server: with a pipe of two (`CommitMax`) three requests fill it and leave one unwritten; with two links there is
  another one to resubmit to. Two failures (`MaxFaults`) let the other link fail as well. The code's
  limits are larger, but nothing in it depends on their values.
* Sync: ranges up to `LinearMax = 2` are linear and the one of three is polylog. One event is not for
  the clients, and another one is evaluated with `notify_clients = false`. `c2` sends `next_batch` tokens.
* Fetch: `u2` asks for both requests, so requests are joined, and two fill the set (`RequestsMax`). `b` has a hint
  and an attempt limit of 1, `a` neither; `s2` is at times in error.
* Sender: four units to the nodes of `mc_Targets` queue up behind a transaction at one node while the other is served.
* Symmetry is used in `server_coalesce` only, which has no liveness property.
* `CHECK_DEADLOCK FALSE` is set where calls are consumed or a set of them may simply be over: when every
  call has returned nothing is left to do. The mutexes and sync never stop, and are checked for it.

### Fairness

Weak fairness is assumed of the continuation of a context that has a note, was posted or
was terminated (the io_service runs what is posted to it), of jobs, hooks, reads and
writes that return, of the callbacks of the event loop, and of the clock where a timeout is armed in the code.
In `Fetch` it is strong for whoever waits for `requests_mutex`, since the mutex is free again and again and
`Mutex` hands it on. `Completes` of `Server` also assumes that the remote answers: that
requests are given up otherwise is the business of their users, and `Fetch` and `Sender` assume no answers.
Nothing is assumed of new calls, clients, unlocks, interrupts, other timeouts,
additions or deletions. `ReadersReleased` and `HandOff` say only what notified contexts
owe to each other: the mutexes promise no order between waiters.

## Proofs

TLAPS checks the theorems below for every value of the constants: any number of contexts, evaluations,
events, clients, servers, requests and jobs. Each component has its proofs in a module of its own, which also
defines the inductive invariant where that is more than the component's properties; those
of `VM` and `Mutex` are in the components. The modules of the users of a `Dock` begin with what they need to know of it: what
`Remove`, `Append`, `Rotate`, `Tail` and `NotifyOne` do to the places and the set of the contexts in a dock, and that
none is in it twice. Every inductive invariant was
also checked by TLC on the instance of its run. Every invariant that a passing run checks is stated by a theorem.

| Module | Theorems | Inductive invariant |
|---|---|---|
| `VMProofs` | `TypeCorrect`, `SequencesUnique`, `CommitExclusion`, `AssertsHold`, `ImplementsLog`, `AcceptIsDurable`, `EventsWrittenOnce` | `SequenceInv`, `LogInv`, `WriteInv` |
| `MutexProofs` | `MutexInvariant`, `NoWakeupLost`, `Exclusion` | `MutexInv` |
| `SharedMutexProofs` | `TypeCorrect`, `WriterIsExclusive` | `HoldersInv` |
| `PoolProofs` | `TypeCorrect`, `NoJobLost`, `LimitKept`, `JobsAttended` | `PlaceInv`, `SoftLimit`, `NotesInv` |
| `SyncProofs` | `TypeCorrect`, `AssertsHold`, `ImplementsFeed` | `SyncInv` |
| `FetchProofs` | `RequestsUnderway`, `ServersExhausted` | `StartInv` |
| `SenderProofs` | `TypeCorrect`, `OneAtATime`, `NothingDropped` | `SenderInv` |
| `ServerProofs` | `ServerInvariant`, `ServerTypes`, `OwnAnswerHolds`, `PipeExactHolds`, `CarriedHolds` | `ServerInv` |

* Sequence numbers, `SequenceInv`. `UniqueSequence` and `CommitExclusive` are not inductive by
  themselves. A new number is above all live ones by construction, but it restarts from
  `committed` when none is live, so one needs `CounterInv`: where the number of an evaluation in
  each phase lies between `retired`, `committed` and `uncommitted`. That `committed` only
  grows needs `SectionInv` (whoever is past the COMMIT barrier has the lowest number above
  `committed`), and evaluations made by `vm.post` hooks, which skip the barriers, need `NestingInv`
  (they live only while their parent is in POST).
* `ImplementsLog`, with `LogInv`: a transaction holds only
  numbers at or above that of its evaluation, and one that is at the RETIRE barrier is in the
  database. A `Write` is an `Append`, a `Retire` an `Advance`; a `Boot` re-reads `retired` from the
  last key, which is an `Advance` or a stutter; everything else stutters.
* What is written, `WriteInv`. No lock keeps two evaluations of an event apart. `OneEval`: the second DUPCHK lets one
  evaluation at a time past it with the same event, and existence is looked at behind it, so
  (`AbsentInv`) nothing in a transaction is in the database before its `Write`. An event
  made on this server is not looked up (`copts` is set); `OriginInv` has that it is injected once, and comes back
  from a remote only when it is in the database. `DurableInv` adds what an accepted evaluation of a `vm.post` hook rests on: the
  transaction of its parent, until that is written.
* Mutex, `MutexInv`. `NoLostWakeup` needs `QueueExact`: an abandoned wait notifies the front of
  the dock as it is after the waiter was removed.
* Shared mutex, `HoldersInv`. The lock knows of its holders only what `u` and `s` say, and both are at times
  wrong: `unlock()` leaves `u` set, and a failed `try_lock_shared()` counts `s` up. `CountInv`: an `s` that is not negative is
  the number of sharers and nobody has the lock; a negative one is a unique lock. `OwnerInv`: who
  has the unique or the upgrade lock is `u`, not the reverse. `WaitInv`: who waits in
  `unlock_upgrade_and_lock()` still has the upgrade lock, others hold nothing.
* Pool. `PlaceInv` adds to `JobsExact` that nothing is twice in a dock or in the queue. `Attended` counts notes and is
  not inductive, since a note that is left with a worker which has one already does not count. `NotesInv` is: `dock::notify()` moves whom it
  notifies to the back, so the last `q.size()` workers in the dock have notes. Taking any worker out and
  the front job off keeps that, and the next push adds the front worker, which moves behind them.
* Sync, `SyncInv`. Cells at and below `retired` are final, so what a request has put out or skipped
  before a yield stays what the window holds. `RangeInv`: no bound of a request is above `retired + 1`; a linear
  iteration has put out the cells behind it; a long poll is behind a range with nothing in it.
* Fetch, `StartInv`. `OwnerInv` ties `requests_mutex` to where callers and the worker are; `WantInv`: an
  unfinished request is without a server only while the owner of the mutex is starting it; `TodoInv` and `AnyInv`
  say the same of what the cleanup and `when_any()` still hold.
* Sender, `SenderInv`. `FlushInv`: the recv worker is in `flush()` only between an answer and `recv_timeouts()`; while a worker is in `flush()` for a node there is no transaction to the node and what the
  worker will send is all of the queue. It is stated for nodes not in `raced`; where both workers
  were in `flush()` it is false.
* Server, `ServerInv`. A handler is taken step by step (`todo`), so the invariant holds between any two of its steps, where the
  code has a link half closed or a request in no queue. `StepsInv` says what may be on the stack: apart from submissions,
  at most one step for a link, the closing of links only in a peer that is finishing, and a read only by itself. `FiniInv`: a link with
  `op_fini` has its `Shut` still to come, or has no tags and a closed socket. `PipesInv`: on a link that is not closing,
  the written tags are the front of the queue, and the front of those are the ones the remote owes a response, in the
  order of the records and the wire. `CarryInv`: a pending request has one tag or one submission, and another has
  none. `disperse()` moves tags from the one to the other, `Shut` drops what is left with an error. What a filter leaves of
  a queue of any length would be an induction over the sequence; `Keep` is defined by places instead, and the lemmas on
  it (`KeepFacts`) follow from cardinalities: `Rank`, the number of places up to `i`, grows by one at each place of the set.
  `OwnAnswerHolds` and `PipeExactHolds` are for a remote that puts each response in a record of its own (`~Coalesce`);
  `server_coalesce` shows `OwnAnswer` violated otherwise. `ServerTypes` and `CarriedHolds` need no such condition.

The assumptions are those named in the components: distinct null values (`"none"` of `Sender` is not a node),
disjoint sets of contexts or events, an irreflexive reference relation, limits that are numbers, and for
`SharedMutex` that the failed tries do not count `s` up to zero. Two theorems of `Server` assume `~Coalesce`, as said above.

Only model-checked: all liveness, and so every property that rests on fairness, which is beyond the prover.

## Limits

What the code does in cases which the properties leave out:

* Shared mutex: with upgrade locks and conversions used together, `try_unlock_shared_and_lock()` takes `u` from an
  owner of the upgrade lock and two contexts are inside. `unlock()` leaves `u` set, while `~shared_mutex()`
  asserts that it is null. `upgrade_lock.h` (lines 27-32) says that upon release of the second phase "the readers can reacquire their
  shared-lock again", also where the first phase is kept. The code disagrees: `unlock_and_lock_upgrade()` (`shared_mutex.h:152`) notifies
  nobody and `unlock_and_lock_shared()` one waiter, so readers which could share sleep on until the next `unlock()` (or, one
  at a time, `unlock_shared()` and `unlock_upgrade()`). `ReadersReleased` excepts that time (`downgraded`).
* Pool: `Attended` is stated until a worker is terminated: the note it passes on by `notify_one()`, which does
  not rotate the dock, may coalesce with that of the next push. After a second termination (`pool.set()` deletes many
  workers) a job can stay queued beside an idle worker: a
  terminated worker that finishes a job leaves `main()` without notifying `d` (`ctx.cc:1513`), and a job
  pushed to it in the meantime waits for the next push. A submitter can stay blocked in the same way: the notes of two pushes
  coalesce on a worker which takes the first job and is deleted, the second job keeps its place, and the submitter behind the soft limit
  sleeps beside a sleeping worker. `JobsRun` and `SubmitReturns` except exactly these states (`Forsaken`). `~pool()` may leave a job in the queue.
* Server: a peer whose name did not resolve refuses requests until its error is cleared. `err_clear()`, which every request
  that comes in from the errant server reaches (`matrix/resource.cc:75`, `burst.cc:42`), resets `op_fini` as well, but nothing
  resolves the name again: the next requests go to links which `link_add()` does not open (`server.cc:970`), and stay pending
  until they are cancelled. When `net::dns::resolve()` throws, `peer::resolve()` only logs it (`server.cc:1344`), with the same end.
  Requests on links of such a peer are `Stranded`. Between the change of the run level and `~init()`, an answer to the DNS query, an expired error of
  a submission, or `err_clear()` sets `op_fini`, with links left that are not closed. Then `peer::close()` returns at once (`server.cc:715`), so that nobody deletes the links and the wait of `~init()` (`server.cc:68`)
  does not end. `Closes` excepts links left so.
* VM: the event of a `vm.post` hook runs its NOTIFY hooks before the transaction it shares with its parent is written; if
  the parent fails then, readers were told of an event that does not exist. `AcceptedDurable` speaks of evaluations whose
  parents are accepted too.
* Sync: the bound of a `next_batch` token is looked at only after an event that was not for the client
  (`sync.cc:836`), so a poll that hits may respond with a token one past it. A poll sleeps on behind an event with
  `notify_clients = false` until the next one or its timeout.
* Fetch: the limit of the set is compared before the mutex is taken, so callers let in by one free place
  may exceed it. `attempt_limit` does not count the hint. An answer that comes between the end of the wait and the mutex is
  OBSERVED and not looked at again; the timeout of the request moves it on.
* Sender: `OneTxn` and `Carried` are stated for nodes where the two workers were not in `flush()` at the
  same time. Where they were, the same units go out twice and `q.clear()` of the one drops what was queued
  meanwhile. After a failed transaction the units behind it wait for the next event to the same server.

## Not modelled

* VM: the contents of the checks (authorisation, state), how `inject()` builds an event, and the
  columns other than the event data and the index. That present state is
  read before the previous transaction is written (a hazard at `vm_execute.cc:818`) needs them.
* Server: heads, contents and chunks of a response (a response is one unit), TLS, and the eviction of idle peers.
* Sync: phased and `full_state` syncs, the semaphore parameter, and what the items put into a response.
* Fetch: its shutdown, and the checks of an answer (good or bad, by choice).
* DNS, asynchronous file I/O, run levels, promises by themselves, latch and view, rooms: in the plan.
* Left out for good: parsers and grammars (pure functions over text), language bindings, the console, and the
  wrappers of RocksDB, OpenSSL, boost and the image libraries, whose behaviour is that of the library. They make up most of the
  lines of the repository.

## Plan

The sequencer came first because every other part of the server reads what it writes, the
synchronisation objects second because every other part waits on them, then the readers of the log
and the requests to other servers. What is left, in this order:

1. `Promise`: shared states, moves, broken promises, `when_any`, `when_all`; then `Latch` and `View` over `Dock`.
2. `Dns`: cache, waiters, resolver retries; `Aio`: submission against the limit of the kernel.
3. `RunLevel`: the order of levels and who waits for them; `Backfill` over `Pool`.
4. Operators for room heads, power levels and authorisation, against a reference definition.
