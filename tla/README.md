# A TLA+ model of MyRPC

MyRPC is a C++ RPC framework: a multiplexing client channel, a server on top of
a Reactor, a cluster channel with retries and circuit breakers, a registry and a
coroutine scheduler. This directory holds TLA+ modules translated from that
code, the TLC configurations that check them on small instances, and proofs that
TLAPS checks for every value of the constants. Paths below are relative to the
repository.

## 1. The system

| part | state | operations | what is hard about it |
|---|---|---|---|
| `RpcChannel` (one connection, many calls) | `pending_`, `freeSlots_`, `state_`, `outputQueue_`, `inputBuffer_`, reconnect, connect and deadline timers | `asyncCall`, `call`, `cancelCall`, `start`, `stop`, `doConnect`, `handleRead`, `handleClose`, heartbeat tick | five ways to complete a call on two kinds of threads; ids are slot numbers and are reused; timers and functors outlive their call |
| `EventLoop`, `RpcClient` | `pendingFunctors_`, `timers_`, `quit_` | `loop`, `runInLoop`, `queueInLoop`, `runAfter`, `runEvery`, `cancelTimer`, `quit` | functors and timers added while they are being run; wake-ups; `quit` before `loop` |
| `CircuitBreaker` | `state_`, window buckets, isolation | `allowRequest`, `onSuccess`, `onError`, `isAvailable` | results of old requests arrive after a transition; a probe may end without a verdict |
| `RpcServer`, `ConcurrencyLimiter` | in-flight counters, `stopping_` | `onMessage`, `handleRequest`, `releaseSlot`, `stopGracefully` | loop threads, worker threads and the stop timer interleave |
| `RpcClusterChannel`, `RetryPolicy` | instances, breakers, budget, per-call `completed` | `callAsync`, `attemptOnce`, `maybeRetry`, hedge timer, `applyInstances` | several attempts race for one completion while the instance list changes |
| `LocalRegistry`, `RegistryClient`, registry server | instances with leases, version, watchers | register, heartbeat, lookup, watch, expiry | expiry against heartbeat; changes between lookup and watch |
| `Scheduler` | ready queue, timers, coroutines | `spawn`, `coSleep`, `workerLoop`, `timerLoop`, `stop` | a coroutine may be resumed by another worker while it is being suspended |
| `TcpConnection`, `TcpServer`, `Acceptor` | connection state, buffers, connection map | read, write, shutdown, force close, idle sweep, stop | closing from several sides; back-pressure timers |
| `LoadBalancer` | weights, latencies, the hash ring | `pick` | shared by threads; the ring is a cache of what was healthy |
| `Serializer`, `Buffer`, `RpcFramer` | bytes | encode, decode | lengths and varints at their boundaries, frames cut anywhere |

How the parts meet: `RpcClusterChannel` sends every attempt through an
`RpcChannel`, chosen by a `LoadBalancer` among instances that `applyInstances` took
from a registry and that their `CircuitBreaker` admits. The channel writes frames of
`RpcFramer`, whose bodies `Serializer` encodes, to a socket; on the other side
`TcpServer` and `TcpConnection` hand them to `RpcServer`, which runs handlers in an
executor, in `main()` the coroutines of `Scheduler`.

## 2. Plan

One module per component, one passing run or two for each, and for each a module of proofs:

| part | module | proofs |
|---|---|---|
| a channel, and what it promises | `RpcChannel`, `CallContract` | `RpcChannelProofs`, `RpcChannelRouteProofs` |
| the breaker | `CircuitBreaker` | `CircuitBreakerProofs` |
| the server and its graceful stop | `RpcServer` | `RpcServerProofs` |
| calls to a cluster, balancers | `RpcClusterChannel` | `RpcClusterChannelProofs` |
| the registry, and a cluster that follows it | `LocalRegistry`, `Discovery` | `DiscoveryProofs` |
| coroutines | `Scheduler` | `SchedulerProofs` |
| values, frames and a connection | `Serializer`, `RpcFramer`, `TcpConnection` | `TcpConnectionProofs` |

The modules compose in three places. `Discovery` extends `LocalRegistry` with its
clients. `TcpConnection` extends `RpcFramer` with the bytes in transit, for any message
bodies, and `MCTcpConnection` gives it bodies that `Serializer` encodes and decodes.
`RpcClusterChannel` treats a channel as `CallContract` describes it (a
request is refused at once or completed once later), which `RpcChannel` is shown to
implement.

## 3. Modules

### CallContract

What a channel promises whoever issues calls: a call is issued once, and
completed at most once, alone, together with others, or at once when refused.

### RpcChannel

Models `src/RpcChannel.cpp` with the parts of `RpcFramer`, `Channel` and
`EventLoop` that its calls can tell apart.

* The table: `pending` and `freeSlots` are `pending_` and `freeSlots_`; the
  request id is the index in `pending`, exactly as in the code (slot + 1).
* The callers: `pc` says how far `asyncCall` has come. The three parts of
  `asyncCall` that other threads can interleave with (`Register`, the critical
  section; `QueueArm`; `QueueSend`) are separate actions. `SyncTimeout` is the
  timeout branch of `call`. A call issued by a callback on the loop thread runs
  its functors at once and is one action, `LoopCall`.
* The loop: `functors` is the FIFO queue of `EventLoop`, and each functor, timer
  callback and socket event is an action. `Release` is the body shared by
  `failPending` and `dispatchResponse`; `HandleClose` is a sub-action of all the
  handlers that call it.
* Bytes: a frame is a record with its id and, as history, the call it belongs to.
  A write may be accepted whole, in part, not at all, or fail. The remainder of a
  frame and a half-read response survive a close, as `outputQueue_` and
  `inputBuffer_` do (`torn`, `frag`), and are taken for part of the next
  connection's traffic.
* History variables: `how`, `by` and `doneCount` say how a call ended, for which
  call the completing event had been produced, and how often `done` ran.

Each critical section of `mutex_` is one step. The header of the module argues
why `handleClose`, which writes `state_` before it takes the mutex, may be one
step too. Time is not modelled: an armed timer may fire at any later moment,
which includes every order real time allows.

Left out: the destructor, a `connect()` that succeeds at once (a non-blocking TCP
connect reports `EINPROGRESS`), bodies, status texts and `latencyEmaMs_`. `call()`
on the loop thread is excluded by `NoSyncOnLoop`: it would wait for the thread it
blocks.

### CircuitBreaker

Models `src/CircuitBreaker.cpp` as `RpcClusterChannel::attemptOnce` uses it: a
request asks `allowRequest`, and its result is reported by `onSuccess`, `onError`
or, when it failed with `kUnknown`, not at all (`NoVerdict`). Each method holds the
mutex throughout and is one action. Time is an integer clock advanced by `Tick`;
`buckets`, `openedAt` and `lastIsolation` hold what the code's members hold.
`Outdated(k)` and `Rolled(k)` are the loop and the end of `rollWindowLocked`. The
history variables `recorded` (the results themselves), `failures` and `probeAt`
are what the properties compare the breaker's own data with. `isOpen` and
`isAvailable` only read.

### RpcServer

Models `src/RpcServer.cpp` and `ConcurrencyLimiter`, with what a graceful stop uses
of `TcpServer`, `ThreadPool`, `TcpConnection` and `EventLoop`.

* A message moves through labels `pc`: `queued` in the executor, `admit` past the
  `stopping_` check of `handleRequest`, `count` with a slot of the limiter, `handling`
  in its handler, `release` and `uncount` inside `releaseSlot()`, `reply` and `push`
  inside `TcpConnection::send()`. Between two labels lies one access to shared
  state, so that every interleaving of the executor threads is there. A body that
  does not decode and an unknown method go from `count` straight to `release`.
* A connection has its own I/O loop with a FIFO queue of functors (`loopQ`):
  `connectEstablished`, `sendInLoop`, `forceCloseInLoop` and `quit`. A loop that has
  ended runs nothing more; a functor pushed to it is lost. In the program that push
  is a use of a destroyed object, and nothing is claimed about it.
* `HandleClose` is a connection that ends by itself. On a hang-up `Channel::handleEvent`
  runs `handleClose` first and `handleRead` after it (`Hangup`, `HangupEnds`), so that
  messages may still arrive on a closed connection, whose answers are dropped.
  `SendInLoop` may also lose an answer because `write()` fails or the body is too long to
  encode (`unsent`).
* `stopPc` follows a thread started by `stopGracefully()`: it waits, calls
  `TcpServer::stop()`, which only the first caller carries out, posts `stopInLoop` to
  the main loop, quits and joins the I/O loops, and calls `onDone()`. `main()` calls
  `stopGracefully()` from a periodic timer and quits the main loop in `onDone()`.
* `std::size_t` wraps at `SizeT`; with `max_ = 0` the limiter's counter does wrap.
* The limiter is configured before the server starts. The time a handler takes
  decides only which status is answered, and is left out.

### RpcClusterChannel

Models calls of `src/RpcClusterChannel.cpp` with `RetryPolicy.h` and the balancers.

* A call has two chains of attempts, the caller's and the hedged backup. `pc` follows
  each through `attemptOnce` (`Snapshot`, then `FailFast` or `Send`), the completion
  (`ChannelCompletes`, `WrappedDone`, `MaybeRetry`) and the thread of a retry
  (`BackoffOver`). The chains share the status of one controller and one `completed`
  flag, and every access to these is a step, so that a chain may find the status the
  other has written. What the loop thread runs (`loop`) excludes its other work.
* `Snapshot` reads the instance list, chooses any set of healthy instances, and picks
  as the balancer does: the first healthy one, some healthy one, or one of the hash
  ring, which is rebuilt only when the number of instances changes. With recovery
  configured an attempt may go through although nothing is healthy.
* `tokens` is the retry budget; `TryConsume` and `Refunded` are its CAS loops.
* `timed` are the calls with a timeout. `CallReturns` is the end of the synchronous
  `call()`: it waits for `done()`, or until two windows are over, which for a call with a
  timeout is after its first attempt was completed and for one without may be any time.

### LocalRegistry and Discovery

`LocalRegistry` models `src/LocalRegistry.cpp` for one service: leases, the version
and the one-shot watchers. Each operation is one step under the lock; the callbacks
taken out (`due`) run afterwards. `Discovery` adds `setDiscovery`, `applyInstances`
and `resubscribeWatch` of the cluster channel and, when the registry is remote,
`RegistryClient::watch` with its `watchLoop` threads, the long polls of the registry
server, and lookups that fail on the way or on the way back. `list`, `created` and
`stopped` are the instances with their channels. `InIdOrder` is the order of the
`std::map` that `lookup` iterates over. Every instance has an `address`, which it may
share with another: `applyInstances` looks channels up by address (`NextList`), so of two
instances at one address each gets a channel if the address is new, and both get the
first channel that is listed for it otherwise.

### Scheduler

Models `src/Scheduler.cpp`: `workerLoop`, `coSleep`, `coroutineEntry`, `timerLoop`
and `stop`. A step is what a thread does under one lock, or one access to shared
state. That `coSleep` pushes the coroutine, notifies, and only then saves its context
are three steps (`CoSleep`, `NotifySleep`, `Yield`). The timer thread between reading
`running_` and waiting is a state of its own (`committed`), because `stop()` notifies
without the lock. `spawn()` does not look at `running_`, and `stop()` empties the ready
queue without its mutex, in two steps (`StopReapsReady`, `StopReapsAsleep`), so that a
coroutine may be spawned before, between and after them. The history variables `shared`
and `late` name the coroutines that two workers had at one time, and those spawned once
`stop()` had begun to reap.

### Serializer, RpcFramer and TcpConnection

`Serializer` and `RpcFramer` are operators: writing and reading values of every type,
varints and zigzag, headers, and `DecodeFrames`, which takes the complete frames off a
buffer, one `DecodeRound` per round of the loop of `decode`. The sizes of the code are constants (`Group`,
`Word`, `VarintMax`, `DoubleBytes`, `MaxBodyLen`), so that every boundary is met by
short values.

`TcpConnection` models `src/TcpConnection.cpp` with the framer on both ends; a message
is a body, one of the constant `Bodies`. An
application thread checks the state and queues a functor (`SendCheck`, `SendQueue`),
the loop thread sends directly, writes what the kernel accepts, and closes on end of
file, by `forceClose` or by the slow-consumer timer; the receiver reads pieces of any
size. When the peer has closed, `HandleHangup` is the whole of `Channel::handleEvent`,
which may run `handleClose` twice and `handleWrite` after it. `Shutdown` models
`shutdown()`, which the class offers and no code of the repository calls. `taken` is the order in which `sendInLoop` accepted messages. `MCTcpConnection`
encodes the values of the run as bodies, and its property `ReceivedAsSent` decodes
what was delivered.

## 4. Runs

| run | instance | shows |
|---|---|---|
| `rpc_channel_calls` | a call from the loop thread with a deadline and a synchronous call; two connections, heartbeats, `stop()` | `TypeOK`, `DoneAtMostOnce`, `TableExact`, `SlotAccounting`, `MatchedById`, `ConnectionFate`, `ClosedMeansDone`; `HonoursContract`: the channel implements `CallContract` |
| `rpc_channel_liveness` | two calls of other threads, both with deadlines and one synchronous; two connections, `stop()` | `DeadlineArmed`, `CallsComplete` |
| `rpc_channel_late_response` | two calls | `LateResponseDropped` is violated |
| `circuit_breaker` | five requests, six units of time, slices of 2 in a window of 4, isolations 1, 2, 3 | `WindowCounts`, `BucketsBounded`, `Backoff`, `TripJustified`, `ProbeSpacing` |
| `circuit_breaker_probe_slot` | four requests | `HalfOpenHasProbe` is violated |
| `rpc_server` | two messages of any type, one connection, two racing stops, a limit of one | `SlotsExact`, `HandlersBounded`, `DrainedBeforeClose`, `AnsweredOnce`, `ClosedBeforeJoin`, `StopCompletes` |
| `rpc_server_on_done` | two racing stops | `OnDoneAfterClose` is violated |
| `cluster_channel` | a call, idempotent or not, with a timeout or without, up to two instances, every balancer, two attempts per chain, one token, hedging, one change of the list | `DoneOnce`, `SendsBounded`, `RetriesBudgeted`, `SuccessIsReal`, `BackupElsewhere`, `CallCompletes` |
| `discovery` | two instances at one or two addresses, three threads, a registry in the process or remote | `WatchersUpToDate`, `ChannelsAccounted`, `ExpiredLeaves` |
| `scheduler` | two coroutines that sleep up to twice, two workers, `stop()` and `spawn()` at any time | `OnePlace`, `DeletedOnce`, `CoroutinesFinish`, `WorkersEnd` |
| `scheduler_two_workers` | two coroutines, two workers | `NeverOnTwoThreads` is violated |
| `connection` | a value of each type at its boundaries, then a short one; or three short ones | `DeliveredInOrder`, `NothingForgotten`, `ReceivedAsSent`, `ClosedForGood`, `SlowConsumerGoes` |

### Bounds

* Channel: two calls are enough for a slot to be freed and reused while an event for
  its first occupant is under way, and two connections for bytes, functors and timers
  of the first to reach the second. In `rpc_channel_liveness` the deadline functor of a
  call may find its slot empty, or taken by the other call. `MaxConnects` and `MaxQueue`
  bound the reconnects and the frames queued by heartbeats, which are unbounded in the
  code.
* Breaker: two requests trip the circuit, a third is granted by the tripping call
  itself and may report late, and two are probes, so the isolation reaches its cap;
  six units let a bucket leave the window. Requests are interchangeable (`SYMMETRY`).
* Server: two messages compete for one slot, and two stops are enough for the race on
  `TcpServer::stop()`. `SizeT = 4` exceeds the number of requests, as the width of
  `std::size_t` does. A server without a limiter, or with a limit of 0, is covered by the
  proofs.
* Cluster: one call already has two chains that race for its controller, its flag and
  the single token; two instances let the backup go elsewhere, and one change of the
  list moves indexes under it. The hash ring is stale at a second attempt at the
  earliest. Several calls share the budget, whose bound is proved for any number of
  them, and the ring.
* Discovery: three agents are `setDiscovery` and two `watchLoop` threads that apply
  lists at once; four versions let the set change in every window between a lookup
  and the next watch. `MaxVersion` and `MaxAgents` bound what the code does not.
  Two instances are enough to share an address.
* Scheduler: two workers can have one coroutine at a time, which is the race of
  `scheduler_two_workers`; the passing run goes through it. Two coroutines let one run
  while another is queued, asleep or in the hands of the timer thread, and the proofs
  are for any number.
* Connection: `Window = 4` is shorter than any frame with a body, so that writes are
  partial, and `Mark = 6` is crossed by two short messages. `Str(40)` exceeds
  `MaxBodyLen`. Two messages from different threads show every order; the third lets
  one wait behind a pending one.

`CHECK_DEADLOCK FALSE`: in each of these systems calls, requests, versions or
messages run out, or the server, scheduler or connection has stopped.

### Fairness

* Channel: the loop goes on running queued functors and expired timers
  (`EventLoop::loop` does both in every iteration), and a thread inside `asyncCall` or
  waiting in `call` goes on. Nothing is assumed of the peer or the socket:
  `CallsComplete` holds for calls with a deadline and for synchronous calls precisely
  because their timers do not depend on either.
* Server: the I/O loops, the stop threads, and the main loop while it has not ended,
  go on; nothing is assumed of handlers, because the deadline of the stop does not
  depend on them.
* Cluster: threads run and backoffs end; for calls with a deadline the channel
  completes what it took, which is `CallsComplete` of the channel. The loop thread
  serves both chains in turn, hence strong fairness for what waits for it.
* Discovery: the sweeper runs every second and the threads that run discovery code go
  on. No lookup has to succeed.
* Scheduler: threads run, deadlines pass, and a coroutine does not run for ever, which
  is what a cooperative scheduler asks of its coroutines.
* Connection: an armed timer fires. Nothing is assumed of the peer.

### What the violated runs show

* A response to an expired call completes the call that reuses its slot. The id
  is the slot number, so the check `pending_[slot]->id != requestId` is always
  false for an occupied slot (`src/RpcChannel.cpp:258`); the header says that a
  late response "is silently dropped" (`include/RpcChannel.h:26`). A deadline timer,
  which is never cancelled, expires the slot's next call by the same confusion.
* A half-open probe that fails with `kUnknown` is reported to the breaker by no one
  (`src/RpcClusterChannel.cpp:255`), so the circuit stays half-open and denies every
  request: "the single probe slot is taken until it resolves"
  (`src/CircuitBreaker.cpp:38`) does not hold, and the instance is out of use unless
  an older request still reports.
* Of two racing `stopGracefully()` calls the second finds `started_` cleared and calls
  `onDone()` at once (`src/RpcServer.cpp:54`, `src/TcpServer.cpp:39`), while the header
  says "onDone is invoked when shutdown completes" (`include/RpcServer.h:56`). In
  `main()` it then quits the main loop, and if the loop ends before `stopInLoop` ran,
  the first thread waits for ever. `main()` makes the second call whenever draining
  takes longer than 200 ms.
* A coroutine that goes to sleep is on the heap before `swapcontext` has saved it
  (`src/Scheduler.cpp:103`). With a second worker it may be resumed there while the
  first is still on its stack: "it must never run on two threads at once"
  (`include/Scheduler.h:61`).

What remains true beside these: `MatchedById` (as long as no call ends in another way
than by its response, responses are matched correctly in any order); `OnePlace`, through
the race of two workers, and `DeletedOnce` for the coroutines that did not meet it.

Some properties are narrower than one might wish, because the code does not do more:

* `SuccessIsReal` is about `done()`, and about `call()` with a timeout. `call()` of the
  cluster without one returns true although nobody answered: no timer ends the request,
  both windows of 15 seconds pass, and the status is still the `kOk` it starts with
  (`src/RpcClusterChannel.cpp:282`).
* The `completed` flag guards `done()` only: a slow hedged attempt still writes the
  shared controller afterwards.
* `BackupElsewhere` asks that the list stays as it is. A backup excludes an index, and
  when an instance before it was removed since, the index is another's.
* No property says that a call finds an instance when one is healthy. The ring of the
  hash balancer is rebuilt when the number of instances changes and not when their
  health does (`src/LoadBalancer.cpp:95`).
* The last part of `ChannelsAccounted` asks for an address per instance. Two ids at one
  address, as a restarted server has until its old lease ends, get two channels, and the
  second is neither listed nor stopped after the next list
  (`src/RpcClusterChannel.cpp:81`).
* A change of the registry between a lookup and the next watch is not seen until a later
  change, so `WatchersUpToDate` speaks of the watchers that are there.
* `DrainedBeforeClose` is about requests that were counted when the stop began, and about
  their slots. One between its check of `stopping_` and its count is handled without a
  promise. The done callback releases its slot before it sends (`src/RpcServer.cpp:167`,
  `180`), so a graceful stop may close the connection in between, and `AnsweredOnce`
  allows that answer to be lost.
* `ClosedForGood` begins after the event that closes, because a hang-up runs `handleClose`
  twice.
* No property says that `Scheduler::stop()` returns, because its notification of the
  timer thread can be lost (`src/Scheduler.cpp:47`), and `DeletedOnce` says nothing of a
  coroutine spawned while `stop()` reaps.

## 5. Proofs

Every safety property that a passing run checks is proved for all values of the
constants that the modules' assumptions admit, except `ReceivedAsSent`. The proofs use
these named assumptions and nothing else.

### The channel

`RpcChannelProofs` and `RpcChannelRouteProofs`, for any set of calls, any bounds and any
interleaving, from `CallsAssumption`, `NoSyncOnLoop` and `ConfigAssumption`:

| theorem | states |
|---|---|
| `TypeCorrect` | `[]TypeOK` |
| `DoneOnce` | `[]DoneAtMostOnce` |
| `NoCallIsLost` | `[]TableExact` |
| `SlotsAccounted` | `[]SlotAccounting` |
| `ClosedCompletes` | `[]ClosedMeansDone` |
| `ImplementsContract` | `Spec => HonoursContract` |
| `ResponsesMatched` | `[]MatchedById` |
| `FateDecided` | `[]ConnectionFate` |
| `DeadlinesArmed` | `[]DeadlineArmed` |

`TableInv` joins exactness of the table, the accounting of slots,
single completion and the fact that a closed channel has an empty table; none of
these is inductive alone (that `done` runs once needs that a finished call is not
in the table, which needs that a free slot is handed out once). Every step of
`Next` is first shown to be of one of six kinds by its effect on the table
(`StepKinds`): it leaves the table alone, releases one slot, closes, places a
call, places a call and closes, or refuses a call. The invariant and the
refinement are then proved per kind, not per action.

`RouteInv` follows a request from its functor over `outputQueue_` and the wire to a
response that was read in part: it is in one of these places only, once, and carries
the id of its call (`Way`). As long as calls end by responses only, a request that is
under way belongs to a call that is not done (`Settled`); so its slot has not been
given to another call, and the response finds its own. This is the step that fails
after a deadline, as `rpc_channel_late_response` shows. `FateInv` adds for the
connection that `reconnectEnabled` is cleared once `stop()` was called and its functor
is no longer queued, and that from then on the channel is closed without a reconnect
timer.

### The breaker

`CircuitBreakerProofs`, for any window, slice, isolation and set of requests, from
`BreakerAssumption`:

| theorem | states |
|---|---|
| `BreakerTypes` | `[]TypeOK`, with the range of the isolation |
| `BucketsStayBounded` | `[]BucketsBounded` |
| `ProbesAreSpaced` | `ProbeSpacing` |
| `WindowCountsResults` | `[]WindowCounts` |
| `TripsAreJustified` | `TripJustified` |
| `IsolationDoubles` | `[]Backoff` |

`BreakerInv` generalises `BucketsBounded` to any two buckets (`Spaced`), because
the first buckets are dropped and the bound must hold from the new first one on;
`RolledWindow` and `RecordedWindow` show that rolling and recording keep that
shape. For the spacing of probes it adds that an open circuit opened no earlier
than its last probe was granted.

`WindowInv` compares the buckets with the results themselves: every bucket counts
exactly the results that fell into its span, and a result in no bucket is older than
the window less a slice. Since buckets are apart, their results are disjoint, and
`TallyOfSizes` turns the sum of `tally` into the size of the union. That the recursive
function behind `Tally` exists, and what it sums, is proved by induction with a set in
the place of the predicate (lemma `Induction`); the same lemma gives the powers of two
of `Backoff`.

### The server

`RpcServerProofs`, for any set of requests, connections and stop calls and any limit,
from `ServerAssumption` (finitely many requests, fewer than `SizeT`):

| theorem | states |
|---|---|
| `ServerTypes` | `[]TypeOK` |
| `SlotsStayExact` | `[]SlotsExact` |
| `HandlersStayBounded` | `[]HandlersBounded` |
| `StopDrains` | `[]DrainedBeforeClose` |
| `LoopsEndClosed` | `[]ClosedBeforeJoin` |
| `MessagesAnsweredOnce` | `[]AnsweredOnce` |

`Moved` says how the number of slot holders and of requests in flight changes when
one message changes its label; `SlotInv` adds to exact counters that `current_` never
passes the limit, from which the bound on handlers follows. `DrainInv` adds that a
request in flight when the stop began is never at a label before `count` again, so
that once `inflight_` was seen at 0 none of them is in flight. `QueueInv` describes the
queue of a loop: `connectEstablished` comes first, and a `quit` is queued only behind a
close or on a connection that is closed or was never there. `AnswerInv` says that the
answer of a message is queued on its own connection only, once, and until it is written,
lost to a failure or dropped by a closed connection.

### The cluster

`RpcClusterChannelProofs`, for any finite set of calls and any number of instances,
attempts and tokens, from `ClusterAssumption`:

| theorem | states |
|---|---|
| `ClusterDoneOnce` | `[]DoneOnce` |
| `ClusterSendsBounded` | `[]SendsBounded` |
| `ClusterRetriesBudgeted` | `[]RetriesBudgeted` |
| `ClusterSuccessIsReal` | `[]SuccessIsReal` |
| `ClusterBackupElsewhere` | `[]BackupElsewhere` |

The inductive invariant `IInv` has one part per argument. `Finished`: `done()` ran if
and only if the flag is set, and a chain ends only then. `Sends`: a chain has handed
over at most as many requests as attempts (one less before it sends), only idempotent
calls reach a second attempt, and the backup is idle as long as the first attempt of
the primary has not taken its snapshot, so that it is started once. `Budget`: tokens
and retries together exceed the budget by at most the chains that succeeded; a
succeeded chain is terminal, so that each is counted once. `Real`: a call that nobody
answered and whose status is still the initial `kOk` has no chain that came back. Each
part is shown to be preserved per action, after a lemma that reduces a step to the
chain it moves (`SendsLocal`, `RealLocal`, `BudgetKept`). `Aims` adds for the backup
that until it has taken its snapshot the index it is going to exclude is that of the
primary's target, and that an unchanged list has each instance at its own index.

### Discovery

`DiscoveryProofs`, for any finite set of instances and any number of threads, from
`DiscoveryAssumption`:

| theorem | states |
|---|---|
| `RegistryWatchersUpToDate` | `[]WatchersUpToDate` |
| `DiscoveryChannelsAccounted` | `[]ChannelsAccounted` |

No channel is both listed and about to be stopped, and when no two instances share an
address every one is listed, or one thread is about to stop it, or it is stopped
(`Apart`). That `applyInstances` keeps this needs that a channel is listed for one address
only and a lookup finds no instance twice (`NoTwins`), that a reused channel is the first one listed
for its address (`FirstHas`), and that new channels are numbered without gaps
(`Numbering`).

### The scheduler

`SchedulerProofs`, from `SchedulerAssumption`, for any number of coroutines and workers:
`SchedulerOnePlace` (`[]OnePlace`) and `SchedulerDeletedOnce` (`[]DeletedOnce`). The
invariant says that the queue, the heap, the timer thread's hands and the coroutines
inside a worker are disjoint and without repetition. `WhoReaps` adds, for a coroutine that
two workers never had at one time and that was not spawned while `stop()` reaped, that no
worker has it once it is deleted, and that once it is finished it is deleted, or is what
a worker has just come back from. Of the others nothing of the
kind is true: two workers may come back from the same coroutine and both delete it.

### A connection

`TcpConnectionProofs`, for any bodies, any sequence of messages, any size of the kernel's
buffers and any way of cutting the stream, from `FramerAssumption` and
`ConnectionAssumption`:

| theorem | states |
|---|---|
| `StreamInvariant` | `[]IInv` |
| `StreamKeepsOrder` | `[]DeliveredInOrder` |
| `StreamForgetsNothing` | `[]NothingForgotten` |
| `StreamClosedForGood` | `ClosedForGood` |

The argument names the stream: there are a sequence `S`, the frames of all that
`sendInLoop` took, and their ends `E` in it. The receiver's input, the kernel's buffer
and `outputBuffer_` are consecutive parts of `S`; the first begins where the last
delivered message ends and holds no whole message (`Flow`). `FlowTakes`, `FlowWrites` and
`FlowReads` say what a send, a write and a read do to it. The last rests on `DecodeGets`:
the rounds of `decode` find the messages whose frames are complete, by induction over the
rounds (`RoundGets`). `Output` ties the flag `writing_` to the buffer and puts the end of
the stream behind its last unit. `Control` says that a closed connection is not watched
by the poller and that no functor establishes it again.

### Only model-checked

* Liveness, which is out of the prover's reach: `CallsComplete`, `StopCompletes`,
  `CallCompletes`, `ExpiredLeaves`, `CoroutinesFinish`, `WorkersEnd`,
  `SlowConsumerGoes`.
* `ReceivedAsSent`: reading and writing values recurse into each other over nested
  values, so `Serializer` has recursive operators, which the prover does not handle. That
  a delivered body is the body that was sent is part of `StreamKeepsOrder`; that
  `Decode` inverts `Encode` is checked on the values of the run only.

## 6. Not modelled

* `EventLoop`'s timer heap and wake-up descriptor: the modules that queue functors or
  arm timers have these as actions, in FIFO order and at any later time; the heap and
  the `eventfd` are the implementation of exactly that. `quit()` called before `loop()`
  is overwritten by it; no module starts a loop late.
* `RegistryClient`'s renewal of its own leases, and the text of registry messages:
  each renewal is `RenewLease`, and the messages are plain lists of fields.
* The choice among healthy instances by weight or latency: any healthy one may be
  picked, and the members that decide are shared without a lock.
* The idle sweep of `TcpServer`: when server and connections share one loop, it erases
  through an iterator that `forceClose()` has invalidated, and a model could state
  nothing about what follows.
* `ThreadPool::submit` and the router's table: a task is an action of the module whose
  code it runs; a lookup is the choice between a handler and an error.
* `Serializer::toJson`, byte order of header fields: output and layout.
* `Histogram`, metrics, tracing, logging and the memory pool: independent counters,
  ids and output, with no protocol of their own; the pollers wrap system calls, and
  readiness is a choice of the environment in every module; services and demo programs
  are straight-line users of the library.
