# A TLA+ model of the coroutine / io_uring RPC framework

This directory holds TLA+ modules that model the framework's components, TLC
configurations that check them on small instances, and TLAPS proofs of the
properties that matter most for instances of any size. `PROJECT.json` lists
every run, maps every definition to the source lines it models, and lists the
hazards the code is exposed to together with the properties that cover them, or a
note saying what the code does where no property could hold.

## The system and its parts

| Part | Source | What it does | Module |
|---|---|---|---|
| io_uring wrapper | `io/io_uring.hpp` | submission, completion and the callback table of one ring | `IoUring` |
| Event loop | `io/event_loop.hpp` | the single loop on the global ring, with tasks and timers | `EventLoop` |
| Event loop pool | `io/event_loop_pool.hpp` | one loop and one ring per thread, tasks handed over between threads | `EventLoopPool` |
| I/O awaiters | `io/async_io.hpp` | one operation each; the callback resumes the coroutine | `Awaiters` |
| Timeout awaiters | `io/timer.hpp` | `TimeoutAwaiter`, `TimedRecv`, `TimedSend`, `WithTimeout` | `Awaiters` |
| Thread awaiters | `coroutine/awaitable.hpp` | `AsyncAwaiter`, `SleepAwaiter`, `WaitUntilAwaiter` | `Awaiters` |
| Timing wheel | `io/timer.hpp` (`TimingWheel`) | hashed wheel of timers: add, cancel, tick | `TimingWheel`, `TimerService` |
| Scheduler | `coroutine/scheduler.hpp` | worker threads with work-stealing queues of coroutine handles | `Scheduler` |
| Task | `coroutine/task.hpp` | a lazily started coroutine and its result | `Task` |
| Generator | `coroutine/generator.hpp` | a coroutine that yields values to a loop | `Generator` |
| Synchronisation | `coroutine/sync.hpp` | mutex, semaphore, condition variable for coroutines | `AsyncSync` |
| Buffers | `net/buffer.hpp` | byte queues over shared blocks, chains of them | `Buffer` |
| Connection | `net/connection.hpp` | the state of one socket | `TcpServer`, `TcpClient`, `Buffer` |
| Connection pool | `net/connection_pool.hpp` | blocking pool of connections to one endpoint | `ConnectionPool` |
| TCP server | `net/tcp_server.hpp` | accept loop, limit, handlers | `TcpServer` |
| TCP client | `net/tcp_client.hpp` | connect, request, reconnect, pooled mode | `TcpClient` |
| RPC protocol | `rpc/protocol.hpp` | messages and their frames | `Protocol` |
| RPC server, client, registry | `rpc/rpc_server.hpp`, `rpc_client.hpp`, `service_registry.hpp` | framing, dispatch, calls | `Rpc` |
| Serializer | `rpc/serializer.hpp` | binary encoding of values | `Serializer` |
| Load balancers, discovery | `rpc/loadbalance`, `rpc/registry` | choice of an endpoint | `LoadBalancer` |
| IDL parser | `idl/idl_parser.hpp` | line-driven parser | `IdlParser` |
| IDL code generator | `idl/code_generator.hpp` | prints C++; what the printed struct code does is in `Serializer` | |

How they interact: coroutines (`Task`) suspend in awaiters, which prepare an
operation on a ring and store a callback in its table; an event loop reaps
completions and runs the callbacks, which resume the coroutines. The event loop
pool runs one such loop per thread and hands accepted connections from the main
thread to the workers; the scheduler is an alternative executor. `TcpServer` and
`TcpClient` are coroutines of a loop over `Connection`s, the client optionally
over the pool, which blocks its thread; the RPC server and client exchange the
frames of `Protocol` over one connection each. The kernel and liburing are
external: submitted operations complete in any order, or never.

Modules compose where the code does. `Rpc` is client, server, registry and the
two byte streams between them, over `Protocol`. `TcpClient` contains the pool's
accounting as its coroutines see it. `Awaiters` is the awaiter, the ring's
deliveries and the kernel's linked timeouts together. `TimingWheel` is shown to
implement `TimerService`.

## The modules

Names of variables and constants are those of the source; an action is one
critical section, one atomic access, or what a coroutine does between two
suspensions, so steps interleave where the code lets them. Where the code's
behaviour is undefined (a destroyed frame used, a race on unsynchronised data) a
history variable records it and, as stated in the module, the model stops. A
comment `mutant` marks an operator that is not part of a model: a plausible bug,
used to show that a property would notice it.

### Executors and I/O

**`Scheduler`.** Each queue has its own mutex, so `push`, `pop`, `steal` and
`size` are steps. `schedule` is `Enter`, one `Scan` per queue, `Push`, `Notify`:
the sizes may be stale when the handle is pushed. `worker_loop` is `Loop`, `Pop`,
one `Steal` per queue, then `wait_for`: `Lock`, one `Test` per queue, `Block`, and
`Timeout` or a notification. `Notify` and `StopStore` do not take `cv_mutex_`, as
in the code, so a notification between the last `Test` and `Block` is lost. A
resumed coroutine finishes or reschedules itself through `yield` or
`schedule_on`; `thread_id` ranges over -1 .. `thread_count_`, both out-of-range
values included.

**`IoUring`.** One ring and the thread that runs its loop. An operation is the
value of `next_callback_id_` when it was prepared; its entry carries `user_data`,
that number modulo `kMaxCallbacks`. `Operate` and `OperateFails` are any
`prepare_*` followed by `submit()`, which may throw and leave the entry queued;
when such entries fill the queue, `prepare_*` throws and `RunOnce` neither arms a
timeout nor submits. `RunOnce` arms the timeout and submits, `Reap` takes
completions one by one, and callbacks prepare further operations before `CallbackReturns` marks the
completion seen. `MessageArrives` is a completion another ring sent by MSG_RING.
`ran` and `lapped` are history: which callback each completion ran, and which
operations lost their slot while they were pending.

**`EventLoop`.** The loop thread reads the time, takes `timers_mutex_`, fires the
due timers one by one, swaps out the posted tasks, runs them, and waits in the
ring; other threads `post`, `spawn`, `set_timer` and `stop`. `post` pushes, and
its `wakeup` is a second step that may throw to the poster. An exception of a
task (`TaskThrows`: the rest of its batch goes with it), of a timer callback or of
the ring's `submit()` (`RingThrows`) leaves `run()`, which may be called again. A
timer callback that calls `set_timer` waits for the mutex its own thread holds
(`pc = "locked"`). Of the ring the entries are kept that failed submits leave in
its queue: on a full queue `run_once()` waits without a timeout (`RingBlocks`).
`spawn` is a post whose lambda owns the task: when it is popped, the frame goes.

**`EventLoopPool`.** `Dispatch`, `Insert`, `Submit`, `SubmitThrows`, `Erase` and
`Push` are `dispatch_to_worker` on the main thread with its fallback; `Post` and
`Push` are posts by other threads. A worker calls the tasks of `pending_tasks_`
while it holds `tasks_mutex_` (`LockPending`, `RunPending`, `UnlockPending`), then
swaps the queue out and runs it without (`Swap`, `RunQueued`). A task in `Nested`
posts to its own worker (`InnerPost`). `StopFirst` and `Join` stop the workers one
after the other. The wakeups are not modelled as such: a worker waits in
`run_once(10)` for 10 ms at most, so they change when it goes on, not whether.

**`TimingWheel` and `TimerService`.** `TimerService` is the promise: a timer set
for a tick is run at that tick, or cancelled before, and nothing else happens to
it. `TimingWheel` is the code: `add_timer` reads `current_tick_` without the mutex
(`AddRead`) and inserts later (`AddInsert`); `tick` collects what has expired in
its slot (`Collect`) and runs the callbacks after unlocking (`RunCallback`).
`Spec` has any interleaving and any delay; `SerialSpec` has callers that do not
tick while a timer is being added, and the refinement is stated for positive
delays.

### Coroutines

**`Awaiters`.** One coroutine performs several awaits of any of the eight kinds.
An awaiter object lives while its coroutine waits in it, and longer if it is a
variable of the coroutine (`kept`); `ops` holds what its await has under way: the
main operation, a timer, and the nop that `TimedSend` submits after them and that
alone resumes its coroutine. The kernel links operation and timer of `TimedRecv`
and `TimedSend`, so that completing one cancels the other. `CancelTimeout` of
`WithTimeout` may miss: the awaiter keeps the raw callback id, the entry carries
it modulo `kMaxCallbacks`, and failures are swallowed. `Deliver` runs the callback
of one completion on its awaiter; `done_` decides whether it resumes the
coroutine. `DeliverLate` is a callback whose awaiter is gone (`late`): it may write
to the awaiter that lies there now, and resume the coroutine or not, whatever
`done_` was.

**`Task`.** A main thread that runs plain code and a loop thread that resumes
coroutines whose operation has completed; either stack holds coroutines that
resumed one another. `start`, `get`, `co_await`, `cancel`, destruction and the
final awaiter are steps of their loads and stores; who calls what is the users'
choice, so misuse happens and is recorded in history (`used`, `eager`,
`cancelled`, `abandoned`, `raced`).

**`AsyncSync`.** Mutex, semaphore and condition variable. `unlock`, `release` and
`notify_*` resume waiters inside the call while they hold `waiters_mutex_`, so a
resumed coroutine runs "inline" and one that calls the same object waits for its
own thread (`stuck`). `count_` is a `size_t` and wraps at `WordSize`.

**`Generator`.** A body that yields, returns or throws, and range-for loops over
it: each begins with `begin()`, which resumes the body wherever it stands, may be
left by a `break`, and may contain another loop over the same generator. Resuming
a body that is done is undefined, and the model stops there.

### Network

**`ConnectionPool`.** A *user* is one use of the pool, from `acquire()` to
`release()`; a thread that holds two connections is two users. `InCall` are the
users inside `acquire()`, each of which occupies one of `NumThreads` threads.
`acquire()` is split at the point where it drops `mutex_`: `AcquireNew` passes the
limit test, `Create` makes the connection and increments `active_connections_`,
`CountTotal` increments `total_connections_`. `AcquireIdle` is the loop over the
deque that skips and uncounts dead connections; `AcquireWait`, `Wake` and
`SpuriousWakeup` are `cv_.wait`; `NotifyOne` picks any waiter. `Fail` is a
connection closing because an operation on it failed, `Shutdown` may come at any
time; `upsets` is history and records that they happened. The counters are
`size_t` and wrap at `WordSize`.

**`TcpServer`.** `start` and `stop` from any thread: the test of `running_` with
the new socket (`start`), the store (`StartRuns`) or a failure (`StartFails`), and
the closing of `listen_fd_` (`StopCloses`) are separate steps, so that two starts
may pass the test together and leave one socket without a name (`leaked`). The
accept loops that the starts leave on the event loop, the backlog of each
listening socket, the handler coroutines and `close()`, whose compare-and-swap,
store of Closed and callback are separate steps of the handler and of any other
holder. Coroutines are taken to survive `spawn()`; `EventLoop` models what
`spawn()` does to them.

**`TcpClient`.** Coroutines of one loop share a client; each await is a point
where others run. They call `send`, `recv`, `send_all` (which goes on after a
partial write while the connection is open) and `request`, a send and then a recv;
a failing operation goes through `try_reconnect` with its sleeps, or in pooled
mode gives the connection back. `acquire()` of the pool blocks the whole loop
(`blocked`).

**`Buffer`.** Buffers over blocks that copies share. `write` is
`ensure_writable` (fit, compact, or grow) and the copy. A holder that compacts a
shared block or writes below another holder's end rewrites what the other sees:
`spoiled`, where the model stops. `async_read` takes the pointer and the size and
waits; when the bytes come (`ReadCompletes`) they go to that place, whatever has
become of the buffer meanwhile. `as_string` and `to_string` follow `block_` and
are not defined for a buffer without one.

### RPC, codecs and tools

**`Protocol` and `Rpc`.** A frame is a sequence of cells, the pieces in which a
stream can be cut: two of header, one of meta data, any number of payload. `Rpc`
has the server coroutine (`handle_connection`, `handle_message`) with every early
exit, the client's `call`, `async_call` and `disconnect`, the heartbeat of another
peer (the server answers it, no client here sends one), and a registry that other
threads change. The reads and writes are single `recv` and
`send` calls in the code and may move fewer bytes than asked; the model allows
that `MaxTorn` times, anywhere.

**`Serializer`.** `encode` and `decode` as recursive operators over bytes of a
small radix; a struct is a sequence of fields, as in the generated code; the
transport delivers any prefix.

**`LoadBalancer`.** Static discovery, a balancer updated from it, threads that
select; the atomic counter wraps at `WordSize`.

**`IdlParser`.** The three line loops over the kinds of lines they tell apart,
checked against a definition of what a well-formed document defines.

## What the runs check

`MCStructures`, `MCIo`, `MCCoroutines` and `MCNetwork` hold several modules side
by side; the variable `unit` chooses one in the initial state and only that one
moves, so a run explores the modules one after the other, not their product.
Their properties conjoin the type invariant of the module they are about.
`MCConnectionPool`, `MCScheduler`, `MCTask`, `MCData` (Buffer, Generator, IDL
parser) and `MCBalancer` instantiate a model and give its properties names that
clash with no other model's; the runs and the proof modules extend them alike
(`MCStructures` extends `MCData` and `MCBalancer`, `MCCoroutines` extends
`MCTask`), so both are about the same definitions.

| Run | Properties | Instance |
|---|---|---|
| `pool` | `PoolTypeOK`, `ExclusiveOwner`, `Accounting`, `BoundedOvershoot`, `WaiterNotStranded` | 4 users on 2 threads, 3 connections, limit 1, failing connections, `shutdown()` at any moment |
| `wheel_serial` | `OnTime`, `ImplementsService` | serial callers, delays of 1 to 4 ticks on 3 slots, so beyond one turn |
| `structures` | wheel: `Consistent`, `OneFate`, `WithinOneTurn`; buffers: `HoldsUnread`; balancers: `SelectsFairly`; serializer: `RoundTrip`; parser: `ParsesQuoted`; generator: `SeesAll` | 2 threads on 2 slots with delays from 0 to more than a turn; 2 buffers over 2 blocks, a chain of 2, a read under way; 2 hosts, weights 0 and 2; 3 values, bytes cut anywhere; all documents of 5 lines; 4 yields, 3 loops |
| `scheduler` | `OnePlace`, `EveryTaskRuns`, `StopReturns` | 2 workers, a client, 2 coroutines, 2 reschedules, `stop()` at any moment |
| `io` | ring: `OwnCallback`, `NoneDropped`, `EveryOpReaped`; loop: `LoopInOrder`, `LoopServes` | 4 operations, 3 slots, queue of 2, two failed `submit()`s, a message; a post, a coroutine, 2 timers, a queue of 1, stopped and run again |
| `loops` | `QueueOrder`, `AtMostOnce`, `EveryTaskRuns`, `StopReturns` | 2 workers, a dispatch, a post, both nested, a failed MSG_RING, `stop()` |
| `rpc` | `RepliesInOrder`, `OwnReply`, `CallReturns` | 3 messages, 2 registry changes, a short transfer, a request over the limit |
| `coroutines` | awaiters: `Truthful`; `SoundIfUsedWell` of `Task`; `WaitersWoken` of `AsyncSync`; `AwaitsEnd` | 2 awaits of all 8 kinds; 2 coroutines and plain code, 6 operations; 2 coroutines and 2 callers on three objects |
| `net` | server: `ActiveCount`, `WithinLimit`, `StopLetsInOne`, `GivenBack`; client: `ClientSound`, `BlockedByHolders` | 2 clients, limit 1, 2 starts; 2 coroutines, 5 sockets, 6 calls, both modes, reconnection on or off |

Most of these properties carry a condition, and each condition is a place where
the code does less than its name suggests:

- `Accounting` and `BoundedOvershoot` hold until `shutdown()`, which zeroes the
  counters while connections are in use; later releases wrap them.
- `BoundedOvershoot`, not the limit itself, is what `acquire()` keeps: it tests
  under the mutex and counts after it. `WaiterNotStranded` excepts waiters whose
  place was freed by the release of a dead connection, which notifies nobody.
- `WithinOneTurn`, not punctuality, is what the wheel keeps for threads: a tick
  between the unlocked read of `current_tick_` and the insertion, or a delay of
  0, puts a timer in a slot just passed.
- `EveryTaskRuns` of the scheduler holds for coroutines that yield finitely often:
  a worker pops the end it pushes to, so one that yields for ever on the only
  worker starves the others. It holds until `stop()`, as does that of the loops:
  what is queued then is dropped.
- `OwnCallback`, `NoneDropped` and `EveryOpReaped` except operations that are
  lapped, that is, pending while `kMaxCallbacks` others were prepared. The last
  two except slot 0 as well: id 0 marks `run_once()`'s own timeout, so the
  completion of every `kMaxCallbacks`-th operation is dropped. `OwnCallback` does
  not speak of messages: one sent by MSG_RING runs whatever callback is in the
  slot of its task id.
- `AtMostOnce` holds until a MSG_RING submission fails: the fallback posts a task
  the worker may have found in the map and run already. `EveryTaskRuns` and
  `StopReturns` of the loops except a worker whose task, called under
  `tasks_mutex_`, posts to its own loop.
- `LoopServes` excepts a loop that is `Halted`: stopped, left by an exception,
  waiting for itself because a timer callback set a timer, or in front of a
  submission queue that failed submits have filled, which nothing empties.
  `EveryOpReaped` excepts the operations in such a queue. `LoopInOrder` accounts
  for the tasks that one which throws takes along.
- `RepliesInOrder`, `OwnReply` and `CallReturns` hold while every `recv` and
  `send` moves all it was asked to. `OwnReply` needs that no fire-and-forget call
  or heartbeat preceded on the connection: `call` does not compare ids.
- `Truthful` and the awaiters' part of `AwaitsEnd` hold until a callback uses an
  awaiter that is gone (a `WithTimeout` that timed out leaves its operation in
  flight, a `TimedRecv` its link timeout). `Truthful` does not speak of what
  `TimedSend` returns: it ends as soon as its nop completes, and that is not
  linked to the send.
- `SoundIfUsedWell` says what a user of `Task` has to respect: one user per task,
  awaited before it is started, not cancelled, destroyed after its end.
- `WaitersWoken` is about one `acquire()` of a semaphore at zero: an `acquire()`
  that queues itself has decremented the count past zero, so a second one reads a
  count that has wrapped and does not wait.
- `ClientSound` is about calls that do not overlap: a reconnection drops the
  connection another coroutine's operation is pending on.
- `HoldsUnread` is about blocks that no holder compacts or writes to below the end
  of another, and reads that do not complete there; a chain must have no buffer
  without a block.
- `ActiveCount` counts a connection until its closer has called back, which is
  after its state is Closed.
- `SeesAll` says that a body is resumed past its end only by a loop that goes on
  after another has come to the end, and that no loop ever sees the exception of a
  body: `begin()` looks for one only if the body is not done, `operator++` never.

Three runs show the code disagreeing with what a comment or document says of it
(the findings of `PROJECT.json` quote the lines):

| Run | Property | What happens |
|---|---|---|
| `spawned_frame` | `SpawnedFrameLives` | the lambda `spawn()` posts owns the task and is destroyed after the first suspension; the completion resumes a destroyed frame |
| `async_mutex` | `MutualExclusion` | `lock()` of a free mutex returns from `await_ready` without taking it |
| `idl_braces` | `ParsesBraces` | a block closed by `}`, as in the documented syntax, is not ended |

### Bounds

Every bound is a constant whose comment says so (`MaxYields`, `MaxOps`,
`MaxTimers`, `MaxFails`, `MaxAwaits`, `MaxCalls`, `MaxTorn`, `MaxBlocks`, ...), or
the size of a set (`Conns` bounds the connections in hands and deque at one time;
only after `shutdown()` could there be more than the three of the run). They are
chosen so that the interesting cases happen: more users than threads and more
threads than places in the pool; deadlines beyond one turn of the wheel; two
workers that steal from each other while a third thread schedules; a callback
table that is lapped and a submission queue that fills; a failure of MSG_RING
between the insertion of a task and its removal; two awaits, so that leftovers of
the first meet the second; a client limit below the number of clients, and two
`start`s, so that accept loops overlap; three messages, so that a reply nobody
reads precedes a call; buffers that just hold an empty message (`InitialSize`), so
that they grow and keep what a longer one left; word sizes small enough for
counters to wrap; first blocks of no byte or one, so that writes grow them and then compact. Two of the
runs split a module further to stay small: `io` explores the event loop with one
timer, and with plain tasks and all timers; `net` explores the server with any
closer and one `start`, and with two `start`s and connections that only their
handlers close. The proofs do not: they are about the whole next-state relation.
`structures` uses the symmetry of the buffers; no other run uses any. Deadlock is
checked in `pool`; elsewhere the system may stop: its bounded calls are used up,
`stop()` has returned, an exception has ended the loop, or a thread waits for
itself, which the properties mention.

### Fairness

| Module | Assumed | Why the code justifies it |
|---|---|---|
| `ConnectionPool` | a thread inside a call goes on; a holder releases | threads are scheduled; `ConnectionGuard` releases; nobody has to call `acquire()` |
| `Scheduler` | each thread takes steps, `stop()` goes on once begun | the wait is a `wait_for` of 10 ms and ends by itself |
| `IoUring` | the loop keeps calling `run_once()`, its timeouts fire | `run_once()` arms a timeout each time; the kernel need not complete an operation |
| `EventLoop` | the loop thread runs, time passes; not `EarlierTimeout`, so a ring without a timeout may wait for ever | each iteration is bounded by the ring's timeout, if one could be submitted |
| `EventLoopPool` | threads run; a lock that is free again and again is obtained (strong fairness of `Insert`, `Erase`, `Push`) | `run_once(10)` returns; `std::mutex` does not promise the second, the operating system's queue of waiters does |
| `Awaiters` | timers, nops and sleeping threads complete; the loop reaps; producers run | no peer has to answer |
| `Task` | both threads run, operations complete | a task of a body that never ends awaits for ever by design |
| `AsyncSync` | threads run, resumed coroutines go on | nobody has to call `release` or `notify` |
| `TcpServer` | the event loop resumes handlers whose read has returned | a read on a connection closed by its peer returns; no handler has to end by itself |
| `Rpc` | the event loop keeps resuming both coroutines | |

## What is proved

Eight modules hold theorems checked by TLAPS for every value of the constants
that meets the named assumptions. The pattern is the same everywhere: a type
invariant proved first, then an inductive invariant that implies the property,
with one step per action. An instance of any size means any number of threads,
tasks, connections, messages and operations; the bounds are constants like the
others.

| Module | About | Theorems |
|---|---|---|
| `SharedProofs` | `TimingWheel` | `TypeCorrect`, `MapConsistent`, `EveryTimerHasOneFate`, `LateByATurnAtMost`, `NeverOverdue`, `WheelImplementsService` |
| | `ConnectionPool` | `PoolTypeCorrect`, `AccountingCorrect`, `OvershootBounded`, `OwnershipExclusive` |
| `DataProofs` | `Buffer` | `BufferHoldsUnread` |
| | `Generator` | `GeneratorSeesAll` |
| | `IdlParser` | `ParserFindsDefinitions` |
| `DispatchProofs` | `EventLoopPool` | `TypeCorrect`, `QueuesInOrder`, `NoTaskTwice` |
| | `LoadBalancer` | `BalancerSelectsFairly` |
| `CoroutineProofs` | `Awaiters` | `AwaitsTruthful` |
| | `Scheduler` | `SchedulerTypeCorrect`, `HandleInOnePlace` |
| `TaskProofs` | `Task` | `TaskSoundIfUsedWell` |
| `IoProofs` | `IoUring` | `TypeCorrect`, `OwnCallbackRuns`, `NoCompletionDropped` |
| | `EventLoop` | `EveryTaskInOrder`, `EveryTimerOnTime`, `LoopRunsInOrder` |
| `NetworkProofs` | `TcpServer` | `TypeCorrect`, `CountExact`, `LimitHolds`, `StopBounds` |
| | `TcpClient` | `ClientIsSound`, `LoopBlockedByHolders` |
| `RpcProofs` | `Rpc`, `Protocol` | `RepliesKeepOrder`, `CallGetsOwnReply` |

A proof module extends a model, the MC modules that instantiate others, or both,
so its theorems state the very properties the runs check. An assumption
on the constants of an instantiated model (`PoolAssumption`, `SchedulerAssumption`,
`TaskAssumption`, `BufferAssumption`, `GeneratorAssumption`,
`BalancerAssumption`) is a definition of the model that its MC module assumes, so
that TLC evaluates it on the instance.

*Connection pool.* All theorems are about `Spec`, with failures and `shutdown()`
at any moment. `AccountingCorrect` and `OvershootBounded` rest on one inductive
invariant, `CountInv` (`TypeOK`, `Balance`, `CallsHaveThreads`), which holds
until `shutdown()`. `Accounting` alone is not inductive, because the counters
wrap at `WordSize`: that they do not do so follows from the bound on the
overshoot, which in turn needs the users past the limit test to be counted
(`Balance`) and to be no more than the threads (`CallsHaveThreads`).
`PoolTypeCorrect` needs an invariant of its own, `TypeInv`, since it includes the
states after `shutdown()`, where the counters do wrap: the deque is bounded, so a
subtraction wraps at most once. `OwnershipExclusive` rests on `OwnInv`: exactly
the users that made or found a connection hold one, and the references in hands
and deque are pairwise distinct. The assumptions on the constants are that the
limit plus the number of threads, and `max_idle`, are less than `WordSize`.

*Timing wheel.* `TypeCorrect`, `MapConsistent`, `EveryTimerHasOneFate` and
`LateByATurnAtMost` hold for any interleaving and any delays; `FateInv` follows a
timer from `AddRead` through map and wheel to the thread that runs it.
`WithinOneTurn` does not say when the slot of an overdue entry comes round again;
`TurnInv` adds that its next visit lies within one turn of the insertion, which
needs that among any `slots_` successive ticks one hashes to each slot
(`VisitedInATurn`). `NeverOverdue` and `WheelImplementsService` hold for serial
callers with positive delays; the invariant of the refinement is that every timer
in the wheel is in the slot of its expiry and not overdue. Assumed: slots and
tick length are positive, and the latest expiry is less than `WordSize`.

*Scheduler.* `OnePlace` is proved place by place (`One`): a handle held by a
thread is held by no other and queued nowhere, and a queued one is at one
position of one queue. It needs `PcInv`: a thread has a handle exactly from its
entry into `schedule()`, its pop or its steal until it has pushed or finished it.

*Ring.* For every table size, `AllKept` says of each entry queued, in the kernel
or completed that its `user_data` is the slot of its operation and that, unless
lapped, its callback is still in that slot because fewer than `kMaxCallbacks`
operations were prepared since. `CallbackInv` adds that the CQE whose callback
runs stays first in the queue while that callback prepares operations.

*Event loop.* `EveryTaskInOrder` needs that the loop holds no task outside its
pass over them, and that each task taken so far has run or follows in its batch
one that threw (`Accounted`); `EveryTimerOnTime` that what has fired in a pass is not later
than what is still queued, which holds because `PushTimer` waits for
`timers_mutex_`. `LoopRunsInOrder` joins both with the type invariant. Assumed:
delays and the bounds on time and on the submission queue are natural numbers
(`EventLoopAssumption`).

*Event loop pool.* `QueuesInOrder` needs only that a worker has no batch outside
the drain (`BatchInv`). `NoTaskTwice` needs `OnceInv`: until a submission fails a
task is in one hand, one map or one queue position, and in none once called.

*TCP server.* `CountExact` rests on `ConnInv`, which ties each client's stage,
connection state and closers together: one closer at most is past the
compare-and-swap and has not called back, and the callback is set before anyone
can close; the count is that of the connections open or with such a closer.
`LimitHolds`
follows from the count, `StopBounds` from counting the loops past their test of
`running_` (`ExtraInv`).

*TCP client.* `ClientInv` has four parts besides the types. `PoolInv`: the two
modes do not mix, and the pool's count is the number of coroutines in a pooled
operation; `BlockedByHolders` follows, since `acquire()` blocks at the limit only.
`SocketInv`: a dropped `Connection` is not connected, one that was established
and is not connected has been closed, and a `Connection` has one connect under
way at most; this gives the half of `ClientSound` that holds whether or not calls
overlap. `SerialCalls`, for calls that do not overlap: the only call under way
uses the client's own connection or one of the pool, neither dropped. Assumed:
finitely many coroutines, and limits that are natural numbers
(`TcpClientAssumption`).

*RPC.* `Carries` describes a byte stream by a position in the sequence of
messages sent: what is in it is the rest of message `j` from some cell on, then
the later messages whole. `Holds` says that a buffer begins with the first cells
of a message. `Serving` states where the server is in the stream of requests at
each of its steps, that it has written one reply for each message before the
current one, and what its buffer and its response hold; `Calling` states the same
of the client and the stream of replies, provided that every message was a
call's. `RepliesInOrder` and `OwnReply` say nothing of streams and buffers and
are not inductive. The payloads may have any sizes: the buffers start at
`InitialSize` cells and grow with the message, so that what an earlier, longer
message left in them is there and has to be shown not to be read. Assumed: the
initial buffers hold a header and meta data (they have 4096 bytes in the code).

*Awaiters.* `Inv` holds until a callback uses an awaiter that is gone, and that is
recorded for good (`late`). `OpsInv` says for each kind what the operations of an await
can be, which of them are still under way once it has returned, and how a linked
timer and its operation determine each other; of the kinds without `done_`, an
await that has returned leaves no completion that would resume the coroutine.
`TruthInv` says that an awaiter knows only what the operations of its own await
have brought, and that one kept after its await has returned lets no further
callback through, because its `done_` is set. Nothing is assumed of the memory of
an awaiter that is gone.

*Task.* `SoundIfUsedWell` says nothing of the stacks of the threads and is not
inductive. `TaskInv` follows every call on every stack: `RunInv` says that a
coroutine runs in one place at most and is not suspended then, with the calls in
`await_suspend` excepted, since their coroutine is suspended already and another
thread may resume it before they return. `SoundInv` adds, for tasks with one user
that awaits before it starts, that the continuation of a task not yet done is the
coroutine that waits for it, that no two threads are about to resume the same
coroutine (`LiveApart`), and that the frames the calls still need are there
(`FrameKept`) unless a task was cancelled, abandoned or destroyed while it ran.
Assumed: the plain code and `None` are not coroutines.

*Generator.* `GenInv` says that what the body has yielded is what the loops have
read, and the value at hand if the innermost loop is about to read it; that a body
is done only after some loop has come to its end; and that it holds an exception
only if it is done, which is why none is ever rethrown.

*Buffer.* `BufInv` states of every view of a block, the buffers' and the chain's,
that its positions are in order and within the block and that the bytes between
them are those written and not read; a step that adds or rewrites blocks leaves
what the other views show (`Shows`), as long as nobody compacts a shared block or
writes below another holder's end, which is when `spoiled` is set. `ReadsInv` adds
that a read under way goes to a block that exists, whoever holds it by then.

*IDL parser.* `ParsesQuoted` compares the parser's result with a definition over
the whole document, in which a definition is found by counting headers and a
member by the last header before it. `IdlInv` says what one more line adds to
each: a mark is the last line that begins or ends a block (`Marked`, `Ranged`),
the headers are numbered without gaps (`Numbered`), and the parser's `block` and
`doc` are what the lines read so far determine (`At`, `Blocks`), as long as the
document is well-formed.

*Load balancers.* `Laid` says that endpoint `i` has the positions of
`weighted_indices_` after the sum of the turns of the endpoints before it, up to
that sum with its own. `Rounds` says that, until the counter wraps, `current_` is
the number of selections `n`, and each endpoint was selected `n \div d` times its
turns and as often as its positions are among the first `n % d` of a round of `d`.
`Balanced` compares with sums over sequences, and `weighted_indices_` and what
`deregister_service` leaves are built element by element: what these definitions
compute is proved by induction on the length, as the least length for which a set
of good ones fails (`UpTo`). Assumed: integer weights, zero and negative ones
included, and a counter with at least one value.

Only model-checked, and why:

- all liveness properties (`EveryTaskRuns`, `StopReturns`, `EveryOpReaped`,
  `LoopServes`, `CallReturns`, `AwaitsEnd`, `WaitersWoken`, `GivenBack`,
  `WaiterNotStranded`): TLAPS does not reason about fairness;
- `RoundTrip` of the serializer: its operators recurse over nested types and are
  `RECURSIVE`, which the provers do not reason about.

## Not modelled

- `ConnectionPoolManager`: a map of pools under one mutex; it adds no state of
  its own to a pool.
- `EventLoopPool::set_timer`, a `prepare_timeout` on the loop's ring, and the
  counting down of connections, which only applications call.
- The use of one ring by two threads (`post`, `stop` and `dispatch_to_worker`
  prepare entries on another thread's ring): the race is inside liburing, whose
  code is not part of the repository. `IoUring` has one thread per ring.
- The loops `async_read_all`, `async_write_all` of `async_io.hpp` and
  `async_read_line`: repetitions of the awaits in `Awaiters`. (The connection's own
  `async_write_all` is in `TcpClient`.) A `prepare_*` that throws inside a `noexcept`
  `await_suspend` ends the process.
- `std::map` in the serializer, which can be encoded and not decoded; names, types
  and parameters within a line of the IDL parser.
- `submit_and_wait`, `peek_batch_cqe`, the ring's set-up flags and socket options:
  nothing calls the first two, and the others change no state modelled.
- The code generator's text, logging and formatting; the headers that only
  include others; the examples and tests, which use the library.
