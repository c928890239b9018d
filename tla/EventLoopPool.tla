--------------------------- MODULE EventLoopPool ---------------------------
(***************************************************************************)
(* io/event_loop_pool.hpp: tasks handed to the worker loops by other       *)
(* threads.                                                                *)
(*                                                                         *)
(* The main thread dispatches connections: the task is put in the worker's *)
(* pending_tasks_, a MSG_RING is submitted on the main ring, and if that   *)
(* throws the task is taken back and posted to the queue instead.  Other   *)
(* threads post to the queue.  A worker runs what is in the map holding    *)
(* tasks_mutex_, then swaps the queue out and runs it without.  A scope    *)
(* that holds the mutex and calls nothing is one step.  The wakeups have   *)
(* no effect of their own: a worker waits in run_once for 10 ms at most.   *)
(***************************************************************************)
EXTENDS Integers, Sequences, FiniteSets

CONSTANTS
  worker_count_,
  Posters,     \* threads that call post_to_worker()
  Main,        \* the main thread, which dispatches and calls stop()
  None,
  Dispatched,  \* tasks handed over by dispatch_to_worker()
  Posted,      \* tasks handed over by post_to_worker()
  Nested,      \* tasks whose function may post a further one to its own worker
  MaxFails     \* bound: MSG_RING submissions that throw

Callers == Posters \cup {Main}
Workers == 1 .. worker_count_
Child(t) == <<"posted by", t>>
Tasks == Dispatched \cup Posted \cup {Child(t) : t \in Nested}

ASSUME PoolAssumption ==
  /\ worker_count_ \in Nat \ {0}
  /\ Callers \cap (Workers \cup {None}) = {} /\ Main \notin Posters
  /\ None \notin Workers
  /\ Nested \subseteq Dispatched \cup Posted
  /\ MaxFails \in Nat

VARIABLES
  running_,           \* worker -> EventLoopThread::running_
  tasks_mutex_,       \* worker -> who holds it over a call, or None
  pending_tasks_,     \* worker -> tasks announced by MSG_RING
  task_queue_,        \* worker -> tasks posted
  connection_count_,  \* worker -> connections dispatched to it
  next_worker_,       \* the round-robin counter
  lpc,                \* worker -> place in run_loop
  batch,              \* worker -> process_tasks()'s local queue
  cpc,                \* caller -> place in dispatch_to_worker or post
  arg,                \* caller -> <<task, worker>> of the call, or None
  stopping,           \* the worker EventLoopPool::stop is at, 0 before, worker_count_ + 1 after
  fails,              \* MSG_RING submissions that threw
  ran,                \* task -> how often its function was called
  pushed,             \* worker -> tasks ever pushed on its queue, in order
  done                \* worker -> those of them it has run, in order

loops == <<running_, lpc, batch>>
calls == <<cpc, arg, stopping, fails, connection_count_, next_worker_>>
vars == <<running_, tasks_mutex_, pending_tasks_, task_queue_, connection_count_,
          next_worker_, lpc, batch, cpc, arg, stopping, fails, ran, pushed, done>>

Free(w) == tasks_mutex_[w] = None

Init ==
  /\ running_ = [w \in Workers |-> TRUE]
  /\ tasks_mutex_ = [w \in Workers |-> None]
  /\ pending_tasks_ = [w \in Workers |-> {}]
  /\ task_queue_ = [w \in Workers |-> <<>>]
  /\ connection_count_ = [w \in Workers |-> 0]
  /\ next_worker_ = 0
  /\ lpc = [w \in Workers |-> "check"]
  /\ batch = [w \in Workers |-> <<>>]
  /\ cpc = [c \in Callers |-> "idle"]
  /\ arg = [c \in Callers |-> None]
  /\ stopping = 0
  /\ fails = 0
  /\ ran = [t \in Tasks |-> 0]
  /\ pushed = [w \in Workers |-> <<>>]
  /\ done = [w \in Workers |-> <<>>]

\* a task is handed over once
Fresh(t) ==
  /\ ran[t] = 0
  /\ \A w \in Workers :
       /\ t \notin pending_tasks_[w]
       /\ \A i \in DOMAIN pushed[w] : pushed[w][i] # t
       /\ \A c \in Callers : arg[c] # <<t, w>>

-----------------------------------------------------------------------------
(* dispatch_to_worker, by the main thread *)

RoundRobin == (next_worker_ % worker_count_) + 1

\* the first of the workers with the fewest connections
LeastConnections ==
  CHOOSE w \in Workers :
    \A v \in Workers : /\ connection_count_[w] <= connection_count_[v]
                       /\ v < w => connection_count_[w] < connection_count_[v]

Dispatch(t, strategy) ==
  /\ cpc[Main] = "idle" /\ stopping = 0
  /\ t \in Dispatched /\ Fresh(t)
  /\ LET w == IF strategy = "lc" THEN LeastConnections ELSE RoundRobin IN
       /\ arg' = [arg EXCEPT ![Main] = <<t, w>>]
       /\ connection_count_' = [connection_count_ EXCEPT ![w] = @ + 1]
  /\ next_worker_' = IF strategy = "lc" THEN next_worker_ ELSE next_worker_ + 1
  /\ cpc' = [cpc EXCEPT ![Main] = "insert"]
  /\ UNCHANGED <<loops, tasks_mutex_, pending_tasks_, task_queue_, stopping, fails, ran, pushed, done>>

\* post_via_msg_ring: into the map, then the submission
Insert ==
  /\ cpc[Main] = "insert"
  /\ LET t == arg[Main][1]  w == arg[Main][2] IN
       /\ Free(w)
       /\ pending_tasks_' = [pending_tasks_ EXCEPT ![w] = @ \cup {t}]
  /\ cpc' = [cpc EXCEPT ![Main] = "submit"]
  /\ UNCHANGED <<loops, tasks_mutex_, task_queue_, arg, stopping, fails, connection_count_,
                 next_worker_, ran, pushed, done>>

Submit ==
  /\ cpc[Main] = "submit"
  /\ cpc' = [cpc EXCEPT ![Main] = "idle"]
  /\ arg' = [arg EXCEPT ![Main] = None]
  /\ UNCHANGED <<loops, tasks_mutex_, pending_tasks_, task_queue_, stopping, fails,
                 connection_count_, next_worker_, ran, pushed, done>>

SubmitThrows ==
  /\ cpc[Main] = "submit"
  /\ fails < MaxFails
  /\ fails' = fails + 1
  /\ cpc' = [cpc EXCEPT ![Main] = "erase"]
  /\ UNCHANGED <<loops, tasks_mutex_, pending_tasks_, task_queue_, arg, stopping,
                 connection_count_, next_worker_, ran, pushed, done>>

\* the handler erases the task if it is still there; dispatch falls back to post
Erase ==
  /\ cpc[Main] = "erase"
  /\ LET t == arg[Main][1]  w == arg[Main][2] IN
       /\ Free(w)
       /\ pending_tasks_' = [pending_tasks_ EXCEPT ![w] = @ \ {t}]
  /\ cpc' = [cpc EXCEPT ![Main] = "push"]
  /\ UNCHANGED <<loops, tasks_mutex_, task_queue_, arg, stopping, fails, connection_count_,
                 next_worker_, ran, pushed, done>>

-----------------------------------------------------------------------------
(* post *)

Post(c, t, w) ==
  /\ c \in Posters /\ cpc[c] = "idle"
  /\ t \in Posted /\ Fresh(t)
  /\ arg' = [arg EXCEPT ![c] = <<t, w>>]
  /\ cpc' = [cpc EXCEPT ![c] = "push"]
  /\ UNCHANGED <<loops, tasks_mutex_, pending_tasks_, task_queue_, stopping, fails,
                 connection_count_, next_worker_, ran, pushed, done>>

Enqueue(t, w) ==
  /\ Free(w)
  /\ task_queue_' = [task_queue_ EXCEPT ![w] = Append(@, t)]
  /\ pushed' = [pushed EXCEPT ![w] = Append(@, t)]

Push(c) ==
  /\ cpc[c] = "push"
  /\ Enqueue(arg[c][1], arg[c][2])
  /\ cpc' = [cpc EXCEPT ![c] = "idle"]
  /\ arg' = [arg EXCEPT ![c] = None]
  /\ UNCHANGED <<loops, tasks_mutex_, pending_tasks_, stopping, fails, connection_count_,
                 next_worker_, ran, done>>

-----------------------------------------------------------------------------
(* run_loop *)


Check(w) ==
  /\ lpc[w] = "check"
  /\ lpc' = [lpc EXCEPT ![w] = IF running_[w] THEN "lock" ELSE "exit"]
  /\ UNCHANGED <<running_, batch, tasks_mutex_, pending_tasks_, task_queue_, calls, ran, pushed, done>>

LockPending(w) ==
  /\ lpc[w] = "lock"
  /\ Free(w)
  /\ tasks_mutex_' = [tasks_mutex_ EXCEPT ![w] = w]
  /\ lpc' = [lpc EXCEPT ![w] = "pending"]
  /\ UNCHANGED <<running_, batch, pending_tasks_, task_queue_, calls, ran, pushed, done>>

\* calling a task's function: if it posts, it goes on to lock the mutex again
Call(w, t, return) ==
  /\ ran' = [ran EXCEPT ![t] = @ + 1]
  /\ \E next \in {return} \cup {"inner" : x \in {t} \cap Nested} : lpc' = [lpc EXCEPT ![w] = next]

\* mutant: called and not erased
RunPendingKeeps(w, t) ==
  /\ lpc[w] = "pending"
  /\ t \in pending_tasks_[w]
  /\ ran[t] < 2
  /\ Call(w, t, "pending")
  /\ UNCHANGED <<running_, batch, tasks_mutex_, pending_tasks_, task_queue_, calls, pushed, done>>

\* a task of the map, in any order, under tasks_mutex_
RunPending(w, t) ==
  /\ lpc[w] = "pending"
  /\ t \in pending_tasks_[w]
  /\ Call(w, t, "pending")
  /\ pending_tasks_' = [pending_tasks_ EXCEPT ![w] = @ \ {t}]
  /\ UNCHANGED <<running_, batch, tasks_mutex_, task_queue_, calls, pushed, done>>

UnlockPending(w) ==
  /\ lpc[w] = "pending"
  /\ pending_tasks_[w] = {}
  /\ tasks_mutex_' = [tasks_mutex_ EXCEPT ![w] = None]
  /\ lpc' = [lpc EXCEPT ![w] = "swap"]
  /\ UNCHANGED <<running_, batch, pending_tasks_, task_queue_, calls, ran, pushed, done>>

\* mutant: the queue is copied and never emptied of what came before
SwapCopies(w) ==
  /\ lpc[w] = "swap"
  /\ Free(w)
  /\ Len(done[w]) < 2 * Cardinality(Tasks)
  /\ batch' = [batch EXCEPT ![w] = task_queue_[w]]
  /\ lpc' = [lpc EXCEPT ![w] = "drain"]
  /\ UNCHANGED <<running_, task_queue_, tasks_mutex_, pending_tasks_, calls, ran, pushed, done>>

Swap(w) ==
  /\ lpc[w] = "swap"
  /\ Free(w)
  /\ batch' = [batch EXCEPT ![w] = task_queue_[w]]
  /\ task_queue_' = [task_queue_ EXCEPT ![w] = <<>>]
  /\ lpc' = [lpc EXCEPT ![w] = "drain"]
  /\ UNCHANGED <<running_, tasks_mutex_, pending_tasks_, calls, ran, pushed, done>>

\* a task of the queue, without the mutex
RunQueued(w) ==
  /\ lpc[w] = "drain"
  /\ batch[w] # <<>>
  /\ Call(w, Head(batch[w]), "drain")
  /\ batch' = [batch EXCEPT ![w] = Tail(@)]
  /\ done' = [done EXCEPT ![w] = Append(@, Head(batch[w]))]
  /\ UNCHANGED <<running_, tasks_mutex_, pending_tasks_, task_queue_, calls, pushed>>

\* the post inside a task's function; if the worker holds the mutex, never
InnerPost(w, t) ==
  /\ lpc[w] = "inner"
  /\ t \in Nested /\ ran[t] > 0 /\ Fresh(Child(t))
  /\ Enqueue(Child(t), w)
  /\ lpc' = [lpc EXCEPT ![w] = "drain"]
  /\ UNCHANGED <<running_, batch, tasks_mutex_, pending_tasks_, calls, ran, done>>

DrainDone(w) ==
  /\ lpc[w] = "drain"
  /\ batch[w] = <<>>
  /\ lpc' = [lpc EXCEPT ![w] = "ring"]
  /\ UNCHANGED <<running_, batch, tasks_mutex_, pending_tasks_, task_queue_, calls, ran, pushed, done>>


\* io_uring_.run_once(10)
Ring(w) ==
  /\ lpc[w] = "ring"
  /\ lpc' = [lpc EXCEPT ![w] = "check"]
  /\ UNCHANGED <<running_, batch, tasks_mutex_, pending_tasks_, task_queue_, calls, ran, pushed, done>>

-----------------------------------------------------------------------------
(* EventLoopPool::stop: each worker in turn is told and joined *)

StopFirst ==
  /\ stopping = 0 /\ cpc[Main] = "idle"
  /\ stopping' = 1
  /\ running_' = [running_ EXCEPT ![1] = FALSE]
  /\ UNCHANGED <<lpc, batch, tasks_mutex_, pending_tasks_, task_queue_, cpc, arg, fails,
                 connection_count_, next_worker_, ran, pushed, done>>

Join(w) ==
  /\ stopping = w
  /\ lpc[w] = "exit"
  /\ stopping' = w + 1
  /\ running_' = [v \in Workers |-> IF v = w + 1 THEN FALSE ELSE running_[v]]
  /\ UNCHANGED <<lpc, batch, tasks_mutex_, pending_tasks_, task_queue_, cpc, arg, fails,
                 connection_count_, next_worker_, ran, pushed, done>>

-----------------------------------------------------------------------------
CallerStep ==
  \/ Insert \/ Submit \/ SubmitThrows \/ Erase
  \/ \E c \in Callers : Push(c)

WorkerStep(w) ==
  \/ Check(w) \/ LockPending(w) \/ (\E t \in Tasks : RunPending(w, t)) \/ UnlockPending(w)
  \/ Swap(w) \/ RunQueued(w) \/ (\E t \in Nested : InnerPost(w, t)) \/ DrainDone(w) \/ Ring(w)

WorkNext ==
  \/ \E t \in Dispatched, strategy \in {"rr", "lc"} : Dispatch(t, strategy)
  \/ \E c \in Posters, t \in Posted, w \in Workers : Post(c, t, w)
  \/ CallerStep
  \/ \E w \in Workers : WorkerStep(w)

Next == WorkNext \/ StopFirst \/ \E w \in Workers : Join(w)

\* threads keep running, a lock that is free again and again is obtained by
\* whoever waits for it, run_once(10) returns
Fairness ==
  /\ SF_vars(Insert) /\ WF_vars(Submit \/ SubmitThrows) /\ SF_vars(Erase)
  /\ \A c \in Callers : SF_vars(Push(c))
  /\ \A w \in Workers : WF_vars(WorkerStep(w)) /\ WF_vars(Join(w))

Spec == Init /\ [][Next]_vars /\ Fairness

-----------------------------------------------------------------------------
TypeOK ==
  /\ running_ \in [Workers -> BOOLEAN]
  /\ \A w \in Workers : tasks_mutex_[w] \in {None, w}
  /\ pending_tasks_ \in [Workers -> SUBSET Tasks]
  /\ task_queue_ \in [Workers -> Seq(Tasks)]
  /\ connection_count_ \in [Workers -> Nat]
  /\ next_worker_ \in Nat
  /\ lpc \in [Workers -> {"check", "lock", "pending", "inner", "swap", "drain", "ring", "exit"}]
  /\ batch \in [Workers -> Seq(Tasks)]
  /\ cpc \in [Callers -> {"idle", "insert", "submit", "erase", "push"}]
  /\ \A c \in Callers : arg[c] = None \/ arg[c] \in Tasks \X Workers
  /\ stopping \in 0 .. worker_count_ + 1
  /\ fails \in 0 .. MaxFails
  /\ ran \in [Tasks -> Nat]
  /\ pushed \in [Workers -> Seq(Tasks)]
  /\ done \in [Workers -> Seq(Tasks)]

\* The queue keeps what it is given: the tasks pushed for a worker are, in
\* the order of the pushes, those it has run, those it has swapped out and
\* those still queued. Nothing is lost, run twice or overtaken.
QueueOrder == \A w \in Workers : pushed[w] = done[w] \o batch[w] \o task_queue_[w]

\* A task is called at most once, whichever way it was handed over and
\* whichever thread takes it, as long as no MSG_RING submission has failed.
AtMostOnce == fails = 0 => \A t \in Tasks : ran[t] <= 1

HandedTo(t, w) ==
  t \in pending_tasks_[w] \/ \E i \in DOMAIN task_queue_[w] : task_queue_[w][i] = t

\* a task of the map posts to its own worker, which holds the mutex post() locks
WaitsForItself(w) == lpc[w] = "inner" /\ tasks_mutex_[w] = w

\* Every task handed to a worker is run, unless somebody stops the pool,
\* whether or not the MSG_RING submission and the wakeups succeed; only a worker
\* that waits for itself leaves tasks behind.
EveryTaskRuns ==
  \A t \in Tasks, w \in Workers :
    HandedTo(t, w) ~> ran[t] > 0 \/ stopping > 0 \/ \E v \in Workers : WaitsForItself(v)

\* stop() returns: every worker that does not wait for itself leaves its loop
\* within an iteration.
StopReturns == stopping = 1 ~> stopping = worker_count_ + 1 \/ \E w \in Workers : WaitsForItself(w)

=============================================================================
