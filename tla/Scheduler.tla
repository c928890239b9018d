------------------------------ MODULE Scheduler ------------------------------
(***************************************************************************)
(* coroutine/scheduler.hpp: the work-stealing scheduler.  Every access to  *)
(* a queue is one step (WorkStealingQueue locks around it); schedule()     *)
(* reads the sizes one queue at a time, pushes, and then notifies without  *)
(* holding cv_mutex_; a worker pops its own queue, steals, and otherwise   *)
(* waits on cv_ for at most 10 ms.  What a coroutine does when resumed is  *)
(* any of: finish, yield(), or co_await schedule_on(k).                    *)
(***************************************************************************)
EXTENDS Integers, Sequences, FiniteSets

CONSTANTS
  thread_count_,
  Clients,    \* threads outside the pool that call schedule()
  Coros,      \* coroutine handles
  None,
  MaxYields   \* bound: how often coroutines reschedule themselves

SchedulerAssumption ==
  /\ thread_count_ \in Nat \ {0}
  /\ None \notin Coros
  /\ Clients \cap Nat = {}
  /\ MaxYields \in Nat

Workers == 0 .. thread_count_ - 1
Procs == Workers \cup Clients
ThreadIds == -1 .. thread_count_  \* schedule()'s thread_id, both kinds of bad value included

VARIABLES
  local_queues_,  \* worker -> sequence of handles; pop at the end, steal at the front
  running_,
  cv_mutex_,      \* the worker that holds it, or None
  pc,             \* where each worker and client is
  task,           \* the handle each of them has in hand
  i,              \* loop counter of each, 0 outside the loops
  min_idx,        \* queue chosen by schedule(), 0 outside it
  min_size,
  stopping,       \* where stop() is
  life,           \* coroutine -> "new" (never scheduled), "live" or "done"
  yields          \* how often they still may

vars == <<local_queues_, running_, cv_mutex_, pc, task, i, min_idx, min_size,
          stopping, life, yields>>
local == <<i, min_idx, min_size>>

Init ==
  /\ local_queues_ = [w \in Workers |-> <<>>]
  /\ running_ = TRUE
  /\ cv_mutex_ = None
  /\ pc = [p \in Procs |-> IF p \in Workers THEN "loop" ELSE "out"]
  /\ task = [p \in Procs |-> None]
  /\ i = [p \in Procs |-> 0]
  /\ min_idx = [p \in Procs |-> 0]
  /\ min_size = [p \in Procs |-> 0]
  /\ stopping = "no"
  /\ life = [c \in Coros |-> "new"]
  /\ yields = MaxYields

-----------------------------------------------------------------------------
(* schedule(handle, thread_id) *)

\* the branch on thread_id; an id out of range means the shortest queue
Enter(p, c, thread_id) ==
  /\ task' = [task EXCEPT ![p] = c]
  /\ IF thread_id \in Workers
     THEN /\ pc' = [pc EXCEPT ![p] = "push"]
          /\ min_idx' = [min_idx EXCEPT ![p] = thread_id]
     ELSE /\ pc' = [pc EXCEPT ![p] = "scan"]
          /\ UNCHANGED min_idx

\* one size(): the first queue, or a strictly shorter one, becomes the choice
Scan(p) ==
  /\ pc[p] = "scan"
  /\ LET size == Len(local_queues_[i[p]]) IN
       IF i[p] = 0 \/ size < min_size[p]
       THEN /\ min_idx' = [min_idx EXCEPT ![p] = i[p]]
            /\ min_size' = [min_size EXCEPT ![p] = size]
       ELSE UNCHANGED <<min_idx, min_size>>
  /\ IF i[p] + 1 < thread_count_
     THEN i' = [i EXCEPT ![p] = @ + 1] /\ UNCHANGED pc
     ELSE pc' = [pc EXCEPT ![p] = "push"] /\ i' = [i EXCEPT ![p] = 0]
  /\ UNCHANGED <<local_queues_, running_, cv_mutex_, task, stopping, life, yields>>

Push(p) ==
  /\ pc[p] = "push"
  /\ local_queues_' = [local_queues_ EXCEPT ![min_idx[p]] = Append(@, task[p])]
  /\ task' = [task EXCEPT ![p] = None]
  /\ pc' = [pc EXCEPT ![p] = "notify"]
  /\ min_idx' = [min_idx EXCEPT ![p] = 0] /\ min_size' = [min_size EXCEPT ![p] = 0]
  /\ UNCHANGED <<running_, cv_mutex_, i, stopping, life, yields>>

\* cv_.notify_one(); then a client returns and a worker goes round its loop
Blocked == {w \in Workers : pc[w] = "blocked"}
Return(p) == [pc EXCEPT ![p] = IF p \in Workers THEN "loop" ELSE "out"]

Notify(p) ==
  /\ pc[p] = "notify"
  /\ IF Blocked = {} THEN pc' = Return(p)
     ELSE \E w \in Blocked : pc' = [Return(p) EXCEPT ![w] = "woken"]
  /\ UNCHANGED <<local_queues_, running_, cv_mutex_, task, local, stopping, life, yields>>

\* a client hands a coroutine over; schedule_batch is a sequence of these
ClientSchedules(p, c, thread_id) ==
  /\ pc[p] = "out"
  /\ life[c] = "new"
  /\ stopping = "no"
  /\ life' = [life EXCEPT ![c] = "live"]
  /\ Enter(p, c, thread_id)
  /\ UNCHANGED <<local_queues_, running_, cv_mutex_, i, min_size, stopping, yields>>

-----------------------------------------------------------------------------
(* worker_loop *)

Loop(w) ==
  /\ pc[w] = "loop"
  /\ pc' = [pc EXCEPT ![w] = IF running_ THEN "pop" ELSE "exit"]
  /\ UNCHANGED <<local_queues_, running_, cv_mutex_, task, local, stopping, life, yields>>

\* mutant: the whole queue is taken out and only its last handle run
PopClears(w) ==
  /\ pc[w] = "pop"
  /\ IF local_queues_[w] = <<>>
     THEN /\ pc' = [pc EXCEPT ![w] = "steal"]
          /\ UNCHANGED <<local_queues_, task>>
     ELSE /\ task' = [task EXCEPT ![w] = local_queues_[w][Len(local_queues_[w])]]
          /\ local_queues_' = [local_queues_ EXCEPT ![w] = <<>>]
          /\ pc' = [pc EXCEPT ![w] = "run"]
  /\ UNCHANGED <<running_, cv_mutex_, local, stopping, life, yields>>

\* the last handle of the worker's own queue
Pop(w) ==
  /\ pc[w] = "pop"
  /\ LET q == local_queues_[w] IN
       IF q = <<>>
       THEN /\ pc' = [pc EXCEPT ![w] = "steal"]
            /\ UNCHANGED <<local_queues_, task>>
       ELSE /\ task' = [task EXCEPT ![w] = q[Len(q)]]
            /\ local_queues_' = [local_queues_ EXCEPT ![w] = SubSeq(q, 1, Len(q) - 1)]
            /\ pc' = [pc EXCEPT ![w] = "run"]
  /\ UNCHANGED <<running_, cv_mutex_, local, stopping, life, yields>>

\* mutant: the handle stolen stays in the queue
StealNoPop(w) ==
  /\ pc[w] = "steal"
  /\ IF i[w] = thread_count_
     THEN pc' = [pc EXCEPT ![w] = "wait"] /\ i' = [i EXCEPT ![w] = 0] /\ UNCHANGED task
     ELSE IF i[w] = w \/ local_queues_[i[w]] = <<>>
          THEN i' = [i EXCEPT ![w] = @ + 1] /\ UNCHANGED <<task, pc>>
          ELSE /\ task' = [task EXCEPT ![w] = Head(local_queues_[i[w]])]
               /\ pc' = [pc EXCEPT ![w] = "run"]
               /\ i' = [i EXCEPT ![w] = 0]
  /\ UNCHANGED <<local_queues_, running_, cv_mutex_, min_idx, min_size, stopping, life, yields>>

\* the first handle of queue i
Steal(w) ==
  /\ pc[w] = "steal"
  /\ IF i[w] = thread_count_
     THEN /\ pc' = [pc EXCEPT ![w] = "wait"]
          /\ i' = [i EXCEPT ![w] = 0]
          /\ UNCHANGED <<local_queues_, task>>
     ELSE LET q == local_queues_[i[w]] IN
          IF i[w] = w \/ q = <<>>
          THEN /\ i' = [i EXCEPT ![w] = @ + 1]
               /\ UNCHANGED <<local_queues_, task, pc>>
          ELSE /\ task' = [task EXCEPT ![w] = Head(q)]
               /\ local_queues_' = [local_queues_ EXCEPT ![i[w]] = Tail(q)]
               /\ pc' = [pc EXCEPT ![w] = "run"]
               /\ i' = [i EXCEPT ![w] = 0]
  /\ UNCHANGED <<running_, cv_mutex_, min_idx, min_size, stopping, life, yields>>

\* task.resume() runs the coroutine to its end
Finish(w) ==
  /\ pc[w] = "run"
  /\ life' = [life EXCEPT ![task[w]] = "done"]
  /\ task' = [task EXCEPT ![w] = None]
  /\ pc' = [pc EXCEPT ![w] = "loop"]
  /\ UNCHANGED <<local_queues_, running_, cv_mutex_, local, stopping, yields>>

\* task.resume() runs it to a yield() or a co_await schedule_on(thread_id)
Yield(w, thread_id) ==
  /\ pc[w] = "run"
  /\ yields > 0 /\ yields' = yields - 1
  /\ Enter(w, task[w], thread_id)
  /\ UNCHANGED <<local_queues_, running_, cv_mutex_, i, min_size, stopping, life>>

\* cv_.wait_for: take cv_mutex_, first or after a wakeup
Lock(w) ==
  /\ pc[w] \in {"wait", "woken"}
  /\ cv_mutex_ = None
  /\ cv_mutex_' = w
  /\ pc' = [pc EXCEPT ![w] = "test"]
  /\ UNCHANGED <<local_queues_, running_, task, local, stopping, life, yields>>

\* the predicate: running_ first, then pending_count() queue by queue; pushes
\* and stop() do not take cv_mutex_, so it may be out of date when wait blocks
Test(w) ==
  /\ pc[w] = "test"
  /\ LET holds == (i[w] = 0 /\ ~running_) \/ local_queues_[i[w]] # <<>>
         next == IF holds THEN "loop"
                 ELSE IF i[w] + 1 < thread_count_ THEN "test" ELSE "block"
     IN /\ pc' = [pc EXCEPT ![w] = next]
        /\ i' = [i EXCEPT ![w] = IF next = "test" THEN @ + 1 ELSE 0]
        /\ cv_mutex_' = IF next = "loop" THEN None ELSE w
  /\ UNCHANGED <<local_queues_, running_, task, min_idx, min_size, stopping, life, yields>>

\* the wait proper: release cv_mutex_ and be notified from here on
Block(w) ==
  /\ pc[w] = "block"
  /\ pc' = [pc EXCEPT ![w] = "blocked"]
  /\ cv_mutex_' = None
  /\ UNCHANGED <<local_queues_, running_, task, local, stopping, life, yields>>

TimeoutNever(w) == FALSE  \* mutant: cv_.wait instead of cv_.wait_for

\* 10 ms have passed: wait_for returns and its result is not used
Timeout(w) ==
  /\ pc[w] = "blocked"
  /\ pc' = [pc EXCEPT ![w] = "loop"]
  /\ UNCHANGED <<local_queues_, running_, cv_mutex_, task, local, stopping, life, yields>>

SpuriousWakeup(w) ==
  /\ pc[w] = "blocked"
  /\ pc' = [pc EXCEPT ![w] = "woken"]
  /\ UNCHANGED <<local_queues_, running_, cv_mutex_, task, local, stopping, life, yields>>

-----------------------------------------------------------------------------
(* stop(), called by the destructor *)

StopStore ==
  /\ stopping = "no"
  /\ running_' = FALSE
  /\ stopping' = "stored"
  /\ UNCHANGED <<local_queues_, cv_mutex_, pc, task, local, life, yields>>

StopNotify ==
  /\ stopping = "stored"
  /\ stopping' = "joining"
  /\ pc' = [p \in Procs |-> IF p \in Blocked THEN "woken" ELSE pc[p]]
  /\ UNCHANGED <<local_queues_, running_, cv_mutex_, task, local, life, yields>>

StopJoin ==
  /\ stopping = "joining"
  /\ \A w \in Workers : pc[w] = "exit"
  /\ stopping' = "joined"
  /\ UNCHANGED <<local_queues_, running_, cv_mutex_, pc, task, local, life, yields>>

-----------------------------------------------------------------------------
ScheduleStep(p) == Scan(p) \/ Push(p) \/ Notify(p)

WorkerStep(w) ==
  \/ Loop(w) \/ Pop(w) \/ Steal(w)
  \/ Finish(w) \/ (\E k \in ThreadIds : Yield(w, k))
  \/ Lock(w) \/ Test(w) \/ Block(w) \/ Timeout(w)

WorkNext ==
  \/ \E p \in Procs : ScheduleStep(p)
  \/ \E p \in Clients, c \in Coros, k \in ThreadIds : ClientSchedules(p, c, k)
  \/ \E w \in Workers : WorkerStep(w) \/ SpuriousWakeup(w)

StopNext == StopStore \/ StopNotify \/ StopJoin

Next == WorkNext \/ StopNext

\* threads keep running, a wait of 10 ms ends, stop() goes on once begun
Fairness ==
  /\ \A p \in Clients : WF_vars(ScheduleStep(p))
  /\ \A w \in Workers : WF_vars(ScheduleStep(w) \/ WorkerStep(w))
  /\ WF_vars(StopNotify \/ StopJoin)

Spec == Init /\ [][Next]_vars /\ Fairness

-----------------------------------------------------------------------------
TypeOK ==
  /\ local_queues_ \in [Workers -> Seq(Coros)]
  /\ running_ \in BOOLEAN
  /\ cv_mutex_ \in Workers \cup {None}
  /\ pc \in [Procs -> {"out", "scan", "push", "notify", "loop", "pop", "steal", "run",
                       "wait", "test", "block", "blocked", "woken", "exit"}]
  /\ task \in [Procs -> Coros \cup {None}]
  /\ i \in [Procs -> 0 .. thread_count_]
  /\ min_idx \in [Procs -> Workers]
  /\ min_size \in [Procs -> Nat]
  /\ stopping \in {"no", "stored", "joining", "joined"}
  /\ life \in [Coros -> {"new", "live", "done"}]
  /\ yields \in 0 .. MaxYields

\* where the handle of coroutine c is: in a thread's hand or at a position of a queue
Positions(c, w) == {n \in DOMAIN local_queues_[w] : local_queues_[w][n] = c}
Places(c) ==
  {<<p, 0>> : p \in {q \in Procs : task[q] = c}}
  \cup UNION {{<<w, n>> : n \in Positions(c, w)} : w \in Workers}

\* A coroutine is never resumed by two workers, nor forgotten: while it is
\* scheduled its handle is in exactly one hand or one place of one queue,
\* whatever pops, steals, scans and reschedules interleave; otherwise nowhere.
OnePlace ==
  \A c \in Coros :
    IF life[c] = "live" THEN \E x \in Places(c) : Places(c) = {x} ELSE Places(c) = {}

\* schedule() pushes and notifies without cv_mutex_, so a wakeup can be lost;
\* still every coroutine scheduled is run to its end, unless somebody calls
\* stop(): the wait is bounded.  (Coroutines yield MaxYields times at most: one
\* that yields for ever is popped again before those behind it.)
EveryTaskRuns == \A c \in Coros : life[c] = "live" ~> life[c] = "done" \/ ~running_

\* stop() stores running_ and notifies without cv_mutex_; still every worker
\* sees it and the join in the destructor returns.
StopReturns == stopping = "stored" ~> stopping = "joined"

=============================================================================
