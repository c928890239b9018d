---------------------------- MODULE MCCoroutines ----------------------------
(***************************************************************************)
(* What resumes coroutines, on small instances: TLC explores the awaiters, *)
(* Task or the synchronisation primitives, as `unit' says.                 *)
(***************************************************************************)
EXTENDS Awaiters, MCTask

CONSTANTS Callers, Count, WordSize, MaxCalls

VARIABLES unit,
          locked_, count_, waiters_, waiters_mutex_, at, caller, unlocking, stuck, entered,
          acquires, released, owed

task == <<state, continuation, calls, point, awaits, done, freed, made, used, eager, cancelled,
          abandoned, raced, wrong>>
sync == <<locked_, count_, waiters_, waiters_mutex_, at, caller, unlocking, stuck, entered,
          acquires, released, owed>>
all == <<unit, vars, task, sync>>

S == INSTANCE AsyncSync

MCInit == unit \in {"awaiters", "task", "sync"} /\ Init /\ T!Init /\ S!Init

AwaitersNext == unit = "awaiters" /\ Next /\ UNCHANGED <<unit, task, sync>>
TaskNext == unit = "task" /\ T!Next /\ UNCHANGED <<unit, vars, sync>>
SyncNext == unit = "sync" /\ S!Next /\ UNCHANGED <<unit, vars, task>>
MCNext == AwaitersNext \/ TaskNext \/ SyncNext

\* the fairness of the modules, for the unit explored
MCSpec ==
  /\ MCInit /\ [][MCNext]_all
  /\ WF_vars(unit = "awaiters" /\ Reap)
  /\ WF_vars(unit = "awaiters" /\ Produce)
  /\ WF_vars(unit = "awaiters" /\ AwaitTests)
  /\ \A i \in Awaits :
       /\ WF_vars(unit = "awaiters" /\ NopCompletes(i))
       /\ WF_vars(unit = "awaiters" /\ TimerExpires(i))
       /\ WF_vars(unit = "awaiters" /\ kinds[i] = "Sleep" /\ MainCompletes(i))
  /\ \A h \in T!Threads : WF_task(unit = "task" /\ T!Step(h))
  /\ WF_task(unit = "task" /\ \E t \in Coros : T!IoCompletes(t))
  /\ \A c \in Coros : WF_sync(unit = "sync" /\ S!Step(c))
  /\ \A g \in Callers : WF_sync(unit = "sync" /\ (S!ResumeNext(g) \/ S!Return(g)))

-----------------------------------------------------------------------------
(* The properties of the modules, each with the type invariant of its module. *)

\* AsyncSemaphore: a single acquire() of a semaphore at zero returns only after a
\* release(), and does return after one, whichever of the two calls came first.
\* AsyncConditionVariable: notify_all() resumes all who waited when it began.
WaitersWoken == [](S!TypeOK /\ S!SignalWaits) /\ S!SignalArrives /\ S!NotifyAllWakes

\* The awaits end: those with a timeout whether or not the peer answers, those of a task
\* when its body has ended.
AwaitsEnd == TimedAwaitReturns /\ T!WaitEnds
=============================================================================
