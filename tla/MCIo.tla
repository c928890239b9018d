-------------------------------- MODULE MCIo --------------------------------
(***************************************************************************)
(* A ring and the event loop on small instances: TLC explores one of them, *)
(* as `unit' says; of the loop either tasks and coroutines with one timer, *)
(* or plain tasks with all timers.                                         *)
(***************************************************************************)
EXTENDS IoUring

CONSTANTS Posts, Coros, Timers, Delays, LoopDepth, MaxTime

VARIABLES unit,
          running_, pending_tasks_, timers_, now, setting, waking, queued, loop_pc, seen, tasks,
          destroyed, in_flight, posted, taken, loop_ran, thrown, fired, pass, uaf

loop == <<running_, pending_tasks_, timers_, now, setting, waking, queued, loop_pc, seen, tasks,
          destroyed, in_flight, posted, taken, loop_ran, thrown, fired, pass, uaf>>
all == <<unit, vars, loop>>

L == INSTANCE EventLoop WITH queue_depth <- LoopDepth, pc <- loop_pc, ran <- loop_ran

ASSUME LoopAssumption == L!EventLoopAssumption

MCInit == unit \in {"ring", "tasks", "timers"} /\ Init /\ L!Init

RingNext == unit = "ring" /\ Next /\ UNCHANGED <<unit, loop>>
OneTimer == {t \in Timers : L!Known(t)} \subseteq {CHOOSE t \in Timers : TRUE}
PlainTasks == L!Set(posted) \subseteq Posts
LoopNext ==
  /\ unit # "ring" /\ L!Next /\ UNCHANGED <<unit, vars>>
  /\ unit = "tasks" => OneTimer'
  /\ unit = "timers" => PlainTasks'
MCNext == RingNext \/ LoopNext

\* the fairness of the modules, for the unit explored
MCSpec ==
  /\ MCInit /\ [][MCNext]_all
  /\ WF_vars(unit = "ring" /\ Loop) /\ WF_vars(unit = "ring" /\ TimerFires)
  /\ WF_loop(unit # "ring" /\ L!Loop) /\ WF_loop(unit # "ring" /\ L!Tick)

-----------------------------------------------------------------------------
(* The properties of the modules, each with the type invariant of its module. *)

\* EventLoop: tasks run in the order of their pushes and none is lost but with the batch of
\* one that throws; no timer fires early, and those of one pass fire in the order of their
\* times.
LoopInOrder == L!TypeOK /\ L!TasksInOrder /\ L!TimersOnTime

\* EventLoop: a task that was pushed runs, and a timer that was set fires, unless the loop
\* is halted.
LoopServes == L!TaskRuns /\ L!TimerFires
=============================================================================
