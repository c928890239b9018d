----------------------------- MODULE MCScheduler -----------------------------
(* Scheduler as TLC explores it and as the proofs are about it. *)
EXTENDS Integers, Sequences

CONSTANTS thread_count_, Clients, Coros, None, MaxYields
VARIABLES local_queues_, running_, cv_mutex_, pc, task, loop_i, min_idx, min_size, stopping, life, yields

W == INSTANCE Scheduler WITH i <- loop_i

ASSUME ConstantsAssumption == W!SchedulerAssumption

SchedulerSpec == W!Spec

-----------------------------------------------------------------------------
(* The properties of Scheduler, under names that no other module uses. *)

\* A scheduled handle is in exactly one hand or one place of one queue, whatever pops,
\* steals and reschedules interleave.
OnePlace == W!OnePlace

\* Every coroutine scheduled is run to its end, unless somebody calls stop().
EveryTaskRuns == W!EveryTaskRuns

\* stop() returns: every worker sees running_ and is joined.
StopReturns == W!StopReturns
=============================================================================
