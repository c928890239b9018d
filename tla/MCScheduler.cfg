SPECIFICATION SchedulerSpec
CONSTANTS
  thread_count_ = 2
  Clients = {p1}
  Coros = {c1, c2}
  None = None
  MaxYields = 2
CHECK_DEADLOCK FALSE
INVARIANT OnePlace
PROPERTIES EveryTaskRuns StopReturns
