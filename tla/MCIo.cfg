SPECIFICATION MCSpec
CONSTANTS
  kMaxCallbacks = 3
  queue_depth = 2
  Messages = {2}
  MaxOps = 4
  MaxTimers = 1
  MaxFails = 2
  Posts = {p1}
  Coros = {c1}
  Timers = {t1, t2}
  Delays = {0, 1}
  LoopDepth = 1
  MaxTime = 1
INVARIANTS OwnCallback NoneDropped LoopInOrder
PROPERTIES EveryOpReaped LoopServes
CHECK_DEADLOCK FALSE
