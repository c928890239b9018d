SPECIFICATION Spec
CONSTANTS
  Posts = {p1}
  Coros = {c1}
  Timers = {t1, t2}
  Delays = {0, 1}
  queue_depth = 2
  MaxTime = 2
INVARIANT SpawnedFrameLives
CHECK_DEADLOCK FALSE
