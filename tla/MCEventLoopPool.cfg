SPECIFICATION Spec
CONSTANTS
  worker_count_ = 2
  Posters = {p1}
  Main = main
  None = None
  Dispatched = {d1}
  Posted = {t1}
  Nested = {d1, t1}
  MaxFails = 1
INVARIANTS QueueOrder AtMostOnce
  
CHECK_DEADLOCK FALSE
