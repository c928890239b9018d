SPECIFICATION SerialSpec
CONSTANTS
  Threads = {t1, t2}
  Delays = {1, 3, 8}
  slots_ = 3
  tick_ms_ = 2
  WordSize = 32
  MaxTimers = 3
  MaxTick = 6
CHECK_DEADLOCK FALSE
INVARIANTS OnTime
PROPERTIES ImplementsService
