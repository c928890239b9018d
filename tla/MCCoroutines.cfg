SPECIFICATION MCSpec
CONSTANTS
  MaxAwaits = 2
  UsedKinds = {"Io", "Timeout", "TimedRecv", "TimedSend", "WithTimeout", "Async", "Sleep", "WaitUntil"}
  Coros = {c1, c2}
  Main = Main
  None = None
  MaxOps = 6
  Callers = {g1, g2}
  Count = 0
  WordSize = 4
  MaxCalls = 3
INVARIANTS Truthful SoundIfUsedWell
PROPERTIES WaitersWoken AwaitsEnd
CHECK_DEADLOCK FALSE
