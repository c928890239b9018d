SPECIFICATION Spec
CONSTANTS
  Coros = {c1, c2}
  Callers = {g1}
  None = None
  Count = 0
  WordSize = 4
  MaxCalls = 2
INVARIANT MutualExclusion
CHECK_DEADLOCK FALSE
