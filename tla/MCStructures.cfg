SPECIFICATION MCSpec
CONSTANTS
  Threads = {t1, t2}
  Delays = {0, 3, 6}
  slots_ = 2
  tick_ms_ = 2
  WordSize = 32
  MaxTimers = 3
  MaxTick = 5
  Buffers = {b1, b2}
  Bytes = {x, y}
  BlockSize = 1
  Capacities = {0}
  MaxSize = 1
  MaxBlocks = 2
  MaxCapacity = 2
  MaxChain = 2
  MaxReads = 1
  Selectors = {t1, t2}
  Hosts = {h1, h2}
  Weights = {0, 2}
  None = None
  NoEndpoint = NoEndpoint
  CounterSize = 8
  MaxEndpoints = 2
  MaxSelects = 4
  Radix = 4
  LenWidth = 1
  MaxItems = 3
  MaxLines = 5
  Values = {x, y}
  MaxYields = 4
  MaxLoops = 3
SYMMETRY Symmetry
INVARIANTS Consistent OneFate WithinOneTurn HoldsUnread SelectsFairly RoundTrip ParsesQuoted SeesAll
CHECK_DEADLOCK FALSE
