SPECIFICATION MCSpec
CONSTANTS
  Clients = {c1, c2}
  max_connections = 1
  MaxStarts = 2
  Tasks = {t1, t2}
  max_reconnect_attempts = 2
  pool_size = 1
  MaxSockets = 5
  MaxCalls = 6
INVARIANTS ActiveCount WithinLimit StopLetsInOne ClientSound BlockedByHolders
PROPERTY GivenBack
CHECK_DEADLOCK FALSE
