SPECIFICATION PoolSpec
CONSTANTS
  Users = {u1, u2, u3, u4}
  NumThreads = 2
  Conns = {c1, c2, c3}
  None = None
  max_connections = 1
  max_idle = 2
  PoolWordSize = 8
INVARIANTS PoolTypeOK ExclusiveOwner Accounting BoundedOvershoot
PROPERTIES WaiterNotStranded
