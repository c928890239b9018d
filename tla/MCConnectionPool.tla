-------------------------- MODULE MCConnectionPool --------------------------
(* ConnectionPool as TLC explores it and as the proofs are about it. *)
EXTENDS Integers, Sequences, FiniteSets

CONSTANTS Users, NumThreads, Conns, None, max_connections, max_idle, PoolWordSize
VARIABLES pc, conn, open, idle_connections_, total_connections_, active_connections_, upsets

P == INSTANCE ConnectionPool WITH WordSize <- PoolWordSize

ASSUME ConstantsAssumption == P!PoolAssumption

PoolSpec == P!Spec

-----------------------------------------------------------------------------
(* The properties of ConnectionPool, under names that no other module uses. *)

\* The counters stay values of a size_t, after shutdown() too, and the deque holds
\* connections only.
PoolTypeOK == P!TypeOK

\* acquire(), release() and shutdown() never give one connection to two owners.
ExclusiveOwner == P!ExclusiveOwner

\* Until shutdown(), total() and active() agree with the connections that exist.
Accounting == P!Accounting

\* Until shutdown(), acquire() overruns max_connections by the other threads at most.
BoundedOvershoot == P!BoundedOvershoot

\* While nothing fails, notify_one() in release() leaves nobody waiting in acquire() for
\* good once all others have left.
WaiterNotStranded == P!WaiterNotStranded
=============================================================================
