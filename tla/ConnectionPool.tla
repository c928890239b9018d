--------------------------- MODULE ConnectionPool ---------------------------
(***************************************************************************)
(* net/connection_pool.hpp: the pool of connections to one endpoint.       *)
(*                                                                         *)
(* A user is one use of the pool, from acquire() to the release() of what  *)
(* it returned; a thread that holds two connections is two users, so users *)
(* may outnumber the threads, and a call needs a thread that is free.      *)
(* mutex_ makes each critical section one step.  acquire() leaves the      *)
(* mutex before it creates a connection and updates the two atomic         *)
(* counters afterwards, one by one, so those are steps of their own and    *)
(* every interleaving with other threads is explored.  cv_ is a wait set:  *)
(* a thread waits until notified (or wakes spuriously) and then            *)
(* re-evaluates the predicate.                                             *)
(***************************************************************************)
EXTENDS Integers, Sequences, FiniteSets

CONSTANTS
  Users,            \* uses of the pool at the same time
  NumThreads,       \* threads that call it
  Conns,            \* identities of Connection objects, reused when free
  None,             \* the null Connection::Ptr
  max_connections,  \* ConnectionPoolConfig::max_connections
  max_idle,         \* ConnectionPoolConfig::max_idle
  WordSize          \* number of values of a size_t

UsersAssumption == IsFiniteSet(Users) /\ Users # {}
ConnsAssumption == None \notin Conns
LimitsAssumption ==
  /\ max_connections \in Nat
  /\ max_idle \in Nat
  /\ WordSize \in Nat
  /\ max_idle < WordSize
  /\ NumThreads \in Nat \ {0}
  /\ max_connections + NumThreads < WordSize
PoolAssumption == UsersAssumption /\ ConnsAssumption /\ LimitsAssumption

VARIABLES
  pc,                  \* where each user is in acquire() / release()
  conn,                \* the connection each user holds, or None
  open,                \* connections whose state_ is Connected
  idle_connections_,   \* the deque of idle connections
  total_connections_,
  active_connections_,
  upsets               \* history: whether a connection failed, whether shutdown() came

vars == <<pc, conn, open, idle_connections_, total_connections_, active_connections_, upsets>>

\* "out": outside the pool; "creating": past the limit test, mutex released;
\* "counting": connection made, only active_connections_ incremented yet;
\* "using": acquire() returned; "waiting" / "notified": inside cv_.wait;
\* "retry": about to call acquire() again.
Places == {"out", "creating", "counting", "using", "waiting", "notified", "retry"}

At(place) == {t \in Users : pc[t] = place}

\* users inside acquire(), each of which occupies a thread
InCall == {t \in Users : pc[t] \notin {"out", "using"}}
ThreadFree == Cardinality(InCall) < NumThreads

\* size_t arithmetic
SubUnwrapped(n, k) == n - k  \* mutant: a signed counter

Add1(n) == IF n + 1 = WordSize THEN 0 ELSE n + 1
Sub(n, k) == IF n >= k THEN n - k ELSE n - k + WordSize

Idle == {idle_connections_[i] : i \in DOMAIN idle_connections_}
Held == {conn[t] : t \in Users} \ {None}

-----------------------------------------------------------------------------
Init ==
  /\ pc = [t \in Users |-> "out"]
  /\ conn = [t \in Users |-> None]
  /\ open = {}
  /\ idle_connections_ = <<>>
  /\ total_connections_ = 0
  /\ active_connections_ = 0
  /\ upsets = {}

(***************************************************************************)
(* acquire(): the loop pops the back of the deque until it finds a         *)
(* connected one; every dead one popped costs one from total_connections_. *)
(***************************************************************************)
Calling(t) == pc[t] = "retry" \/ (pc[t] = "out" /\ ThreadFree)

\* position i is where the loop stops: a connected one with only dead ones behind it
StopsAt(i) ==
  /\ idle_connections_[i] \in open
  /\ \A j \in DOMAIN idle_connections_ : j > i => idle_connections_[j] \notin open

\* mutant: the connection stays in the deque
AcquireIdleNoPop(t) ==
  /\ Calling(t)
  /\ \E i \in DOMAIN idle_connections_ :
       /\ StopsAt(i)
       /\ conn' = [conn EXCEPT ![t] = idle_connections_[i]]
       /\ idle_connections_' = SubSeq(idle_connections_, 1, i)
       /\ total_connections_' = Sub(total_connections_, Len(idle_connections_) - i)
  /\ active_connections_' = Add1(active_connections_)
  /\ pc' = [pc EXCEPT ![t] = "using"]
  /\ UNCHANGED <<open, upsets>>

\* mutant: dead connections dropped on the way are not uncounted
AcquireIdleNoUncount(t) ==
  /\ Calling(t)
  /\ \E i \in DOMAIN idle_connections_ :
       /\ StopsAt(i)
       /\ conn' = [conn EXCEPT ![t] = idle_connections_[i]]
       /\ idle_connections_' = SubSeq(idle_connections_, 1, i - 1)
  /\ active_connections_' = Add1(active_connections_)
  /\ pc' = [pc EXCEPT ![t] = "using"]
  /\ UNCHANGED <<open, total_connections_, upsets>>

AcquireIdle(t) ==
  /\ Calling(t)
  /\ \E i \in DOMAIN idle_connections_ :
       /\ StopsAt(i)
       /\ conn' = [conn EXCEPT ![t] = idle_connections_[i]]
       /\ idle_connections_' = SubSeq(idle_connections_, 1, i - 1)
       /\ total_connections_' = Sub(total_connections_, Len(idle_connections_) - i)
  /\ active_connections_' = Add1(active_connections_)
  /\ pc' = [pc EXCEPT ![t] = "using"]
  /\ UNCHANGED <<open, upsets>>

\* the loop emptied the deque without finding a connected one
DropDeadIdle ==
  /\ Idle \cap open = {}
  /\ idle_connections_' = <<>>
  /\ total_connections_' = Sub(total_connections_, Len(idle_connections_))

\* mutant: off by one in the limit test
AcquireNewOffByOne(t) ==
  /\ Calling(t)
  /\ DropDeadIdle
  /\ total_connections_' <= max_connections
  /\ pc' = [pc EXCEPT ![t] = "creating"]
  /\ UNCHANGED <<conn, open, active_connections_, upsets>>

\* below the limit: unlock and go on to create_connection()
AcquireNew(t) ==
  /\ Calling(t)
  /\ DropDeadIdle
  /\ total_connections_' < max_connections
  /\ pc' = [pc EXCEPT ![t] = "creating"]
  /\ UNCHANGED <<conn, open, active_connections_, upsets>>

\* at the limit: cv_.wait, whose predicate is false at this point
AcquireWait(t) ==
  /\ Calling(t)
  /\ DropDeadIdle
  /\ total_connections_' >= max_connections
  /\ pc' = [pc EXCEPT ![t] = "waiting"]
  /\ UNCHANGED <<conn, open, active_connections_, upsets>>

\* create_connection() made a socket; the first of the two fetch_adds
Create(t) ==
  /\ pc[t] = "creating"
  /\ \E c \in Conns \ (Idle \cup Held) :
       /\ conn' = [conn EXCEPT ![t] = c]
       /\ open' = open \cup {c}
  /\ active_connections_' = Add1(active_connections_)
  /\ pc' = [pc EXCEPT ![t] = "counting"]
  /\ UNCHANGED <<idle_connections_, total_connections_, upsets>>

\* the second fetch_add; acquire() returns
CountTotal(t) ==
  /\ pc[t] = "counting"
  /\ total_connections_' = Add1(total_connections_)
  /\ pc' = [pc EXCEPT ![t] = "using"]
  /\ UNCHANGED <<conn, open, idle_connections_, active_connections_, upsets>>

\* socket() failed: acquire() returns nullptr
CreateFail(t) ==
  /\ pc[t] = "creating"
  /\ pc' = [pc EXCEPT ![t] = "out"]
  /\ UNCHANGED <<conn, open, idle_connections_, total_connections_, active_connections_, upsets>>

\* a waiter that was signalled re-evaluates the predicate under mutex_
Wake(t) ==
  /\ pc[t] = "notified"
  /\ IF idle_connections_ # <<>> \/ total_connections_ < max_connections
     THEN pc' = [pc EXCEPT ![t] = "retry"]
     ELSE pc' = [pc EXCEPT ![t] = "waiting"]
  /\ UNCHANGED <<conn, open, idle_connections_, total_connections_, active_connections_, upsets>>

SpuriousWakeup(t) ==
  /\ pc[t] = "waiting"
  /\ pc' = [pc EXCEPT ![t] = "notified"]
  /\ UNCHANGED <<conn, open, idle_connections_, total_connections_, active_connections_, upsets>>

(***************************************************************************)
(* release()                                                               *)
(***************************************************************************)
\* what both branches do to the releasing thread; notify_one() picks the waiter
Leave(t) == [pc EXCEPT ![t] = "out"]

NotifyNobody(t) == pc' = Leave(t)  \* mutant: notify_one() forgotten

NotifyOne(t) ==
  IF At("waiting") = {} THEN pc' = Leave(t)
  ELSE \E w \in At("waiting") : pc' = [Leave(t) EXCEPT ![w] = "notified"]

ReleaseIdle(t) ==
  /\ pc[t] = "using"
  /\ ThreadFree
  /\ conn[t] \in open
  /\ Len(idle_connections_) < max_idle
  /\ idle_connections_' = Append(idle_connections_, conn[t])
  /\ active_connections_' = Sub(active_connections_, 1)
  /\ NotifyOne(t)
  /\ conn' = [conn EXCEPT ![t] = None]
  /\ UNCHANGED <<open, total_connections_, upsets>>

ReleaseClose(t) ==
  /\ pc[t] = "using"
  /\ ThreadFree
  /\ conn[t] \notin open \/ Len(idle_connections_) >= max_idle
  /\ open' = open \ {conn[t]}
  /\ active_connections_' = Sub(active_connections_, 1)
  /\ total_connections_' = Sub(total_connections_, 1)
  /\ pc' = Leave(t)
  /\ conn' = [conn EXCEPT ![t] = None]
  /\ UNCHANGED <<idle_connections_, upsets>>

(***************************************************************************)
(* An operation on connection c fails and Connection::handle_error closes  *)
(* it, whether c is in use or, for an operation that completes late, idle. *)
(***************************************************************************)
Fail(c) ==
  /\ c \in open
  /\ c \in Idle \/ \E t \in At("using") : conn[t] = c
  /\ open' = open \ {c}
  /\ upsets' = upsets \cup {"failure"}
  /\ UNCHANGED <<pc, conn, idle_connections_, total_connections_, active_connections_>>

\* shutdown(), called by another owner of the pool (ConnectionPoolManager)
Shutdown ==
  /\ open' = open \ Idle
  /\ idle_connections_' = <<>>
  /\ total_connections_' = 0
  /\ active_connections_' = 0
  /\ upsets' = upsets \cup {"shutdown"}
  /\ UNCHANGED <<pc, conn>>

-----------------------------------------------------------------------------
\* what the pool's code does once a call has begun
Working(t) ==
  \/ pc[t] = "retry" /\ (AcquireIdle(t) \/ AcquireNew(t) \/ AcquireWait(t))
  \/ Create(t) \/ CountTotal(t) \/ CreateFail(t)
  \/ Wake(t)
  \/ ReleaseIdle(t) \/ ReleaseClose(t)

Step(t) ==
  \/ AcquireIdle(t) \/ AcquireNew(t) \/ AcquireWait(t)
  \/ Create(t) \/ CountTotal(t) \/ CreateFail(t)
  \/ Wake(t) \/ SpuriousWakeup(t)
  \/ ReleaseIdle(t) \/ ReleaseClose(t)

Next == (\E t \in Users : Step(t)) \/ (\E c \in Conns : Fail(c)) \/ Shutdown

\* threads keep running, and whoever acquired a connection releases it
Fairness == \A t \in Users : WF_vars(Working(t))

Spec == Init /\ [][Next]_vars /\ Fairness

-----------------------------------------------------------------------------
TypeOK ==
  /\ pc \in [Users -> Places]
  /\ conn \in [Users -> Conns \cup {None}]
  /\ open \in SUBSET Conns
  /\ idle_connections_ \in Seq(Conns)
  /\ total_connections_ \in 0 .. WordSize - 1
  /\ active_connections_ \in 0 .. WordSize - 1
  /\ upsets \subseteq {"failure", "shutdown"}

\* Exactly the threads between create_connection() / the deque and release()
\* hold a connection.
HoldersHaveOne == \A t \in Users : conn[t] # None <=> pc[t] \in {"counting", "using"}

\* A connection is never given to two threads, never idle twice, and never
\* idle while a thread uses it: acquire() and release() move the one
\* reference under mutex_, and a created connection is fresh.
ExclusiveOwner ==
  /\ \A t, u \in Users : conn[t] # None /\ conn[t] = conn[u] => t = u
  /\ \A i, j \in DOMAIN idle_connections_ :
       idle_connections_[i] = idle_connections_[j] => i = j
  /\ Idle \cap Held = {}

ShutDown == "shutdown" \in upsets

\* Until shutdown() zeroes them, the counters read by total() and active()
\* agree with the connections that exist, at every point of every
\* interleaving: the only lag is the one increment a thread that just created
\* a connection still owes (acquire() increments active_connections_ first,
\* total_connections_ second).
Accounting ==
  \/ ShutDown
  \/ /\ active_connections_ = Cardinality(At("using")) + Cardinality(At("counting"))
     /\ total_connections_ = Len(idle_connections_) + Cardinality(At("using"))

\* acquire() tests the limit under mutex_ but increments after releasing it,
\* so the limit can be overrun, but (until shutdown() forgets the connections
\* in use) never by more than the other threads that were past the test at
\* the same time; idle connections keep their own limit.
BoundedOvershoot ==
  \/ ShutDown
  \/ /\ total_connections_ + Cardinality(At("creating")) + Cardinality(At("counting"))
          <= max_connections + NumThreads - 1
     /\ Len(idle_connections_) <= max_idle

\* While no connection fails and nobody shuts the pool down, release()'s
\* notify_one() wakes enough: nobody is left waiting for good in acquire() once
\* all the others have left.  (The release() of a connection that has failed
\* notifies nobody.)
WaiterNotStranded ==
  \A t \in Users :
    <>[](upsets = {} /\ \A u \in Users \ {t} : pc[u] = "out") => []<>(pc[t] # "waiting")

=============================================================================
