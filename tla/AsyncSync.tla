----------------------------- MODULE AsyncSync ------------------------------
(***************************************************************************)
(* coroutine/sync.hpp: AsyncMutex, AsyncSemaphore and                      *)
(* AsyncConditionVariable.  Every coroutine starts on a thread of its own; *)
(* a waiter is resumed inside the call that finds it, which holds          *)
(* waiters_mutex_ until the waiter suspends again or ends.  A waiter that  *)
(* calls the same object meanwhile waits for its own thread.               *)
(***************************************************************************)
EXTENDS Integers, Sequences, FiniteSets

CONSTANTS Coros,     \* coroutines that lock, acquire or wait, once each
          Callers,   \* threads that release or notify
          None,
          Count,     \* the initial count of the semaphore
          WordSize,  \* size_t wraps at this
          MaxCalls   \* bound: calls by the callers

Objects == {"mutex", "semaphore", "cv"}

VARIABLES locked_, count_,
          waiters_,        \* object -> queue of coroutines
          waiters_mutex_,  \* object -> the thread that holds it
          at,              \* coroutine -> [op, pc]
          caller,          \* caller -> [op, pc]: the call it is in
          unlocking,       \* coroutines whose wait() has yet to unlock the mutex
          stuck,           \* threads that wait for a mutex of their own
          entered,         \* calls by the callers so far
          acquires,        \* history: coroutines in the order in which they acquired first
          released,        \* history: releases that have taken the mutex
          owed             \* history: caller -> waiters when its notify_all took the mutex

vars == <<locked_, count_, waiters_, waiters_mutex_, at, caller, unlocking, stuck, entered, acquires, released, owed>>

Idle == [op |-> "none", pc |-> "idle"]
Init ==
  /\ locked_ = FALSE /\ count_ = Count
  /\ waiters_ = [o \in Objects |-> <<>>] /\ waiters_mutex_ = [o \in Objects |-> None]
  /\ at = [c \in Coros |-> Idle] /\ caller = [g \in Callers |-> Idle] /\ unlocking = {} /\ stuck = {}
  /\ entered = 0 /\ acquires = <<>> /\ released = 0 /\ owed = [g \in Callers |-> {}]

Set(s) == {s[i] : i \in DOMAIN s}
Free(o) == waiters_mutex_[o] = None
Take(o, h) == waiters_mutex_' = [waiters_mutex_ EXCEPT ![o] = h]
Go(c, op, pc) == at' = [at EXCEPT ![c] = [op |-> op, pc |-> pc]]
Push(o, c) == waiters_' = [waiters_ EXCEPT ![o] = Append(@, c)]

(***************************************************************************)
(* lock(), acquire() and wait(): await_ready, then await_suspend.          *)
(***************************************************************************)
Ready(o) == CASE o = "mutex" -> ~locked_ [] o = "semaphore" -> count_ > 0 [] o = "cv" -> FALSE

await_ready(c, o) ==
  /\ at[c] = Idle
  /\ Go(c, o, IF Ready(o) THEN "in" ELSE "suspend")
  /\ acquires' = IF o = "semaphore" THEN Append(acquires, c) ELSE acquires
  /\ UNCHANGED <<unlocking, locked_, count_, waiters_, waiters_mutex_, caller, stuck, entered, released, owed>>

\* mutant: the waiter is queued whatever the count has become
AvailableNever(o) == FALSE
Available(o) == Ready(o)

Decremented(n) == (n - 1) % WordSize

\* the flag is exchanged or the count decremented (past zero, it wraps) under waiters_mutex_
await_suspend(c) ==
  LET o == at[c].op IN
  /\ at[c].pc = "suspend" /\ Free(o)
  /\ locked_' = (locked_ \/ o = "mutex")
  /\ count_' = IF o = "semaphore" THEN Decremented(count_) ELSE count_
  /\ IF Available(o) THEN /\ Go(c, o, "inline") /\ Take(o, c)
                          /\ UNCHANGED waiters_
                     ELSE /\ Go(c, o, "queued") /\ Push(o, c)
                          /\ UNCHANGED waiters_mutex_
  /\ unlocking' = IF o = "cv" THEN unlocking \cup {c} ELSE unlocking
  /\ UNCHANGED <<caller, stuck, entered, acquires, released, owed>>

\* unlock() of the mutex: the first waiter goes on inside the call, the flag stays set;
\* coro is where the coroutines are without it
Unlocked(coro) ==
  /\ Free("mutex")
  /\ IF waiters_["mutex"] = <<>>
     THEN /\ locked_' = FALSE /\ at' = coro
          /\ UNCHANGED <<waiters_, waiters_mutex_>>
     ELSE /\ at' = [coro EXCEPT ![Head(waiters_["mutex"])].pc = "inline"]
          /\ waiters_' = [waiters_ EXCEPT !["mutex"] = Tail(@)]
          /\ Take("mutex", Head(waiters_["mutex"]))
          /\ UNCHANGED locked_

\* wait() goes on, on the waiter's own thread, to unlock the mutex, even if the waiter
\* has been resumed already
UnlockAfterPush(c) ==
  /\ c \in unlocking
  /\ Unlocked(at)
  /\ unlocking' = unlocking \ {c}
  /\ UNCHANGED <<count_, caller, stuck, entered, acquires, released, owed>>

\* a coroutine that was resumed under waiters_mutex_, by the thread that holds it
Resumed(c) == at[c].pc = "inline"

\* it suspends elsewhere or ends: the call that resumed it goes on
Leaves(c) ==
  /\ Resumed(c)
  /\ Go(c, at[c].op, "in")
  /\ IF waiters_mutex_[at[c].op] = c THEN Take(at[c].op, None) ELSE UNCHANGED waiters_mutex_
  /\ UNCHANGED <<unlocking, locked_, count_, waiters_, caller, stuck, entered, acquires, released, owed>>

\* it entered the same object: release(), unlock(), another wait
CallsBack(c) ==
  /\ Resumed(c)
  /\ Go(c, at[c].op, "stuck")
  /\ stuck' = stuck \cup {waiters_mutex_[at[c].op]}
  /\ UNCHANGED <<unlocking, locked_, count_, waiters_, waiters_mutex_, caller, entered, acquires, released, owed>>

\* a coroutine that runs on unlocks, or its lock guard does
unlock(c) ==
  /\ at[c] = [op |-> "mutex", pc |-> "in"]
  /\ Unlocked([at EXCEPT ![c].pc = "out"])
  /\ UNCHANGED <<unlocking, count_, caller, stuck, entered, acquires, released, owed>>

(***************************************************************************)
(* release(), notify_one() and notify_all().                               *)
(***************************************************************************)
Ops == {"release", "notify_one", "notify_all"}
Of(op) == IF op = "release" THEN "semaphore" ELSE "cv"

Enter(g, op) ==
  /\ caller[g] = Idle /\ entered < MaxCalls /\ Free(Of(op))
  /\ entered' = entered + 1
  /\ Take(Of(op), g)
  /\ caller' = [caller EXCEPT ![g] = [op |-> op, pc |-> "first"]]
  /\ released' = released + (IF op = "release" THEN 1 ELSE 0)
  /\ owed' = [owed EXCEPT ![g] = IF op = "notify_all" THEN Set(waiters_["cv"]) ELSE {}]
  /\ UNCHANGED <<unlocking, locked_, count_, waiters_, at, stuck, acquires>>

\* whether the call resumes a waiter now
More(g) == caller[g].op = "notify_all" \/ caller[g].pc = "first"

\* nobody it resumed is running
Alone(g) == ~\E c \in Coros : Resumed(c) /\ waiters_mutex_[at[c].op] = g

ResumeNext(g) ==
  LET o == Of(caller[g].op) IN
  /\ caller[g] # Idle /\ g \notin stuck /\ Alone(g) /\ More(g) /\ waiters_[o] # <<>>
  /\ waiters_' = [waiters_ EXCEPT ![o] = Tail(@)]
  /\ Go(Head(waiters_[o]), o, "inline")
  /\ caller' = [caller EXCEPT ![g].pc = "more"]
  /\ UNCHANGED <<unlocking, locked_, count_, waiters_mutex_, stuck, entered, acquires, released, owed>>

Return(g) ==
  LET o == Of(caller[g].op) IN
  /\ caller[g] # Idle /\ g \notin stuck /\ Alone(g) /\ (~More(g) \/ waiters_[o] = <<>>)
  /\ count_' = IF caller[g] = [op |-> "release", pc |-> "first"] THEN (count_ + 1) % WordSize ELSE count_
  /\ Take(o, None)
  /\ caller' = [caller EXCEPT ![g] = Idle]
  /\ owed' = [owed EXCEPT ![g] = {}]
  /\ UNCHANGED <<unlocking, locked_, waiters_, at, stuck, entered, acquires, released>>

Step(c) == await_suspend(c) \/ UnlockAfterPush(c) \/ Leaves(c) \/ CallsBack(c)
Next ==
  \/ \E c \in Coros : Step(c) \/ unlock(c) \/ \E o \in Objects : await_ready(c, o)
  \/ \E g \in Callers : ResumeNext(g) \/ Return(g) \/ \E op \in Ops : Enter(g, op)

\* threads run; coroutines that were resumed go on
Spec ==
  /\ Init /\ [][Next]_vars
  /\ \A c \in Coros : WF_vars(Step(c))
  /\ \A g \in Callers : WF_vars(ResumeNext(g) \/ Return(g))

-----------------------------------------------------------------------------
\* Every variable has its type, and a mutex is held while someone resumed under it runs.
TypeOK ==
  /\ locked_ \in BOOLEAN /\ count_ \in 0..(WordSize - 1)
  /\ \A o \in Objects : Set(waiters_[o]) \subseteq Coros
  /\ waiters_mutex_ \in [Objects -> Coros \cup Callers \cup {None}]
  /\ stuck \subseteq Coros \cup Callers
  /\ \A c \in Coros : Resumed(c) => waiters_mutex_[at[c].op] # None

\* While one coroutine only has acquired it, a semaphore that starts at zero is a
\* signal: acquire() returns only after a release() has begun.  (A second one reads
\* the count the first has wrapped.)
SignalWaits ==
  (Count = 0 /\ Len(acquires) = 1 /\ at[acquires[1]].pc \in {"inline", "in", "stuck"}) => released > 0

\* The signal is not lost, whichever of acquire() and release() comes first, unless a
\* thread waits for itself.
SignalArrives ==
  \A c \in Coros : (acquires = <<c>> /\ released > 0)
                     ~> (at[c].pc \in {"inline", "in", "stuck"} \/ stuck # {} \/ Len(acquires) > 1)

\* notify_all() resumes every coroutine that waited when it took the mutex before it returns.
NotifyAllWakes ==
  [][\A g \in Callers : (caller[g].op = "notify_all" /\ caller'[g] = Idle)
        => owed[g] \cap Set(waiters_["cv"]) = {}]_vars

\* "协程互斥锁" (coroutine mutex): of the coroutines that have locked, only one is in at a time.
MutualExclusion ==
  Cardinality({c \in Coros : at[c].op = "mutex" /\ at[c].pc \in {"in", "inline"}}) <= 1
=============================================================================
