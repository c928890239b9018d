----------------------------- MODULE EventLoop ------------------------------
(***************************************************************************)
(* io/event_loop.hpp: the loop thread in run(), and other threads that     *)
(* post tasks, spawn coroutines, set timers and stop it.  timer_map_ is    *)
(* never filled, so cancel_timer() returns false and changes nothing.      *)
(*                                                                         *)
(* An exception of a task, of a timer callback or of the ring leaves run() *)
(* with running_ as it was; run() may be called again.  Of the ring, which *)
(* IoUring models, the SQEs are kept that failed submits leave behind: no  *)
(* caller submits a full queue, because each prepares an SQE first.        *)
(***************************************************************************)
EXTENDS Integers, Sequences, FiniteSets

CONSTANTS Posts,      \* plain tasks other threads post
          Coros,      \* coroutines they spawn
          Timers,     \* timers they or callbacks set
          Delays,     \* their delays
          queue_depth,\* entries of the ring's submission queue
          MaxTime     \* bound: ticks of the clock

EventLoopAssumption == Delays \subseteq Nat /\ queue_depth \in Nat \ {0} /\ MaxTime \in Nat

VARIABLES running_, pending_tasks_,
          timers_,      \* set of <<timer, expire_time>>
          now,          \* the clock
          setting,      \* timers in set_timer() that wait for timers_mutex_
          waking,       \* tasks pushed by a post() that has not returned from wakeup()
          queued,       \* SQEs in the ring's queue, left by failed submits
          pc,           \* the loop: stopped, now, lock, timers, take, tasks, ring, wait,
                        \* blocked (in the ring, without a timeout), locked (see FireTimer)
          seen,         \* process_timers: the time it read
          tasks,        \* process_tasks: the tasks it took
          destroyed,    \* coroutines whose frame has been destroyed
          in_flight,    \* coroutines with an operation in the ring
          posted, taken,\* history: tasks in the order they were pushed, left a batch
          ran, thrown,  \* history: tasks that were run, that threw
          fired,        \* history: timers that fired
          pass,         \* history: expire_times fired in this pass, in order
          uaf           \* history: a destroyed frame was resumed

shared == <<running_, pending_tasks_, timers_, now, setting, waking>>
frames == <<destroyed, in_flight>>
batches == <<taken, ran, thrown>>
history == <<posted, batches, fired, pass, uaf>>
vars == <<shared, queued, pc, seen, tasks, frames, history>>

Init ==
  /\ running_ = FALSE /\ pending_tasks_ = <<>> /\ timers_ = {} /\ now = 0 /\ setting = {}
  /\ waking = {} /\ queued = 0
  /\ pc = "stopped" /\ seen = 0 /\ tasks = <<>>
  /\ destroyed = {} /\ in_flight = {}
  /\ posted = <<>> /\ taken = <<>> /\ ran = {} /\ thrown = {}
  /\ fired = {} /\ pass = <<>> /\ uaf = FALSE

Set(s) == {s[i] : i \in DOMAIN s}
TimersLocked == pc \in {"timers", "locked"}
Known(t) == t \in fired \cup {x[1] : x \in timers_ \cup setting}

\* get_sqe() finds no entry
Full == queued = queue_depth
\* prepare and submit: what is queued goes to the kernel, or the SQE stays and submit() throws
Submits == ~Full /\ queued' = 0
SubmitFails == ~Full /\ queued' = queued + 1

Tick ==
  /\ now < MaxTime
  /\ now' = now + 1
  /\ UNCHANGED <<running_, pending_tasks_, timers_, setting, waking, queued, pc, seen, tasks, frames,
                 history>>

(***************************************************************************)
(* Other threads.                                                          *)
(***************************************************************************)
post(task) ==
  /\ task \notin Set(posted)
  /\ pending_tasks_' = Append(pending_tasks_, task)
  /\ posted' = Append(posted, task)
  /\ waking' = waking \cup {task}
  /\ UNCHANGED <<running_, timers_, now, setting, queued, pc, seen, tasks, frames, batches, fired, pass,
                 uaf>>

\* post() ends with it.  When it throws the poster gets the exception, of a task that is
\* in the queue.
wakeup(task) ==
  /\ task \in waking
  /\ waking' = waking \ {task}
  /\ Submits \/ SubmitFails \/ (Full /\ UNCHANGED queued)
  /\ UNCHANGED <<running_, pending_tasks_, timers_, now, setting, pc, seen, tasks, frames, history>>

spawn(c) == post(c)   \* a task that starts c

\* the time is read before the mutex is taken
set_timer(t, d) ==
  /\ ~Known(t)
  /\ setting' = setting \cup {<<t, now + d>>}
  /\ UNCHANGED <<running_, pending_tasks_, timers_, now, waking, queued, pc, seen, tasks, frames, history>>

PushTimer(x) ==
  /\ x \in setting /\ ~TimersLocked
  /\ setting' = setting \ {x} /\ timers_' = timers_ \cup {x}
  /\ UNCHANGED <<running_, pending_tasks_, now, waking, queued, pc, seen, tasks, frames, history>>

stop ==
  /\ running_
  /\ running_' = FALSE
  /\ UNCHANGED <<pending_tasks_, timers_, now, setting, waking, queued, pc, seen, tasks, frames, history>>

(***************************************************************************)
(* The loop thread: run(), run_once(10).                                   *)
(***************************************************************************)
run ==
  /\ pc = "stopped"
  /\ running_' = TRUE /\ pc' = "now"
  /\ UNCHANGED <<pending_tasks_, timers_, now, setting, waking, queued, seen, tasks, frames, history>>

ReadClock ==
  /\ pc = "now"
  /\ seen' = now /\ pc' = "lock" /\ pass' = <<>>
  /\ UNCHANGED <<shared, queued, tasks, frames, posted, batches, fired, uaf>>

LockTimers ==
  /\ pc = "lock"
  /\ pc' = "timers"
  /\ UNCHANGED <<shared, queued, seen, tasks, frames, history>>

Due == {x \in timers_ : x[2] <= seen}
Top(x) == x \in Due /\ \A y \in timers_ : x[2] <= y[2]

\* the callback runs under timers_mutex_: if it sets a timer the thread waits
\* for itself; it may throw
FireTimer(x) ==
  /\ pc = "timers" /\ Top(x)
  /\ timers_' = timers_ \ {x}
  /\ fired' = fired \cup {x[1]} /\ pass' = Append(pass, x[2])
  /\ pc' \in {"timers", "stopped"} \cup IF \E t \in Timers : ~Known(t) THEN {"locked"} ELSE {}
  /\ UNCHANGED <<running_, pending_tasks_, now, setting, waking, queued, seen, tasks, frames, posted,
                 batches, uaf>>

TimersDone ==
  /\ pc = "timers" /\ Due = {}
  /\ pc' = "take"
  /\ UNCHANGED <<shared, queued, seen, tasks, frames, history>>

\* mutant: a copy is taken and the queue is emptied only afterwards
TakeTasksNoClear ==
  /\ pc = "take"
  /\ tasks' = pending_tasks_
  /\ pc' = "tasks"
  /\ UNCHANGED <<shared, queued, seen, frames, history>>
TakeTasks ==
  /\ pc = "take"
  /\ tasks' = pending_tasks_ /\ pending_tasks_' = <<>>
  /\ pc' = "tasks"
  /\ UNCHANGED <<running_, timers_, now, setting, waking, queued, seen, frames, history>>

\* A spawned coroutine is started and runs to its end or to an operation of
\* the ring (if that is not submitted, await_suspend, which is noexcept, ends
\* the process).  The lambda is popped after the call: it held the only
\* reference to the Task, whose destructor destroys the frame.
RunTask ==
  /\ pc = "tasks" /\ tasks # <<>>
  /\ tasks' = Tail(tasks)
  /\ taken' = Append(taken, Head(tasks)) /\ ran' = ran \cup {Head(tasks)}
  /\ destroyed' = destroyed \cup ({Head(tasks)} \cap Coros)
  /\ \/ UNCHANGED <<in_flight, queued>>
     \/ Head(tasks) \in Coros /\ in_flight' = in_flight \cup {Head(tasks)} /\ Submits
  /\ UNCHANGED <<shared, pc, seen, posted, thrown, fired, pass, uaf>>

\* a plain task throws: the rest of the batch goes with the local queue
TaskThrows ==
  /\ pc = "tasks" /\ tasks # <<>> /\ Head(tasks) \in Posts
  /\ tasks' = <<>>
  /\ taken' = taken \o tasks /\ ran' = ran \cup {Head(tasks)} /\ thrown' = thrown \cup {Head(tasks)}
  /\ destroyed' = destroyed \cup (Set(tasks) \cap Coros)
  /\ pc' = "stopped"
  /\ UNCHANGED <<shared, queued, seen, in_flight, posted, fired, pass, uaf>>

TasksDone ==
  /\ pc = "tasks" /\ tasks = <<>>
  /\ pc' = "ring"
  /\ UNCHANGED <<shared, queued, seen, tasks, frames, history>>

\* mutant: the default argument, with which no timeout is armed
RingSubmitsNoTimeout ==
  /\ pc = "ring" /\ ~Full
  /\ pc' = "blocked"
  /\ UNCHANGED <<shared, queued, seen, tasks, frames, history>>
\* run_once(10) of the ring: a timeout is submitted, or nothing if the queue is full
RingSubmits ==
  /\ pc = "ring" /\ Submits
  /\ pc' = "wait"
  /\ UNCHANGED <<shared, seen, tasks, frames, history>>

RingThrows ==
  /\ pc = "ring" /\ SubmitFails
  /\ pc' = "stopped"
  /\ UNCHANGED <<shared, seen, tasks, frames, history>>

RingBlocks ==
  /\ pc = "ring" /\ Full
  /\ pc' = "blocked"
  /\ UNCHANGED <<shared, queued, seen, tasks, frames, history>>

\* a completion resumes the coroutine that waits for it
RingCompletes(c) ==
  /\ pc \in {"wait", "blocked"} /\ c \in in_flight
  /\ in_flight' = in_flight \ {c}
  /\ uaf' = (uaf \/ c \in destroyed)
  /\ pc' = "wait"
  /\ UNCHANGED <<shared, queued, seen, tasks, destroyed, posted, batches, fired, pass>>

\* the timeout of an earlier run_once() is still to come
EarlierTimeout ==
  /\ pc = "blocked"
  /\ pc' = "wait"
  /\ UNCHANGED <<shared, queued, seen, tasks, frames, history>>

\* there is a completion, the timeout at the latest; run_loop tests running_
RingReturns ==
  /\ pc = "wait"
  /\ pc' = IF running_ THEN "now" ELSE "stopped"
  /\ UNCHANGED <<shared, queued, seen, tasks, frames, history>>

Loop ==
  \/ ReadClock \/ LockTimers \/ (\E x \in timers_ : FireTimer(x)) \/ TimersDone
  \/ TakeTasks \/ RunTask \/ TaskThrows \/ TasksDone
  \/ RingSubmits \/ RingThrows \/ RingBlocks \/ RingReturns

Next ==
  \/ Tick \/ run \/ stop \/ Loop \/ EarlierTimeout
  \/ \E p \in Posts : post(p)
  \/ \E p \in Posts \cup Coros : wakeup(p)
  \/ \E c \in Coros : spawn(c) \/ RingCompletes(c)
  \/ \E t \in Timers, d \in Delays : set_timer(t, d)
  \/ \E x \in setting : PushTimer(x)

\* the loop thread runs, and time goes on up to its bound
Spec == Init /\ [][Next]_vars /\ WF_vars(Loop) /\ WF_vars(Tick)

-----------------------------------------------------------------------------
\* Every variable has its type.
TypeOK ==
  /\ running_ \in BOOLEAN
  /\ pc \in {"stopped", "now", "lock", "timers", "take", "tasks", "ring", "wait", "blocked", "locked"}
  /\ Set(pending_tasks_) \cup Set(tasks) \subseteq Posts \cup Coros
  /\ timers_ \cup setting \subseteq Timers \X Nat /\ fired \subseteq Timers
  /\ now \in 0..MaxTime /\ seen \in 0..now /\ queued \in 0..queue_depth
  /\ in_flight \subseteq Coros /\ destroyed \subseteq Coros

\* Tasks leave the queue in the order in which the threads pushed them, and each is in
\* the queue, in the batch the loop has taken, or has left it, whatever wakeup() did.
\* One that has left was run, unless one before it threw and took its batch along.
TasksInOrder ==
  /\ posted = taken \o tasks \o pending_tasks_
  /\ \A i \in DOMAIN taken : taken[i] \in ran \/ \E j \in 1..(i - 1) : taken[j] \in thrown

\* A timer never fires before its time, and the timers of one pass fire in the
\* order of their times whatever the order in which threads set them.
TimersOnTime ==
  \A i \in DOMAIN pass : pass[i] <= seen /\ (i > 1 => pass[i - 1] <= pass[i])

\* What ends or halts the loop: stop(), an exception that leaves run(), a timer callback
\* that sets a timer (the thread waits for the mutex it holds), a queue that failed
\* submits have filled (the ring has no timeout any more, and no wakeup() reaches it).
Halted == ~running_ \/ pc \in {"stopped", "locked"} \/ Full

\* A task that was pushed runs, though its poster's wakeup() may have failed, unless
\* the loop is halted.
TaskRuns ==
  \A p \in Posts : (p \in Set(pending_tasks_) /\ pc # "stopped") ~> (p \in ran \/ Halted)

\* A timer set within the clock's bound fires, under the same conditions.
TimerFires ==
  \A t \in Timers : (pc # "stopped" /\ \E x \in timers_ : x[1] = t /\ x[2] <= MaxTime)
                      ~> (t \in fired \/ Halted)

\* TcpServer's "使用协程接受连接" (accept connections with a coroutine) and its
\* accept loop rely on it: a spawned coroutine that waits for the ring still has
\* its frame when the completion comes.
SpawnedFrameLives == ~uaf
=============================================================================
