------------------------------- MODULE Task ---------------------------------
(***************************************************************************)
(* coroutine/task.hpp: Task, its promise and its awaiter.  The main thread *)
(* runs plain code, the loop thread resumes coroutines whose operation has *)
(* completed; either thread's stack holds the plain code or coroutines     *)
(* that resumed one another.  A user of a task is the plain code or a      *)
(* coroutine; what it does next is its own choice.  The model stops where  *)
(* behaviour is undefined.                                                 *)
(***************************************************************************)
EXTENDS Integers, Sequences, FiniteSets

CONSTANTS Coros,     \* coroutines
          Main,      \* the plain code of the main thread
          None,
          MaxOps     \* bound: operations the users call

TaskAssumption == Main \notin Coros /\ None \notin Coros

VARIABLES state, continuation,
          calls,        \* thread -> stack of calls: user, where it is, the task it acts on
          point,        \* coroutine -> initial, await, io: suspended there; none: runs or final
          awaits,       \* coroutine -> the task it awaits
          done,         \* coroutines whose body has ended: their result is there
          freed,        \* frames destroyed
          made,         \* operations called so far
          used,         \* history: task -> its users
          eager,        \* history: an await found its task started, not completed
          cancelled,    \* history: a task was cancelled
          abandoned,    \* history: a task was destroyed after it started, before it ended
          raced,        \* history: ... after Completed was stored, before continuation was read
          wrong         \* history: twice (resumed while not suspended), early (result not
                        \* there), freed (destroyed frame used)

vars == <<state, continuation, calls, point, awaits, done, freed, made, used, eager, cancelled,
          abandoned, raced, wrong>>
flags == <<eager, cancelled, abandoned, raced>>
Threads == {"main", "loop"}
Users == Coros \cup {Main}

Call(u, at, t) == [user |-> u, at |-> at, of |-> t]
Init ==
  /\ state = [t \in Coros |-> "Created"] /\ continuation = [t \in Coros |-> None]
  /\ calls = [h \in Threads |-> IF h = "main" THEN <<Call(Main, "body", None)>> ELSE <<>>]
  /\ point = [t \in Coros |-> "initial"] /\ awaits = [t \in Coros |-> None] /\ done = {} /\ freed = {}
  /\ made = 0 /\ used = [t \in Coros |-> {}]
  /\ eager = FALSE /\ cancelled = FALSE /\ abandoned = FALSE /\ raced = FALSE /\ wrong = {}

Top(h) == calls[h][Len(calls[h])]
At(h, at) == wrong = {} /\ calls[h] # <<>> /\ Top(h).at = at
Below(h) == SubSeq(calls[h], 1, Len(calls[h]) - 1)
Stack(h, s) == calls' = [calls EXCEPT ![h] = s]
Goto(h, at, t) == Stack(h, Append(Below(h), Call(Top(h).user, at, t)))
Ended(t) == state[t] \in {"Completed", "Cancelled"}

\* what goes wrong if a frame in fs is used, u is resumed from p, or u receives the result of t
Uses(fs) == IF fs \cap freed # {} THEN {"freed"} ELSE {}
Resumes(u, p) == Uses({u}) \cup IF point[u] = p THEN {} ELSE {"twice"}
AtPoint(u, p) == point' = [point EXCEPT ![u] = p]
Receives(t) == IF t \in done THEN {} ELSE {"early"}

(***************************************************************************)
(* The operations of a user, up to their first test of the state.          *)
(***************************************************************************)
Operation(h, t) ==
  /\ At(h, "body") /\ made < MaxOps /\ t \notin freed /\ t # Top(h).user
  /\ made' = made + 1
  /\ used' = [used EXCEPT ![t] = @ \cup {Top(h).user}]

start(h, t) ==
  /\ Operation(h, t) /\ state[t] = "Created"
  /\ Goto(h, "start", t)
  /\ UNCHANGED <<state, continuation, point, awaits, done, freed, flags, wrong>>

get(h, t) ==
  /\ Operation(h, t)
  /\ Goto(h, IF state[t] = "Created" THEN "get" ELSE "spin", t)
  /\ UNCHANGED <<state, continuation, point, awaits, done, freed, flags, wrong>>

await_ready(h, t) ==
  /\ Operation(h, t) /\ Top(h).user # Main
  /\ IF Ended(t) THEN /\ wrong' = Receives(t)
                      /\ UNCHANGED calls
                 ELSE /\ Goto(h, "ready", t)
                      /\ UNCHANGED wrong
  /\ UNCHANGED <<state, continuation, point, awaits, done, freed, flags>>

cancel(h, t) ==
  /\ Operation(h, t) /\ state[t] # "Completed"
  /\ Goto(h, "cancel", t) /\ cancelled' = TRUE
  /\ UNCHANGED <<state, continuation, point, awaits, done, freed, eager, abandoned, raced, wrong>>

\* destroying a frame that runs is undefined
destroy(h, t) ==
  /\ Operation(h, t)
  /\ freed' = freed \cup {t}
  /\ wrong' = IF t \in done \/ point[t] # "none" THEN {} ELSE {"freed"}
  /\ abandoned' = (abandoned \/ (t \notin done /\ state[t] # "Created"))
  /\ raced' = (raced \/ \E g \in Threads : \E i \in DOMAIN calls[g] : calls[g][i].user = t /\ calls[g][i].at = "final")
  /\ UNCHANGED <<state, continuation, calls, point, awaits, done, eager, cancelled>>

(***************************************************************************)
(* Their further steps.                                                    *)
(***************************************************************************)
\* state.store(Running); handle.resume(): t runs on top of the user, which goes on at `then'
RunInline(h, at, then) ==
  /\ At(h, at)
  /\ LET t == Top(h).of IN
     /\ state' = [state EXCEPT ![t] = "Running"]
     /\ Stack(h, Below(h) \o <<Call(Top(h).user, then, t), Call(t, "body", None)>>)
     /\ AtPoint(t, "none")
     /\ wrong' = Resumes(t, "initial")
  /\ UNCHANGED <<continuation, awaits, done, freed, made, used, flags>>

GetReturns(h) ==
  /\ At(h, "spin")
  /\ LET t == Top(h).of IN
     /\ t \in freed \/ Ended(t)
     /\ wrong' = IF t \in freed THEN {"freed"} ELSE Receives(t)
     /\ Goto(h, "body", None)
  /\ UNCHANGED <<state, continuation, point, awaits, done, freed, made, used, flags>>

StoreCancelled(h) ==
  /\ At(h, "cancel")
  /\ state' = [state EXCEPT ![Top(h).of] = "Cancelled"]
  /\ wrong' = Uses({Top(h).of})
  /\ Goto(h, "body", None)
  /\ UNCHANGED <<continuation, point, awaits, done, freed, made, used, flags>>

\* await_suspend(): the user is suspended and its handle stored in the promise
SetContinuation(h) ==
  /\ At(h, "ready")
  /\ LET t == Top(h).of  u == Top(h).user IN
     /\ continuation' = [continuation EXCEPT ![t] = u]
     /\ AtPoint(u, "await")
     /\ awaits' = [awaits EXCEPT ![u] = t]
     /\ wrong' = Uses({t})
     /\ Goto(h, "suspend", t)
  /\ UNCHANGED <<state, done, freed, made, used, flags>>

\* a task that has started is not waited for: the user's own handle is returned
AwaitStarted(h) ==
  /\ At(h, "suspend")
  /\ LET t == Top(h).of  u == Top(h).user IN
     /\ state[t] # "Created"
     /\ wrong' = Uses({t}) \cup Resumes(u, "await") \cup Receives(t)
     /\ AtPoint(u, "none")
     /\ awaits' = [awaits EXCEPT ![u] = None]
     /\ eager' = TRUE
     /\ Goto(h, "body", None)
  /\ UNCHANGED <<state, continuation, done, freed, made, used, cancelled, abandoned, raced>>

AwaitCreated(h) ==
  /\ At(h, "suspend") /\ state[Top(h).of] = "Created"
  /\ Goto(h, "transfer", Top(h).of)
  /\ wrong' = Uses({Top(h).of})
  /\ UNCHANGED <<state, continuation, point, awaits, done, freed, made, used, flags>>

\* the task's handle is returned: it runs in the user's place
Transfer(h) ==
  /\ At(h, "transfer")
  /\ LET t == Top(h).of IN
     /\ state' = [state EXCEPT ![t] = "Running"]
     /\ Stack(h, Append(Below(h), Call(t, "body", None)))
     /\ AtPoint(t, "none")
     /\ wrong' = Resumes(t, "initial")
  /\ UNCHANGED <<continuation, awaits, done, freed, made, used, flags>>

(***************************************************************************)
(* The body of a coroutine waits for an operation, or returns; the final   *)
(* awaiter stores Completed, then reads the continuation and resumes it.   *)
(***************************************************************************)
SuspendIo(h) ==
  /\ At(h, "body") /\ Top(h).user # Main /\ made < MaxOps
  /\ made' = made + 1
  /\ AtPoint(Top(h).user, "io")
  /\ Stack(h, Below(h))
  /\ UNCHANGED <<state, continuation, awaits, done, freed, used, flags, wrong>>

IoCompletes(t) ==
  /\ wrong = {} /\ calls["loop"] = <<>> /\ point[t] = "io"
  /\ AtPoint(t, "none")
  /\ Stack("loop", <<Call(t, "body", None)>>)
  /\ wrong' = Resumes(t, "io")
  /\ UNCHANGED <<state, continuation, awaits, done, freed, made, used, flags>>

\* mutant: Completed is stored at the return, before the body is left
final_suspendEarly(h) ==
  /\ At(h, "body") /\ Top(h).user # Main
  /\ done' = done \cup {Top(h).user}
  /\ state' = [state EXCEPT ![Top(h).user] = "Completed"]
  /\ UNCHANGED <<continuation, calls, point, awaits, freed, made, used, flags, wrong>>
final_suspend(h) ==
  /\ At(h, "body") /\ Top(h).user # Main
  /\ done' = done \cup {Top(h).user}
  /\ state' = [state EXCEPT ![Top(h).user] = "Completed"]
  /\ Goto(h, "final", None)
  /\ UNCHANGED <<continuation, point, awaits, freed, made, used, flags, wrong>>

ResumeContinuation(h) ==
  /\ At(h, "final")
  /\ LET t == Top(h).user  u == continuation[t] IN
     IF u = None \/ t \in freed
     THEN /\ wrong' = Uses({t})
          /\ Stack(h, Below(h))
          /\ UNCHANGED <<point, awaits>>
     ELSE /\ wrong' = Resumes(u, "await") \cup Receives(awaits[u])
          /\ Stack(h, Append(Below(h), Call(u, "body", None)))
          /\ AtPoint(u, "none")
          /\ awaits' = [awaits EXCEPT ![u] = None]
  /\ UNCHANGED <<state, continuation, done, freed, made, used, flags>>

Step(h) ==
  \/ RunInline(h, "start", "body") \/ RunInline(h, "get", "spin") \/ GetReturns(h) \/ StoreCancelled(h)
  \/ SetContinuation(h) \/ AwaitStarted(h) \/ AwaitCreated(h) \/ Transfer(h)
  \/ SuspendIo(h) \/ final_suspend(h) \/ ResumeContinuation(h)
  \/ \E t \in Coros : start(h, t) \/ get(h, t) \/ await_ready(h, t) \/ cancel(h, t) \/ destroy(h, t)

Next == (\E h \in Threads : Step(h)) \/ (\E t \in Coros : IoCompletes(t))

\* both threads run, bodies return, operations complete
Spec == Init /\ [][Next]_vars /\ (\A h \in Threads : WF_vars(Step(h))) /\ WF_vars(\E t \in Coros : IoCompletes(t))

-----------------------------------------------------------------------------
OneUser == \A t \in Coros : Cardinality(used[t]) <= 1

\* Every variable has its type (CoroutineState::Suspended is never stored), and a
\* coroutine awaits a task exactly while it is suspended in an await.
TypeOK ==
  /\ state \in [Coros -> {"Created", "Running", "Completed", "Cancelled"}]
  /\ continuation \in [Coros -> Coros \cup {None}] /\ awaits \in [Coros -> Coros \cup {None}]
  /\ point \in [Coros -> {"initial", "await", "io", "none"}]
  /\ wrong = {} => \A u \in Coros : awaits[u] # None <=> point[u] = "await"
  /\ done \subseteq Coros /\ freed \subseteq Coros
  /\ wrong \subseteq {"twice", "early", "freed"}

\* Used as it expects, a task is sound, on whatever threads it runs.  If every task has
\* one user, which awaits it only before starting it, no coroutine is ever resumed while
\* it runs.  If besides none is cancelled, co_await and get() return only once the body
\* has ended and its result is there.  If besides every started task is destroyed after
\* its body has ended, and not while the other thread is in final_suspend between its
\* store and its load, no destroyed frame is used.
SoundIfUsedWell ==
  (OneUser /\ ~eager) =>
    /\ "twice" \notin wrong
    /\ ~cancelled => "early" \notin wrong
    /\ (~cancelled /\ ~abandoned /\ ~raced) => "freed" \notin wrong

\* A coroutine that awaits is resumed and a get() on the main thread returns, unless
\* a task has two users, was abandoned, or the loop thread itself is in get().
WaitEnds ==
  LET excused == wrong # {} \/ ~OneUser \/ abandoned \/ At("loop", "spin") IN
  /\ \A u \in Coros : (awaits[u] # None) ~> (awaits[u] = None \/ excused)
  /\ At("main", "spin") ~> (~At("main", "spin") \/ excused)
=============================================================================
