------------------------------ MODULE Awaiters ------------------------------
(***************************************************************************)
(* The awaiters of io/async_io.hpp, io/timer.hpp and                       *)
(* coroutine/awaitable.hpp.  One coroutine performs MaxAwaits awaits, one  *)
(* after the other, each of any kind; the completions of one await may     *)
(* still be under way during the next.  The awaiter object is kept until   *)
(* they have come (a variable of the coroutine) or is gone when the await  *)
(* returns (a temporary).  The kernel (linked timeouts, cancellation) is   *)
(* external.                                                               *)
(***************************************************************************)
EXTENDS Integers, FiniteSets

CONSTANTS MaxAwaits,       \* bound: awaits of the coroutine
          UsedKinds        \* the kinds of await it uses, of Kinds

Kinds == {"Io", "Timeout", "TimedRecv", "TimedSend", "WithTimeout", "Async", "Sleep", "WaitUntil"}

ASSUME AwaitersAssumption == MaxAwaits \in Nat \ {0} /\ UsedKinds \subseteq Kinds

Awaits == 1..MaxAwaits
Ops == {"main", "timer", "nop"}
Finished == {"ok", "fail", "canceled", "etime"}

VARIABLES n,         \* the current await
          co,        \* running, about to test await_ready, past that test, or waiting
          kinds,     \* kind of each await
          aw,        \* fields of the awaiter object of each await
          kept,      \* awaits whose awaiter outlives them
          ops,       \* for each await and operation: none, flying, its result, delivered
          outcome,   \* history: what each await returned or threw
          expired,   \* history: awaits whose timer reached its time
          misresumed,\* history: resume() of a coroutine that was not suspended
          late,      \* history: a callback used an awaiter that was gone
          missed     \* history: set_result() ran between await_ready and await_suspend

vars == <<n, co, kinds, aw, kept, ops, outcome, expired, misresumed, late, missed>>
history == <<expired, misresumed, missed>>

Fresh == [done_ |-> FALSE, result_ |-> "unset", timeout_fired_ |-> FALSE, exception_ |-> "none",
          ready_ |-> FALSE, continuation_ |-> FALSE]

Init ==
  /\ n = 0 /\ co = "running"
  /\ kinds = [i \in Awaits |-> "none"]
  /\ aw = [i \in Awaits |-> Fresh] /\ kept = {}
  /\ ops = [i \in Awaits |-> [o \in Ops |-> "none"]]
  /\ outcome = [i \in Awaits |-> "none"]
  /\ expired = {} /\ misresumed = FALSE /\ late = FALSE /\ missed = FALSE

(***************************************************************************)
(* co_await: what await_suspend submits.                                   *)
(***************************************************************************)
\* mutant: WithTimeoutAwaiter arms no timeout
SubmittedNoTimer(k) ==
  CASE k \in {"Io", "Sleep", "WaitUntil", "Async", "WithTimeout"} -> {"main"}
    [] k = "Timeout" -> {"timer"}
    [] k = "TimedRecv" -> {"main", "timer"}
    [] k = "TimedSend" -> {"main", "timer", "nop"}
Submitted(k) ==
  CASE k \in {"Io", "Sleep", "WaitUntil", "Async"} -> {"main"}
    [] k = "Timeout" -> {"timer"}
    [] k \in {"TimedRecv", "WithTimeout"} -> {"main", "timer"}
    [] k = "TimedSend" -> {"main", "timer", "nop"}

Await(k) ==
  /\ co = "running" /\ n < MaxAwaits
  /\ n' = n + 1
  /\ kinds' = [kinds EXCEPT ![n + 1] = k]
  /\ kept' \in {kept, kept \cup {n + 1}}
  /\ ops' = [ops EXCEPT ![n + 1] = [o \in Ops |-> IF o \in Submitted(k) THEN "flying" ELSE "none"]]
  /\ co' = IF k = "Async" THEN "checking" ELSE "waiting"
  /\ UNCHANGED <<aw, outcome, late, history>>

\* SleepAwaiter and WaitUntilAwaiter that are ready at once start no thread
AwaitReady(k) ==
  /\ k \in {"Sleep", "WaitUntil"}
  /\ co = "running" /\ n < MaxAwaits
  /\ n' = n + 1
  /\ kinds' = [kinds EXCEPT ![n + 1] = k]
  /\ outcome' = [outcome EXCEPT ![n + 1] = "ok"]
  /\ UNCHANGED <<co, aw, kept, ops, late, history>>

(***************************************************************************)
(* The kernel, and the threads of SleepAwaiter and WaitUntilAwaiter.       *)
(* Completing one of a linked pair cancels the other.                      *)
(***************************************************************************)
Linked(i) == kinds[i] \in {"TimedRecv", "TimedSend"}

Complete(i, op, result) ==
  /\ ops[i][op] = "flying"
  /\ ops' = [ops EXCEPT ![i] = [o \in Ops |->
               CASE o = op -> result
                 [] o # op /\ Linked(i) /\ op # "nop" /\ o # "nop" -> "canceled"
                 [] OTHER -> ops[i][o]]]

MainCompletes(i) ==
  /\ kinds[i] # "Async"
  /\ \E r \in {"ok", "fail"} : Complete(i, "main", r)
  /\ UNCHANGED <<n, co, kinds, aw, kept, outcome, late, history>>

NopCompletes(i) ==
  /\ Complete(i, "nop", "ok")
  /\ UNCHANGED <<n, co, kinds, aw, kept, outcome, late, history>>

TimerExpires(i) ==
  /\ Complete(i, "timer", "etime")
  /\ expired' = expired \cup {i}
  /\ UNCHANGED <<n, co, kinds, aw, kept, outcome, misresumed, late, missed>>

\* the kernel posts the CQE of an operation before it cancels its timeout
Deliverable(i, op) ==
  /\ kinds[i] # "Async" /\ ops[i][op] \in Finished
  /\ ~(op = "timer" /\ Linked(i) /\ ops[i].main \in {"ok", "fail"})

(***************************************************************************)
(* The callbacks.  CallbackAw is the awaiter after the callback has stored *)
(* its result, Resumes whether the callback goes on to resume().           *)
(***************************************************************************)
CallbackAw(k, op, result, a) ==
  CASE k \in {"TimedRecv", "TimedSend"} /\ op = "main" ->
         [a EXCEPT !.result_ = result, !.done_ = (k = "TimedRecv" \/ @)]
    [] k \in {"TimedRecv", "TimedSend"} /\ op = "timer" ->
         [a EXCEPT !.timeout_fired_ = TRUE, !.done_ = (k = "TimedRecv" \/ @)]
    [] k = "WithTimeout" /\ op = "main" /\ ~a.done_ ->
         IF result = "ok" THEN [a EXCEPT !.done_ = TRUE, !.result_ = result]
                          ELSE [a EXCEPT !.done_ = TRUE, !.exception_ = result]
    [] k = "WithTimeout" /\ op = "timer" /\ ~a.done_ ->
         IF result = "etime" THEN [a EXCEPT !.done_ = TRUE, !.exception_ = "timeout"]
                             ELSE [a EXCEPT !.done_ = TRUE]
    [] k \in {"Io", "Timeout", "Sleep", "WaitUntil"} -> [a EXCEPT !.result_ = result]
    [] OTHER -> a

\* mutant: the callbacks of a recv and of its timeout do not look at done_
ResumesNoTest(k, op, a) ==
  CASE k = "WithTimeout" -> ~a.done_
    [] k = "TimedSend" -> op = "nop"
    [] OTHER -> TRUE
\* if (!done_.exchange(true)) handle.resume(); the nop of TimedSend resumes always
Resumes(k, op, a) ==
  CASE k \in {"TimedRecv", "WithTimeout"} -> ~a.done_
    [] k = "TimedSend" -> op = "nop"
    [] OTHER -> TRUE

\* await_resume
AwaitResume(k, a) ==
  CASE k \in {"TimedRecv", "TimedSend"} /\ a.timeout_fired_ -> "timeout"
    [] k \in {"WithTimeout", "Async"} /\ a.exception_ # "none" -> a.exception_
    [] k = "WithTimeout" /\ a.exception_ = "none" /\ a.result_ = "unset" -> "bad_optional_access"
    [] OTHER -> a.result_

Delivered(i, op) == [ops EXCEPT ![i][op] = "delivered"]

\* cancel_timeout() of the awaiter of await i: it misses when timeout_user_data_ is
\* not the user_data of the timeout, which is the id modulo the size of the callback
\* table, and when it cannot be submitted, which is not reported.  cancel_operation()
\* never cancels anything, because operation_user_data_ is never assigned.
CancelTimeout(i, k, op, pending) ==
  {pending} \cup IF k = "WithTimeout" /\ op = "main" /\ pending[i].timer = "flying"
                 THEN {[pending EXCEPT ![i].timer = "canceled"]} ELSE {}

\* handle.resume() by what await i has left: await_resume runs and the coroutine goes on
Resume(i) ==
  /\ co' = "running"
  /\ misresumed' = (misresumed \/ co # "waiting" \/ i # n)
  /\ outcome' = [outcome EXCEPT ![n] = AwaitResume(kinds[n], aw'[n])]

\* the callback of operation op of await i runs on its awaiter
Callback(i, op) ==
  LET k == kinds[i] IN
  /\ aw' = [aw EXCEPT ![i] = CallbackAw(k, op, ops[i][op], @)]
  /\ IF Resumes(k, op, aw[i])
     THEN Resume(i) /\ ops' \in CancelTimeout(i, k, op, Delivered(i, op))
     ELSE UNCHANGED <<co, outcome, misresumed>> /\ ops' = Delivered(i, op)

\* the awaiter of await i exists: the coroutine is in the await, or it is kept
Alive(i) == (i = n /\ co # "running") \/ i \in kept

Deliver(i, op) ==
  /\ Alive(i) /\ Deliverable(i, op)
  /\ Callback(i, op)
  /\ UNCHANGED <<n, kinds, kept, expired, late, missed>>

\* The callback's awaiter is gone: what it writes may fall on the awaiter the coroutine
\* has in that place now, and done_ reads as anything.
DeliverLate(i, op) ==
  /\ ~Alive(i) /\ Deliverable(i, op)
  /\ late' = TRUE
  /\ aw' \in {aw, [aw EXCEPT ![n] = CallbackAw(kinds[i], op, ops[i][op], @)]}
  /\ ops' = Delivered(i, op)
  /\ \/ UNCHANGED <<co, outcome, misresumed>>
     \/ Resumes(kinds[i], op, Fresh) /\ Resume(i)
  /\ UNCHANGED <<n, kinds, kept, expired, missed>>

(***************************************************************************)
(* AsyncAwaiter: await_ready, await_suspend, and the producer's thread in  *)
(* set_result, set_completed or set_exception, which first stores and then *)
(* looks for a continuation.                                               *)
(***************************************************************************)
CheckReady ==
  /\ co = "checking"
  /\ IF aw[n].ready_
     THEN co' = "running" /\ outcome' = [outcome EXCEPT ![n] = AwaitResume("Async", aw[n])]
     ELSE co' = "checked" /\ UNCHANGED outcome
  /\ UNCHANGED <<n, kinds, aw, kept, ops, late, history>>

StoreContinuation ==
  /\ co = "checked"
  /\ co' = "waiting"
  /\ aw' = [aw EXCEPT ![n].continuation_ = TRUE]
  /\ missed' = (missed \/ ops[n].main = "delivered")
  /\ UNCHANGED <<n, kinds, kept, ops, outcome, expired, misresumed, late>>

\* the await has not returned, for want of a result: its awaiter exists
SetResult(i) ==
  /\ kinds[i] = "Async" /\ ops[i].main = "flying"
  /\ ops' = [ops EXCEPT ![i].main = "stored"]
  /\ aw' \in {[aw EXCEPT ![i].ready_ = TRUE, ![i].result_ = "ok"],
              [aw EXCEPT ![i].ready_ = TRUE, ![i].exception_ = "fail"]}
  /\ UNCHANGED <<n, co, kinds, kept, outcome, late, history>>

\* continuation_ of an awaiter that is gone reads as anything
ResumeContinuation(i) ==
  /\ kinds[i] = "Async" /\ ops[i].main = "stored"
  /\ ops' = Delivered(i, "main")
  /\ late' = (late \/ ~Alive(i))
  /\ \/ (Alive(i) => aw[i].continuation_) /\ UNCHANGED aw /\ Resume(i)
     \/ (Alive(i) => ~aw[i].continuation_) /\ UNCHANGED <<aw, co, outcome, misresumed>>
  /\ UNCHANGED <<n, kinds, kept, expired, missed>>

Reap == \E i \in Awaits, op \in Ops : Deliver(i, op) \/ DeliverLate(i, op)
Produce == \E i \in Awaits : SetResult(i) \/ ResumeContinuation(i)
AwaitTests == CheckReady \/ StoreContinuation

Next ==
  \/ \E k \in UsedKinds : Await(k) \/ AwaitReady(k)
  \/ \E i \in Awaits : MainCompletes(i) \/ NopCompletes(i) \/ TimerExpires(i)
  \/ Reap
  \/ Produce
  \/ AwaitTests

\* Timers expire, nops complete, sleeping threads wake, the event loop reaps,
\* producers and the coroutine take their steps; nothing makes a peer answer.
Spec ==
  /\ Init /\ [][Next]_vars
  /\ WF_vars(Reap) /\ WF_vars(Produce) /\ WF_vars(AwaitTests)
  /\ \A i \in Awaits : /\ WF_vars(NopCompletes(i)) /\ WF_vars(TimerExpires(i))
                       /\ WF_vars(kinds[i] = "Sleep" /\ MainCompletes(i))

-----------------------------------------------------------------------------
OutcomesOf(k) ==
  CASE k = "none" -> {}
    [] k \in {"Io", "Sleep", "WaitUntil"} -> {"ok", "fail"}
    [] k = "Timeout" -> {"etime"}
    [] k = "TimedRecv" -> {"ok", "fail", "canceled", "timeout"}
    [] k = "TimedSend" -> {"ok", "fail", "canceled", "timeout", "unset"}
    [] k = "WithTimeout" -> {"ok", "fail", "timeout", "bad_optional_access"}
    [] k = "Async" -> {"ok", "fail", "unset"}

\* Until a callback uses an awaiter that is gone: resume() is only called on a coroutine
\* that is suspended in the await the callback belongs to, though both callbacks of a pair
\* hold its handle and the second may come during a later await: done_ lets one through.
\* And every await but TimedSend tells the truth: TimeoutException or a cancelled
\* operation means that its time was up, with_timeout has a result or an exception, and
\* none returns before there is a result.
Truthful ==
  ~late =>
    /\ ~misresumed
    /\ \A i \in Awaits : kinds[i] # "TimedSend" =>
         /\ outcome[i] \in {"timeout", "canceled"} => i \in expired
         /\ outcome[i] \notin {"bad_optional_access", "unset"}

\* Under the same condition an await with a timeout returns even if the peer never
\* answers, as does a sleep, and as does an AsyncAwaiter whose producer did not run
\* exactly between await_ready and await_suspend.
TimedAwaitReturns ==
  (co = "waiting" /\ kinds[n] \notin {"Io", "WaitUntil"}) ~> (co = "running" \/ missed \/ late)
=============================================================================
