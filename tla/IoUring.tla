------------------------------ MODULE IoUring ------------------------------
(***************************************************************************)
(* io/io_uring.hpp: one ring, used by the thread that runs its loop.       *)
(*                                                                         *)
(* An operation is known by its number: the value of next_callback_id_     *)
(* when it was prepared.  Its SQE carries user_data, the number modulo the *)
(* size of the callback table, and that is all its completion brings back. *)
(* The kernel (external) completes submitted operations in any order.      *)
(* Callbacks run inside run_once() and may prepare further operations, as  *)
(* the coroutines they resume do.                                          *)
(***************************************************************************)
EXTENDS Integers, Sequences

CONSTANTS
  kMaxCallbacks,  \* size of the callback table
  queue_depth,    \* entries of the submission queue
  Messages,       \* user_data of the MSG_RING messages other rings send here
  MaxOps,         \* bound: operations prepared
  MaxTimers,      \* bound: run_once() timeouts in flight
  MaxFails        \* bound: submit() calls that fail

ASSUME SizesAssumption ==
  /\ kMaxCallbacks \in Nat \ {0}
  /\ queue_depth \in Nat \ {0}
  /\ Messages \subseteq Nat
  /\ MaxOps \in Nat /\ MaxTimers \in Nat \ {0} /\ MaxFails \in Nat

VARIABLES
  next_callback_id_,
  callbacks_,  \* slot -> operation whose callback it holds, 0 for an empty function
  sq,          \* SQEs prepared and not submitted
  inflight,    \* SQEs the kernel has and has not completed
  timers,      \* how many timeouts armed by run_once() are in flight
  cq,          \* CQEs not yet seen
  messages,    \* messages still to come
  pc,          \* where the loop's thread is
  fails,       \* submit() calls that failed
  ran,         \* <<n, m>>: the completion of n ran the callback of m (n = 0: a message did)
  lapped       \* operations whose slot was taken by a later one before they were reaped

vars == <<next_callback_id_, callbacks_, sq, inflight, timers, cq, messages, pc, fails,
          ran, lapped>>

Ops == 1 .. MaxOps
Slots == 0 .. kMaxCallbacks - 1
Entry(n, id) == [op |-> n, user_data |-> id]
Timer == Entry(0, 0)

SeqOps(s) == {s[i].op : i \in DOMAIN s}
Outstanding == SeqOps(sq) \cup {e.op : e \in inflight} \cup SeqOps(cq)

-----------------------------------------------------------------------------
Init ==
  /\ next_callback_id_ = 1
  /\ callbacks_ = [id \in Slots |-> 0]
  /\ sq = <<>> /\ inflight = {} /\ timers = 0 /\ cq = <<>>
  /\ messages = Messages
  /\ pc = "app"
  /\ fails = 0
  /\ ran = {} /\ lapped = {}

-----------------------------------------------------------------------------
(* prepare_*() and submit(), by the code between two run_once() or a callback *)

SlotOfShort(n) == n % (kMaxCallbacks - 1)  \* mutant: wraps one slot early

SlotOf(n) == n % kMaxCallbacks

\* set_callback: the slot is overwritten, whoever holds it
SetCallback(n) ==
  /\ next_callback_id_' = n + 1
  /\ callbacks_' = [callbacks_ EXCEPT ![SlotOf(n)] = n]
  /\ lapped' = lapped \cup {m \in Outstanding : m > 0 /\ m = n - kMaxCallbacks}

\* get_sqe() of a full queue makes prepare_* throw before it changes anything
Prepare(n) ==
  /\ pc \in {"app", "callback"}
  /\ n = next_callback_id_ /\ n <= MaxOps
  /\ Len(sq) < queue_depth
  /\ SetCallback(n)

\* prepare_*, then submit(): everything queued goes to the kernel
Operate(n) ==
  /\ Prepare(n)
  /\ inflight' = inflight \cup {sq[i] : i \in DOMAIN sq} \cup {Entry(n, SlotOf(n))}
  /\ sq' = <<>>
  /\ UNCHANGED <<timers, cq, messages, pc, fails, ran>>

\* submit() throws and the caller catches: the SQE stays queued
OperateFails(n) ==
  /\ Prepare(n)
  /\ fails < MaxFails
  /\ fails' = fails + 1
  /\ sq' = Append(sq, Entry(n, SlotOf(n)))
  /\ UNCHANGED <<inflight, timers, cq, messages, pc, ran>>

-----------------------------------------------------------------------------
(* run_once(timeout_ms), timeout_ms >= 0 *)

\* mutant: the timeout is prepared and not submitted
RunOnceNoSubmit ==
  /\ pc = "app"
  /\ pc' = "wait"
  /\ UNCHANGED <<next_callback_id_, callbacks_, sq, inflight, timers, cq, messages, fails, ran, lapped>>

\* arm a timeout and submit; with a full queue do neither
RunOnce ==
  /\ pc = "app"
  /\ pc' = "wait"
  /\ IF Len(sq) < queue_depth
     THEN /\ timers < MaxTimers
          /\ inflight' = inflight \cup {sq[i] : i \in DOMAIN sq}
          /\ sq' = <<>>
          /\ timers' = timers + 1
     ELSE UNCHANGED <<inflight, sq, timers>>
  /\ UNCHANGED <<next_callback_id_, callbacks_, cq, messages, fails, ran, lapped>>

\* its submit() throws, and nothing in the loop catches
RunOnceThrows ==
  /\ pc = "app"
  /\ fails < MaxFails
  /\ Len(sq) < queue_depth
  /\ fails' = fails + 1
  /\ pc' = "dead"
  /\ UNCHANGED <<next_callback_id_, callbacks_, sq, inflight, timers, cq, messages, ran, lapped>>

\* mutant: the last slot refused as well
HasCallbackOffByOne(user_data) == user_data # 0 /\ user_data < kMaxCallbacks - 1

\* get_callback
HasCallback(user_data) == user_data # 0 /\ user_data < kMaxCallbacks

\* the CQE wait_cqe() returned, then each one peek_cqe() finds; calling an
\* empty std::function throws
Reap ==
  /\ pc \in {"wait", "drain"}
  /\ cq # <<>>
  /\ LET e == Head(cq) IN
       \/ /\ ~HasCallback(e.user_data)
          /\ cq' = Tail(cq) /\ pc' = "drain"
          /\ UNCHANGED ran
       \/ /\ HasCallback(e.user_data)
          /\ callbacks_[e.user_data] = 0
          /\ pc' = "dead"
          /\ UNCHANGED <<cq, ran>>
       \/ /\ HasCallback(e.user_data)
          /\ callbacks_[e.user_data] # 0
          /\ ran' = ran \cup {<<e.op, callbacks_[e.user_data]>>}
          /\ pc' = "callback"
          /\ UNCHANGED cq
  /\ UNCHANGED <<next_callback_id_, callbacks_, sq, inflight, timers, messages, fails, lapped>>

\* only now is the CQE marked seen
CallbackReturns ==
  /\ pc = "callback"
  /\ cq' = Tail(cq)
  /\ pc' = "drain"
  /\ UNCHANGED <<next_callback_id_, callbacks_, sq, inflight, timers, messages, fails, ran, lapped>>

RunOnceReturns ==
  /\ pc = "drain"
  /\ cq = <<>>
  /\ pc' = "app"
  /\ UNCHANGED <<next_callback_id_, callbacks_, sq, inflight, timers, cq, messages, fails, ran, lapped>>

-----------------------------------------------------------------------------
(* the kernel *)

Complete(e) ==
  /\ e \in inflight
  /\ inflight' = inflight \ {e}
  /\ cq' = Append(cq, e)
  /\ UNCHANGED <<next_callback_id_, callbacks_, sq, timers, messages, pc, fails, ran, lapped>>

TimerFires ==
  /\ timers > 0
  /\ timers' = timers - 1
  /\ cq' = Append(cq, Timer)
  /\ UNCHANGED <<next_callback_id_, callbacks_, sq, inflight, messages, pc, fails, ran, lapped>>

\* prepare_msg_ring on another ring: a CQE with a user_data chosen there
MessageArrives(id) ==
  /\ id \in messages
  /\ messages' = messages \ {id}
  /\ cq' = Append(cq, Entry(0, id))
  /\ UNCHANGED <<next_callback_id_, callbacks_, sq, inflight, timers, pc, fails, ran, lapped>>

-----------------------------------------------------------------------------
Loop == RunOnce \/ Reap \/ CallbackReturns \/ RunOnceReturns

Kernel == TimerFires \/ (\E e \in inflight : Complete(e)) \/ (\E id \in messages : MessageArrives(id))

Next ==
  \/ \E n \in Ops : Operate(n) \/ OperateFails(n)
  \/ Loop \/ RunOnceThrows
  \/ Kernel

\* the loop's thread keeps calling run_once() and its timeouts fire; the
\* kernel need not complete an operation (a recv without data)
Fairness == WF_vars(Loop) /\ WF_vars(TimerFires)

Spec == Init /\ [][Next]_vars /\ Fairness

-----------------------------------------------------------------------------
TypeOK ==
  /\ next_callback_id_ \in 1 .. MaxOps + 1
  /\ callbacks_ \in [Slots -> 0 .. MaxOps]
  /\ sq \in Seq([op : Ops, user_data : Slots]) /\ Len(sq) <= queue_depth
  /\ inflight \subseteq [op : Ops, user_data : Slots]
  /\ timers \in 0 .. MaxTimers
  /\ cq \in Seq([op : 0 .. MaxOps, user_data : Slots \cup Messages])
  /\ messages \subseteq Messages
  /\ pc \in {"app", "wait", "drain", "callback", "dead"}
  /\ fails \in 0 .. MaxFails
  /\ ran \subseteq (0 .. MaxOps) \X Ops
  /\ lapped \subseteq Ops

\* A completion runs the callback of its own operation, never another's:
\* whatever order the kernel completes in and whatever callbacks prepare while
\* CQEs are pending, as long as fewer than kMaxCallbacks operations are
\* prepared between the operation and its completion (it is not lapped).
OwnCallback == \A p \in ran : p[1] \notin lapped \cup {0} => p[1] = p[2]

\* No completion is dropped: an operation that is not lapped and whose slot is
\* not 0 is outstanding or its callback has run.
NoneDropped ==
  \A n \in Ops \ lapped :
    n < next_callback_id_ /\ SlotOf(n) # 0 => n \in Outstanding \/ <<n, n>> \in ran

\* Every operation prepared, though its submit() failed, is with the kernel for good or
\* its callback runs: the next submit, or run_once(), takes along what is queued, and each
\* iteration reaps every CQE.  An operation stays behind only in a queue that failed
\* submits have filled: whoever would submit it needs a free SQE first, and run_once()
\* then waits without a timeout.  (Lapped operations and those with slot 0 excepted, and
\* a loop that an exception has ended.)
EveryOpReaped ==
  \A n \in Ops :
    n < next_callback_id_ /\ SlotOf(n) # 0 ~>
      \/ [](\E e \in inflight : e.op = n)
      \/ <<n, n>> \in ran
      \/ n \in SeqOps(sq) /\ Len(sq) = queue_depth
      \/ n \in lapped
      \/ pc = "dead"

=============================================================================
