--------------------------- MODULE DispatchProofs ---------------------------
(***************************************************************************)
(* Who gets the work.  The pool of event loops, for any number of workers, *)
(* posting threads and tasks: queues keep their order, and no task is      *)
(* called twice.  The load balancers and the discovery, for any endpoints, *)
(* weights and number of threads: the selections are shared out fairly.    *)
(***************************************************************************)
EXTENDS EventLoopPool, MCBalancer, TLAPS

LEMMA ConcatAssociative ==
  ASSUME NEW S, NEW s \in Seq(S), NEW t \in Seq(S), NEW u \in Seq(S)
  PROVE  (s \o t) \o u = s \o (t \o u)
OBVIOUS

LEMMA AppendIsConcat ==
  ASSUME NEW S, NEW seq \in Seq(S), NEW elt \in S
  PROVE  Append(seq, elt) = seq \o <<elt>>
OBVIOUS

(***************************************************************************)
(* The places of a task that is handed over and not called yet: a caller's *)
(* hand, a worker's map, a position of its queue not run yet.              *)
(***************************************************************************)
Hand(c, t) == cpc[c] \in {"insert", "push"} /\ arg[c][1] = t
Mapped(w, t) == t \in pending_tasks_[w]
Queued(w, i, t) == i \in Len(done[w]) + 1 .. Len(pushed[w]) /\ pushed[w][i] = t

\* Until a submission fails a task is in one place at most, and in none once called.
Once(t) ==
  /\ ran[t] <= 1
  /\ \A c \in Callers : Hand(c, t) =>
       /\ ran[t] = 0
       /\ \A d \in Callers : Hand(d, t) => c = d
       /\ \A w \in Workers : ~Mapped(w, t) /\ \A i \in Nat : ~Queued(w, i, t)
  /\ \A w \in Workers : Mapped(w, t) =>
       /\ ran[t] = 0
       /\ \A v \in Workers : (Mapped(v, t) => v = w) /\ \A i \in Nat : ~Queued(v, i, t)
  /\ \A w \in Workers, i \in Nat : Queued(w, i, t) =>
       /\ ran[t] = 0
       /\ \A v \in Workers, j \in Nat : Queued(v, j, t) => v = w /\ j = i

OnceInv ==
  /\ cpc[Main] = "erase" => fails # 0
  /\ fails = 0 => \A t \in Tasks : Once(t)

\* A call that has begun has its argument; only the main thread dispatches.
CallInv ==
  /\ tasks_mutex_ \in [Workers -> Workers \cup {None}]
  /\ arg \in [Callers -> (Tasks \X Workers) \cup {None}]
  /\ \A c \in Callers : cpc[c] # "idle" => arg[c] \in Tasks \X Workers
  /\ \A c \in Posters : cpc[c] \in {"idle", "push"}

\* Outside the drain a worker has no batch.
BatchInv == \A w \in Workers : lpc[w] \notin {"drain", "inner"} => batch[w] = <<>>

-----------------------------------------------------------------------------
(* Type correctness *)

Typed == TypeOK /\ CallInv /\ BatchInv

LEMMA MainIsCaller == Main \in Callers /\ Main \notin Posters /\ Posters \subseteq Callers
BY PoolAssumption, Zenon DEF Callers

LEMMA MainArg ==
  ASSUME Typed, NEW c \in Callers, cpc[c] # "idle"
  PROVE  arg[c][1] \in Tasks /\ arg[c][2] \in Workers /\ arg[c] = <<arg[c][1], arg[c][2]>>
BY DEF Typed, CallInv

LEMMA TypeInit == Init => Typed
<1> SUFFICES ASSUME Init PROVE Typed
  BY Zenon
<1>1. running_ \in [Workers -> BOOLEAN] /\ \A w \in Workers : tasks_mutex_[w] \in {None, w}
  BY Zenon DEF Init
<1>2. TypeOK
  BY <1>1, PoolAssumption DEF Init, TypeOK
<1>3. CallInv
  BY Zenon DEF Init, CallInv, Callers
<1>4. BatchInv
  BY Zenon DEF Init, BatchInv
<1> QED
  BY <1>2, <1>3, <1>4, Zenon DEF Typed

\* The callers' steps change nothing of a worker but its map, its queue and its count.
LEMMA TypeMain ==
  ASSUME Typed, Insert \/ Submit \/ SubmitThrows \/ Erase
  PROVE  Typed'
<1>1. cpc[Main] # "idle" /\ arg[Main][1] \in Tasks
  BY MainArg, MainIsCaller, Zenon DEF Insert, Submit, SubmitThrows, Erase
<1>2. pending_tasks_' \in [Workers -> SUBSET Tasks]
  <2>1. pending_tasks_ \in [Workers -> SUBSET Tasks]
    BY Zenon DEF Typed, TypeOK
  <2>2. CASE Insert
    BY <1>1, <2>1, <2>2, Zenon DEF Insert
  <2>3. CASE Erase
    BY <1>1, <2>1, <2>3, Zenon DEF Erase
  <2>4. CASE Submit \/ SubmitThrows
    BY <2>1, <2>4, Zenon DEF Submit, SubmitThrows
  <2> QED
    BY <2>2, <2>3, <2>4, Zenon
<1>3. cpc' \in [Callers -> {"idle", "insert", "submit", "erase", "push"}]
      /\ arg' \in [Callers -> (Tasks \X Workers) \cup {None}]
  <2>1. PICK q \in {"idle", "submit", "erase", "push"} : cpc' = [cpc EXCEPT ![Main] = q]
    BY Zenon DEF Insert, Submit, SubmitThrows, Erase
  <2>2. arg' = arg \/ arg' = [arg EXCEPT ![Main] = None]
    BY Zenon DEF Insert, Submit, SubmitThrows, Erase
  <2> QED
    BY <2>1, <2>2, Zenon DEF Typed, TypeOK, CallInv
<1>4. fails' \in 0 .. MaxFails
  BY PoolAssumption, SMTT(30) DEF Insert, Submit, SubmitThrows, Erase, Typed, TypeOK
<1>5. \A c \in Posters : cpc'[c] = cpc[c]
  BY MainIsCaller, ZenonT(30) DEF Insert, Submit, SubmitThrows, Erase, Typed, TypeOK
<1>6. \A c \in Callers : cpc'[c] # "idle" => cpc[c] # "idle" /\ arg'[c] = arg[c]
  <2>1. cpc \in [Callers -> {"idle", "insert", "submit", "erase", "push"}]
        /\ arg \in [Callers -> (Tasks \X Workers) \cup {None}]
    BY Zenon DEF Typed, TypeOK, CallInv
  <2>2. CASE Insert \/ SubmitThrows \/ Erase
    BY <1>1, <2>1, <2>2, Zenon DEF Insert, SubmitThrows, Erase
  <2>3. CASE Submit
    BY <1>1, <2>1, <2>3, Zenon DEF Submit
  <2> QED
    BY <2>2, <2>3, Zenon
<1>7. UNCHANGED <<running_, lpc, batch, tasks_mutex_, task_queue_, stopping, connection_count_,
                  next_worker_, ran, pushed, done>>
  BY Zenon DEF Insert, Submit, SubmitThrows, Erase, loops
<1>8. CallInv'
  BY <1>3, <1>5, <1>6, <1>7, Zenon DEF Typed, CallInv
<1>9. BatchInv'
  BY <1>7, Zenon DEF Typed, BatchInv
<1>10. TypeOK'
  BY <1>2, <1>3, <1>4, <1>7, ZenonT(30) DEF Typed, TypeOK
<1> QED
  BY <1>8, <1>9, <1>10, Zenon DEF Typed

LEMMA TypePost ==
  ASSUME Typed, NEW c \in Posters, NEW t \in Posted, NEW w \in Workers, Post(c, t, w)
  PROVE  Typed'
<1>1. t \in Tasks /\ c \in Callers
  BY Zenon DEF Tasks, Callers
<1>2. CallInv'
  <2>1. /\ cpc' = [cpc EXCEPT ![c] = "push"] /\ arg' = [arg EXCEPT ![c] = <<t, w>>]
        /\ tasks_mutex_' = tasks_mutex_
    BY Zenon DEF Post, loops
  <2>2. arg' \in [Callers -> (Tasks \X Workers) \cup {None}]
    BY <1>1, <2>1, ZenonT(30) DEF Typed, CallInv
  <2>3. \A d \in Callers : cpc'[d] # "idle" => arg'[d] \in Tasks \X Workers
    BY <1>1, <2>1, ZenonT(30) DEF Typed, TypeOK, CallInv
  <2>4. \A d \in Posters : cpc'[d] \in {"idle", "push"}
    BY <1>1, <2>1, Zenon DEF Typed, TypeOK, CallInv, Callers
  <2> QED
    BY <2>1, <2>2, <2>3, <2>4, Zenon DEF Typed, CallInv
<1>3. BatchInv'
  BY Zenon DEF Post, loops, Typed, BatchInv
<1>4. TypeOK'
  BY <1>1, <1>2, ZenonT(30) DEF Post, loops, Typed, TypeOK, CallInv
<1> QED
  BY <1>2, <1>3, <1>4, Zenon DEF Typed

LEMMA TypeEnqueue ==
  ASSUME Typed, NEW t \in Tasks, NEW w \in Workers, Enqueue(t, w)
  PROVE  task_queue_' \in [Workers -> Seq(Tasks)] /\ pushed' \in [Workers -> Seq(Tasks)]
BY DEF Enqueue, Typed, TypeOK

LEMMA TypePush ==
  ASSUME Typed, NEW c \in Callers, Push(c)
  PROVE  Typed'
<1>1. arg[c][1] \in Tasks /\ arg[c][2] \in Workers
  BY MainArg, Zenon DEF Push
<1>2. task_queue_' \in [Workers -> Seq(Tasks)] /\ pushed' \in [Workers -> Seq(Tasks)]
  BY <1>1, TypeEnqueue, Zenon DEF Push
<1>3. CallInv'
  BY SMTT(30) DEF Push, Typed, TypeOK, CallInv
<1>4. BatchInv'
  BY Zenon DEF Push, loops, Typed, BatchInv
<1>5. TypeOK'
  BY <1>2, <1>3, ZenonT(30) DEF Push, loops, Typed, TypeOK, CallInv
<1> QED
  BY <1>3, <1>4, <1>5, Zenon DEF Typed

\* The steps of run_loop that call no task and move no task.
LEMMA TypeIdle ==
  ASSUME Typed, NEW w \in Workers,
         Check(w) \/ LockPending(w) \/ UnlockPending(w) \/ DrainDone(w) \/ Ring(w)
  PROVE  Typed'
<1>1. UNCHANGED <<running_, batch, pending_tasks_, task_queue_, cpc, arg, stopping, fails,
                  connection_count_, next_worker_, ran, pushed, done>>
  BY Zenon DEF Check, LockPending, UnlockPending, DrainDone, Ring, calls
<1>2. tasks_mutex_' \in [Workers -> Workers \cup {None}]
      /\ \A v \in Workers : tasks_mutex_'[v] \in {None, v}
  <2>1. tasks_mutex_ \in [Workers -> Workers \cup {None}]
        /\ \A v \in Workers : tasks_mutex_[v] \in {None, v}
    BY Zenon DEF Typed, CallInv, TypeOK
  <2>2. CASE LockPending(w)
    BY <2>1, <2>2, Zenon DEF LockPending
  <2>3. CASE UnlockPending(w)
    BY <2>1, <2>3, Zenon DEF UnlockPending
  <2>4. CASE UNCHANGED tasks_mutex_
    BY <2>1, <2>4, Zenon
  <2> QED
    BY <2>2, <2>3, <2>4, Zenon DEF Check, DrainDone, Ring
<1>3. lpc' \in [Workers -> {"check", "lock", "pending", "inner", "swap", "drain", "ring", "exit"}]
  <2>1. \E next \in {"check", "lock", "pending", "swap", "ring", "exit"} : lpc' = [lpc EXCEPT ![w] = next]
    BY Zenon DEF Check, LockPending, UnlockPending, DrainDone, Ring
  <2> QED
    BY <2>1, Zenon DEF Typed, TypeOK
<1>4. BatchInv'
  BY <1>1, ZenonT(30) DEF Check, LockPending, UnlockPending, DrainDone, Ring, Typed, TypeOK, BatchInv
<1>5. CallInv'
  BY <1>1, <1>2, Zenon DEF Typed, CallInv
<1>6. TypeOK'
  BY <1>1, <1>2, <1>3, Zenon DEF Typed, TypeOK
<1> QED
  BY <1>4, <1>5, <1>6, Zenon DEF Typed

LEMMA TypeCall ==
  ASSUME Typed, NEW w \in Workers, NEW t \in Tasks, NEW return \in {"pending", "drain"},
         Call(w, t, return)
  PROVE  /\ ran' \in [Tasks -> Nat]
         /\ lpc' \in [Workers -> {"check", "lock", "pending", "inner", "swap", "drain", "ring", "exit"}]
         /\ lpc'[w] \in {return, "inner"} /\ \A v \in Workers \ {w} : lpc'[v] = lpc[v]
<1>1. PICK next \in {return} \cup {"inner" : x \in {t} \cap Nested} : lpc' = [lpc EXCEPT ![w] = next]
  BY Zenon DEF Call
<1>2. next \in {return, "inner"}
  BY Zenon
<1>3. ran' \in [Tasks -> Nat]
  BY DEF Call, Typed, TypeOK
<1> QED
  BY <1>1, <1>2, <1>3, ZenonT(30) DEF Typed, TypeOK

LEMMA TypeRunPending ==
  ASSUME Typed, NEW w \in Workers, NEW t \in Tasks, RunPending(w, t)
  PROVE  Typed'
<1>1. Call(w, t, "pending") /\ lpc[w] = "pending"
  BY Zenon DEF RunPending
<1>2. UNCHANGED <<running_, batch, tasks_mutex_, task_queue_, cpc, arg, stopping, fails,
                  connection_count_, next_worker_, pushed, done>>
  BY Zenon DEF RunPending, calls
<1>3. pending_tasks_' \in [Workers -> SUBSET Tasks]
  BY Zenon DEF RunPending, Typed, TypeOK
<1>4. CallInv'
  BY <1>2, Zenon DEF Typed, CallInv
<1>5. BatchInv'
  BY <1>1, <1>2, TypeCall, Zenon DEF Typed, BatchInv
<1>6. TypeOK'
  BY <1>1, <1>2, <1>3, TypeCall, Zenon DEF Typed, TypeOK
<1> QED
  BY <1>4, <1>5, <1>6, Zenon DEF Typed

LEMMA TypeSwap ==
  ASSUME Typed, NEW w \in Workers, Swap(w)
  PROVE  Typed'
<1>1. CallInv'
  BY Zenon DEF Swap, calls, Typed, CallInv
<1>2. BatchInv'
  BY Zenon DEF Swap, Typed, TypeOK, BatchInv
<1>3. TypeOK'
  BY DEF Swap, calls, Typed, TypeOK
<1> QED
  BY <1>1, <1>2, <1>3, Zenon DEF Typed

LEMMA TypeRunQueued ==
  ASSUME Typed, NEW w \in Workers, RunQueued(w)
  PROVE  Typed'
<1>1. batch[w] # <<>> /\ batch[w] \in Seq(Tasks) /\ done[w] \in Seq(Tasks)
  BY Zenon DEF RunQueued, Typed, TypeOK
<1>2. Head(batch[w]) \in Tasks /\ Tail(batch[w]) \in Seq(Tasks)
  BY <1>1
<1>3. Call(w, Head(batch[w]), "drain")
  BY Zenon DEF RunQueued
<1>4. UNCHANGED <<running_, tasks_mutex_, pending_tasks_, task_queue_, cpc, arg, stopping, fails,
                  connection_count_, next_worker_, pushed>>
  BY Zenon DEF RunQueued, calls
<1>5. batch' \in [Workers -> Seq(Tasks)] /\ done' \in [Workers -> Seq(Tasks)]
      /\ \A v \in Workers \ {w} : batch'[v] = batch[v]
  <2>1. batch \in [Workers -> Seq(Tasks)] /\ done \in [Workers -> Seq(Tasks)]
    BY Zenon DEF Typed, TypeOK
  <2> QED
    BY <1>1, <1>2, <2>1 DEF RunQueued
<1>6. CallInv'
  BY <1>4, Zenon DEF Typed, CallInv
<1>7. lpc'[w] \in {"drain", "inner"} /\ (\A v \in Workers \ {w} : lpc'[v] = lpc[v])
      /\ ran' \in [Tasks -> Nat]
      /\ lpc' \in [Workers -> {"check", "lock", "pending", "inner", "swap", "drain", "ring", "exit"}]
  BY <1>2, <1>3, TypeCall, Zenon
<1>8. BatchInv'
  BY <1>5, <1>7, Zenon DEF Typed, BatchInv
<1>9. TypeOK'
  BY <1>4, <1>5, <1>7, Zenon DEF Typed, TypeOK
<1> QED
  BY <1>6, <1>8, <1>9, Zenon DEF Typed

LEMMA TypeInnerPost ==
  ASSUME Typed, NEW w \in Workers, NEW t \in Nested, InnerPost(w, t)
  PROVE  Typed'
<1>1. Child(t) \in Tasks
  BY Zenon DEF Tasks
<1>2. task_queue_' \in [Workers -> Seq(Tasks)] /\ pushed' \in [Workers -> Seq(Tasks)]
  BY <1>1, TypeEnqueue, Zenon DEF InnerPost
<1>3. CallInv'
  BY Zenon DEF InnerPost, calls, Typed, CallInv
<1>4. BatchInv'
  BY Zenon DEF InnerPost, Typed, TypeOK, BatchInv
<1>5. TypeOK'
  BY <1>2, Zenon DEF InnerPost, calls, Typed, TypeOK
<1> QED
  BY <1>3, <1>4, <1>5, Zenon DEF Typed

LEMMA TypeStop ==
  ASSUME Typed, StopFirst \/ \E w \in Workers : Join(w)
  PROVE  Typed'
<1>1. UNCHANGED <<lpc, batch, tasks_mutex_, pending_tasks_, task_queue_, cpc, arg, fails,
                  connection_count_, next_worker_, ran, pushed, done>>
  BY Zenon DEF StopFirst, Join
<1>2. stopping' \in 0 .. worker_count_ + 1
  <2>1. worker_count_ \in Nat \ {0}
    BY PoolAssumption, Zenon
  <2>2. CASE StopFirst
    BY <2>1, <2>2 DEF StopFirst
  <2>3. ASSUME NEW w \in Workers, Join(w) PROVE stopping' \in 0 .. worker_count_ + 1
    BY <2>1, <2>3 DEF Join, Workers
  <2> QED
    BY <2>2, <2>3, Zenon
<1>3. running_' \in [Workers -> BOOLEAN]
  <2>1. CASE StopFirst
    BY <2>1, Zenon DEF StopFirst, Typed, TypeOK
  <2>2. ASSUME NEW w \in Workers, Join(w) PROVE running_' \in [Workers -> BOOLEAN]
    <3>1. running_' = [v \in Workers |-> IF v = w + 1 THEN FALSE ELSE running_[v]]
      BY <2>2, Zenon DEF Join
    <3>2. \A v \in Workers : running_[v] \in BOOLEAN
      BY Zenon DEF Typed, TypeOK
    <3> QED
      BY <3>1, <3>2, Zenon
  <2> QED
    BY <2>1, <2>2, Zenon
<1>4. CallInv' /\ BatchInv'
  BY <1>1, Zenon DEF Typed, CallInv, BatchInv
<1>5. TypeOK'
  BY <1>1, <1>2, <1>3, Zenon DEF Typed, TypeOK
<1> QED
  BY <1>4, <1>5, Zenon DEF Typed

-----------------------------------------------------------------------------
(* The queue keeps its order *)

\* A push at the end of the queue is a push at the end of all pushes.
LEMMA PushAtEnd ==
  ASSUME NEW a \in Seq(Tasks), NEW b \in Seq(Tasks), NEW c \in Seq(Tasks), NEW x \in Tasks
  PROVE  Append(a \o b \o c, x) = a \o b \o Append(c, x)
<1>1. a \o b \in Seq(Tasks) /\ <<x>> \in Seq(Tasks)
  OBVIOUS
<1>2. (a \o b) \o c \in Seq(Tasks)
  BY <1>1
<1>3. Append(a \o b \o c, x) = (a \o b \o c) \o <<x>> /\ Append(c, x) = c \o <<x>>
  BY <1>2, AppendIsConcat, Zenon
<1>4. ((a \o b) \o c) \o <<x>> = (a \o b) \o (c \o <<x>>)
  BY <1>1, ConcatAssociative
<1> QED
  BY <1>3, <1>4, Zenon

\* The first of the batch becomes the last of those that ran.
LEMMA HeadRuns ==
  ASSUME NEW a \in Seq(Tasks), NEW b \in Seq(Tasks), NEW c \in Seq(Tasks), b # <<>>
  PROVE  a \o b \o c = Append(a, Head(b)) \o Tail(b) \o c
<1>1. Head(b) \in Tasks /\ Tail(b) \in Seq(Tasks) /\ <<Head(b)>> \in Seq(Tasks)
      /\ b = <<Head(b)>> \o Tail(b)
  OBVIOUS
<1>2. Append(a, Head(b)) = a \o <<Head(b)>>
  BY <1>1, AppendIsConcat, Zenon
<1>3. a \o (<<Head(b)>> \o Tail(b)) = (a \o <<Head(b)>>) \o Tail(b)
  BY <1>1, ConcatAssociative, SMTT(60)
<1> QED
  BY <1>1, <1>2, <1>3, Zenon

LEMMA OrderEnqueue ==
  ASSUME Typed, QueueOrder, NEW x \in Tasks, NEW w \in Workers, Enqueue(x, w),
         UNCHANGED <<done, batch>>
  PROVE  QueueOrder'
<1> SUFFICES ASSUME NEW v \in Workers
             PROVE  pushed'[v] = done[v] \o batch[v] \o task_queue_'[v]
  BY Zenon DEF QueueOrder
<1>1. pushed[v] = done[v] \o batch[v] \o task_queue_[v]
      /\ done[v] \in Seq(Tasks) /\ batch[v] \in Seq(Tasks) /\ task_queue_[v] \in Seq(Tasks)
  BY Zenon DEF Typed, TypeOK, QueueOrder
<1>2. CASE v # w
  BY <1>1, <1>2, Zenon DEF Enqueue, Typed, TypeOK
<1>3. CASE v = w
  <2>1. pushed'[v] = Append(pushed[v], x) /\ task_queue_'[v] = Append(task_queue_[v], x)
    BY <1>3, Zenon DEF Enqueue, Typed, TypeOK
  <2>2. Append(done[v] \o batch[v] \o task_queue_[v], x)
          = done[v] \o batch[v] \o Append(task_queue_[v], x)
    BY <1>1, PushAtEnd, ZenonT(60)
  <2> QED
    BY <1>1, <2>1, <2>2, Zenon
<1> QED
  BY <1>2, <1>3, Zenon

LEMMA OrderSwap ==
  ASSUME Typed, QueueOrder, NEW w \in Workers, Swap(w)
  PROVE  QueueOrder'
<1> SUFFICES ASSUME NEW v \in Workers
             PROVE  pushed'[v] = done'[v] \o batch'[v] \o task_queue_'[v]
  BY Zenon DEF QueueOrder
<1>1. pushed[v] = done[v] \o batch[v] \o task_queue_[v]
      /\ done[v] \in Seq(Tasks) /\ task_queue_[v] \in Seq(Tasks)
  BY Zenon DEF Typed, TypeOK, QueueOrder
<1>2. CASE v # w
  BY <1>1, <1>2, Zenon DEF Swap, Typed, TypeOK
<1>3. CASE v = w
  <2>1. batch[v] = <<>> /\ batch'[v] = task_queue_[v] /\ task_queue_'[v] = <<>>
        /\ pushed' = pushed /\ done' = done
    BY <1>3, Zenon DEF Swap, Typed, TypeOK, BatchInv
  <2>2. done[v] \o <<>> = done[v]
        /\ (done[v] \o task_queue_[v]) \o <<>> = done[v] \o task_queue_[v]
    BY <1>1
  <2> QED
    BY <1>1, <2>1, <2>2, Zenon
<1> QED
  BY <1>2, <1>3, Zenon

LEMMA OrderRun ==
  ASSUME Typed, QueueOrder, NEW w \in Workers, RunQueued(w)
  PROVE  QueueOrder'
<1> SUFFICES ASSUME NEW v \in Workers
             PROVE  pushed'[v] = done'[v] \o batch'[v] \o task_queue_'[v]
  BY Zenon DEF QueueOrder
<1>1. pushed[v] = done[v] \o batch[v] \o task_queue_[v]
      /\ done[v] \in Seq(Tasks) /\ batch[v] \in Seq(Tasks) /\ task_queue_[v] \in Seq(Tasks)
  BY Zenon DEF Typed, TypeOK, QueueOrder
<1>2. CASE v # w
  BY <1>1, <1>2, Zenon DEF RunQueued, Typed, TypeOK
<1>3. CASE v = w
  <2>1. batch[v] # <<>> /\ batch'[v] = Tail(batch[v]) /\ done'[v] = Append(done[v], Head(batch[v]))
        /\ pushed' = pushed /\ task_queue_' = task_queue_
    BY <1>3, Zenon DEF RunQueued, Typed, TypeOK
  <2>2. done[v] \o batch[v] \o task_queue_[v]
          = Append(done[v], Head(batch[v])) \o Tail(batch[v]) \o task_queue_[v]
    BY <1>1, <2>1, HeadRuns, Zenon
  <2> QED
    BY <1>1, <2>1, <2>2, Zenon
<1> QED
  BY <1>2, <1>3, Zenon

LEMMA OrderNext == Typed /\ QueueOrder /\ [Next]_vars => QueueOrder'
<1> SUFFICES ASSUME Typed, QueueOrder, [Next]_vars PROVE QueueOrder'
  BY Zenon
<1>1. CASE UNCHANGED <<pushed, done, batch, task_queue_>>
  BY <1>1, Zenon DEF QueueOrder
<1>2. ASSUME NEW c \in Callers, Push(c) PROVE QueueOrder'
  <2>1. arg[c][1] \in Tasks /\ arg[c][2] \in Workers
    BY <1>2, MainArg, Zenon DEF Push
  <2> QED
    BY <1>2, <2>1, OrderEnqueue, Zenon DEF Push, loops
<1>3. ASSUME NEW w \in Workers, NEW t \in Nested, InnerPost(w, t) PROVE QueueOrder'
  <2>1. Child(t) \in Tasks
    BY Zenon DEF Tasks
  <2> QED
    BY <1>3, <2>1, OrderEnqueue, Zenon DEF InnerPost
<1>4. CASE \E t \in Dispatched, strategy \in {"rr", "lc"} : Dispatch(t, strategy)
  BY <1>1, <1>4, Zenon DEF Dispatch, loops
<1>5. CASE \E c \in Posters, t \in Posted, w \in Workers : Post(c, t, w)
  BY <1>1, <1>5, Zenon DEF Post, loops
<1>6. CASE CallerStep
  BY <1>1, <1>2, <1>6, Zenon DEF CallerStep, Insert, Submit, SubmitThrows, Erase, loops
<1>7. ASSUME NEW w \in Workers, WorkerStep(w) PROVE QueueOrder'
  BY <1>1, <1>3, <1>7, OrderSwap, OrderRun, Zenon
    DEF WorkerStep, Check, LockPending, RunPending, UnlockPending, DrainDone, Ring
<1>8. CASE StopFirst \/ \E w \in Workers : Join(w)
  BY <1>1, <1>8, Zenon DEF StopFirst, Join
<1>9. CASE UNCHANGED vars
  BY <1>1, <1>9, Zenon DEF vars
<1> QED
  BY <1>4, <1>5, <1>6, <1>7, <1>8, <1>9, Zenon DEF Next, WorkNext

-----------------------------------------------------------------------------
(* No task is called twice *)

\* A step after which t is nowhere it was not before.
LEMMA OnceSame ==
  ASSUME NEW t, Once(t), ran'[t] = ran[t],
         \A c \in Callers : Hand(c, t)' => Hand(c, t),
         \A w \in Workers : Mapped(w, t)' => Mapped(w, t),
         \A w \in Workers, i \in Nat : Queued(w, i, t)' => Queued(w, i, t)
  PROVE  Once(t)'
BY Zenon DEF Once

\* A step after which t is in the hand of h only.
LEMMA OnceHand ==
  ASSUME NEW t, NEW h, ran'[t] = 0,
         \A c \in Callers : Hand(c, t)' => c = h,
         \A w \in Workers : ~Mapped(w, t)',
         \A w \in Workers, i \in Nat : ~Queued(w, i, t)'
  PROVE  Once(t)'
BY DEF Once

\* A step after which t is in the map of m only.
LEMMA OnceMapped ==
  ASSUME NEW t, NEW m, ran'[t] = 0,
         \A c \in Callers : ~Hand(c, t)',
         \A w \in Workers : Mapped(w, t)' => w = m,
         \A w \in Workers, i \in Nat : ~Queued(w, i, t)'
  PROVE  Once(t)'
BY DEF Once

\* A step after which t is at one position of one queue only.
LEMMA OnceQueued ==
  ASSUME NEW t, ran'[t] = 0,
         \A c \in Callers : ~Hand(c, t)',
         \A w \in Workers : ~Mapped(w, t)',
         \A v, w \in Workers, i, j \in Nat : Queued(v, i, t)' /\ Queued(w, j, t)' => v = w /\ i = j
  PROVE  Once(t)'
BY DEF Once

\* A step after which t has been called and is nowhere.
LEMMA OnceRan ==
  ASSUME NEW t, ran'[t] = 1,
         \A c \in Callers : ~Hand(c, t)',
         \A w \in Workers : ~Mapped(w, t)',
         \A w \in Workers, i \in Nat : ~Queued(w, i, t)'
  PROVE  Once(t)'
BY DEF Once

LEMMA FreshIsNowhere ==
  ASSUME Typed, NEW t \in Tasks, Fresh(t)
  PROVE  /\ ran[t] = 0
         /\ \A c \in Callers : ~Hand(c, t)
         /\ \A w \in Workers : ~Mapped(w, t)
         /\ \A w \in Workers, i \in Nat : ~Queued(w, i, t)
<1>1. ASSUME NEW c \in Callers, Hand(c, t) PROVE FALSE
  <2>1. cpc[c] # "idle"
    BY <1>1, Zenon DEF Hand
  <2>2. arg[c] = <<t, arg[c][2]>> /\ arg[c][2] \in Workers
    BY <1>1, <2>1, MainArg, Zenon DEF Hand
  <2> QED
    BY <2>2, Zenon DEF Fresh
<1>2. ASSUME NEW w \in Workers, NEW i \in Nat, Queued(w, i, t) PROVE FALSE
  <2>1. pushed[w] \in Seq(Tasks) /\ done[w] \in Seq(Tasks)
    BY Zenon DEF Typed, TypeOK
  <2>2. i \in DOMAIN pushed[w] /\ pushed[w][i] = t
    BY <1>2, <2>1 DEF Queued
  <2> QED
    BY <2>2, Zenon DEF Fresh
<1> QED
  BY <1>1, <1>2, Zenon DEF Fresh, Mapped

\* A push adds one position, that of the task pushed.
LEMMA QueuedAfterPush ==
  ASSUME Typed, NEW x \in Tasks, NEW w \in Workers, Enqueue(x, w), done' = done
  PROVE  \A t \in Tasks, v \in Workers, i \in Nat :
           Queued(v, i, t)' => Queued(v, i, t) \/ (t = x /\ v = w /\ i = Len(pushed[w]) + 1)
<1> SUFFICES ASSUME NEW t \in Tasks, NEW v \in Workers, NEW i \in Nat, Queued(v, i, t)'
             PROVE  Queued(v, i, t) \/ (t = x /\ v = w /\ i = Len(pushed[w]) + 1)
  BY Zenon
<1>1. pushed[v] \in Seq(Tasks) /\ done[v] \in Seq(Tasks)
  BY Zenon DEF Typed, TypeOK
<1>2. i \in Len(done[v]) + 1 .. Len(pushed'[v]) /\ pushed'[v][i] = t
  BY Zenon DEF Queued
<1>3. CASE v # w
  <2>1. pushed'[v] = pushed[v]
    BY <1>3, Zenon DEF Enqueue, Typed, TypeOK
  <2> QED
    BY <1>2, <2>1, Zenon DEF Queued
<1>4. CASE v = w
  <2>1. pushed'[v] = Append(pushed[v], x)
    BY <1>4, Zenon DEF Enqueue, Typed, TypeOK
  <2>2. Len(pushed'[v]) = Len(pushed[v]) + 1 /\ pushed'[v][Len(pushed[v]) + 1] = x
        /\ \A j \in 1 .. Len(pushed[v]) : pushed'[v][j] = pushed[v][j]
    BY <1>1, <2>1, SMTT(30)
  <2>3. CASE i = Len(pushed[v]) + 1
    BY <1>2, <1>4, <2>2, <2>3, Zenon
  <2>4. CASE i # Len(pushed[v]) + 1
    <3>1. Len(pushed[v]) \in Nat /\ Len(done[v]) \in Nat
      BY <1>1
    <3>2. i \in Len(done[v]) + 1 .. Len(pushed[v]) /\ i \in 1 .. Len(pushed[v])
      BY <1>2, <2>2, <2>4, <3>1, SMTT(30)
    <3> QED
      BY <1>2, <2>2, <3>2, Zenon DEF Queued
  <2> QED
    BY <2>3, <2>4, Zenon
<1> QED
  BY <1>3, <1>4, Zenon

\* A call in hand after a caller's step was in hand before, or is the one begun.
LEMMA OnceDispatch ==
  ASSUME Typed, NEW x \in Dispatched, NEW strategy \in {"rr", "lc"}, Dispatch(x, strategy),
         NEW t \in Tasks, Once(t)
  PROVE  Once(t)'
<1> DEFINE w == IF strategy = "lc" THEN LeastConnections ELSE RoundRobin
<1>1. arg' = [arg EXCEPT ![Main] = <<x, w>>] /\ cpc' = [cpc EXCEPT ![Main] = "insert"]
      /\ cpc[Main] = "idle" /\ Fresh(x)
  BY Zenon DEF Dispatch
<1> HIDE DEF w
<1>2. UNCHANGED <<ran, pushed, done, pending_tasks_>>
  BY Zenon DEF Dispatch
<1>3. \A c \in Callers : Hand(c, t)' => Hand(c, t) \/ (c = Main /\ t = x)
  BY <1>1, ZenonT(30) DEF Hand, Typed, TypeOK, CallInv
<1>4. \A v \in Workers : (Mapped(v, t)' <=> Mapped(v, t))
        /\ \A i \in Nat : Queued(v, i, t)' <=> Queued(v, i, t)
  BY <1>2, Zenon DEF Mapped, Queued
<1>5. CASE t # x
  BY <1>2, <1>3, <1>4, <1>5, OnceSame, Zenon
<1>6. CASE t = x
  <2>1. ran[t] = 0 /\ (\A c \in Callers : ~Hand(c, t)) /\ (\A v \in Workers : ~Mapped(v, t))
        /\ \A v \in Workers, i \in Nat : ~Queued(v, i, t)
    BY <1>1, <1>6, FreshIsNowhere, Zenon
  <2> QED
    BY <1>2, <1>3, <1>4, <2>1, OnceHand
<1> QED
  BY <1>5, <1>6, Zenon

LEMMA OncePost ==
  ASSUME Typed, NEW p \in Posters, NEW x \in Posted, NEW w \in Workers, Post(p, x, w),
         NEW t \in Tasks, Once(t)
  PROVE  Once(t)'
<1>1. arg' = [arg EXCEPT ![p] = <<x, w>>] /\ cpc' = [cpc EXCEPT ![p] = "push"]
      /\ Fresh(x) /\ UNCHANGED <<ran, pushed, done, pending_tasks_>>
  BY Zenon DEF Post
<1>2. \A c \in Callers : Hand(c, t)' => Hand(c, t) \/ (c = p /\ t = x)
  BY <1>1, Zenon DEF Hand, Typed, TypeOK, CallInv
<1>3. \A v \in Workers : (Mapped(v, t)' <=> Mapped(v, t))
        /\ \A i \in Nat : Queued(v, i, t)' <=> Queued(v, i, t)
  BY <1>1, Zenon DEF Mapped, Queued
<1>4. CASE t # x
  BY <1>1, <1>2, <1>3, <1>4, OnceSame, Zenon
<1>5. CASE t = x
  <2>1. ran[t] = 0 /\ (\A c \in Callers : ~Hand(c, t)) /\ (\A v \in Workers : ~Mapped(v, t))
        /\ \A v \in Workers, i \in Nat : ~Queued(v, i, t)
    BY <1>1, <1>5, FreshIsNowhere, Zenon
  <2> QED
    BY <1>1, <1>2, <1>3, <2>1, OnceHand
<1> QED
  BY <1>4, <1>5, Zenon

LEMMA OnceInsert ==
  ASSUME Typed, Insert, NEW t \in Tasks, Once(t)
  PROVE  Once(t)'
<1> DEFINE x == arg[Main][1]
           w == arg[Main][2]
<1>1. cpc[Main] = "insert" /\ cpc' = [cpc EXCEPT ![Main] = "submit"]
      /\ pending_tasks_' = [pending_tasks_ EXCEPT ![w] = @ \cup {x}]
      /\ UNCHANGED <<ran, pushed, done, arg>>
  BY Zenon DEF Insert
<1>2. \A c \in Callers : Hand(c, t)' => Hand(c, t) /\ c # Main
  BY <1>1, MainIsCaller, Zenon DEF Hand, Typed, TypeOK
<1>3. \A v \in Workers : Mapped(v, t)' => Mapped(v, t) \/ (v = w /\ t = x)
  BY <1>1, Zenon DEF Mapped, Typed, TypeOK
<1>4. \A v \in Workers, i \in Nat : Queued(v, i, t)' <=> Queued(v, i, t)
  BY <1>1, Zenon DEF Queued
<1> HIDE DEF w
<1>5. CASE t # x
  BY <1>1, <1>2, <1>3, <1>4, <1>5, OnceSame, Zenon
<1>6. CASE t = x
  <2>1. Hand(Main, t)
    BY <1>1, <1>6, Zenon DEF Hand
  <2>2. ran[t] = 0 /\ (\A c \in Callers : Hand(c, t) => c = Main)
        /\ \A v \in Workers : ~Mapped(v, t) /\ \A i \in Nat : ~Queued(v, i, t)
    BY <2>1, MainIsCaller, Zenon DEF Once
  <2>3. ran'[t] = 0 /\ \A c \in Callers : ~Hand(c, t)'
    BY <1>1, <1>2, <2>2, Zenon
  <2>4. \A v \in Workers : Mapped(v, t)' => v = w
    BY <1>3, <2>2, Zenon
  <2>5. \A v \in Workers, i \in Nat : ~Queued(v, i, t)'
    BY <1>4, <2>2, Zenon
  <2> QED
    BY <2>3, <2>4, <2>5, OnceMapped, Zenon
<1> QED
  BY <1>5, <1>6, Zenon

LEMMA OncePush ==
  ASSUME Typed, NEW p \in Callers, Push(p), NEW t \in Tasks, Once(t)
  PROVE  Once(t)'
<1> DEFINE x == arg[p][1]
           w == arg[p][2]
<1>1. cpc[p] = "push" /\ cpc' = [cpc EXCEPT ![p] = "idle"] /\ arg' = [arg EXCEPT ![p] = None]
      /\ Enqueue(x, w) /\ UNCHANGED <<ran, done, pending_tasks_>>
  BY Zenon DEF Push
<1>2. x \in Tasks /\ w \in Workers
  BY <1>1, MainArg, Zenon
<1>3. \A c \in Callers : Hand(c, t)' => Hand(c, t) /\ c # p
  BY <1>1, Zenon DEF Hand, Typed, TypeOK, CallInv
<1>4. \A v \in Workers : Mapped(v, t)' <=> Mapped(v, t)
  BY <1>1, Zenon DEF Mapped
<1>5. \A v \in Workers, i \in Nat :
        Queued(v, i, t)' => Queued(v, i, t) \/ (t = x /\ v = w /\ i = Len(pushed[w]) + 1)
  BY <1>1, <1>2, QueuedAfterPush, Zenon
<1>6. CASE t # x
  BY <1>1, <1>3, <1>4, <1>5, <1>6, OnceSame, Zenon
<1>7. CASE t = x
  <2>1. Hand(p, t)
    BY <1>1, <1>7, Zenon DEF Hand
  <2>2. ran[t] = 0 /\ (\A c \in Callers : Hand(c, t) => c = p)
        /\ \A v \in Workers : ~Mapped(v, t) /\ \A i \in Nat : ~Queued(v, i, t)
    BY <2>1, Zenon DEF Once
  <2>3. \A v, u \in Workers, i, j \in Nat : Queued(v, i, t)' /\ Queued(u, j, t)' => v = u /\ i = j
    <3>1. \A v \in Workers, i \in Nat : Queued(v, i, t)' => v = w /\ i = Len(pushed[w]) + 1
      BY <1>5, <2>2, Zenon
    <3> QED
      BY <3>1, Zenon
  <2> HIDE DEF w
  <2> QED
    BY <1>1, <1>3, <1>4, <2>2, <2>3, OnceQueued, Zenon
<1> QED
  BY <1>6, <1>7, Zenon

LEMMA OnceInnerPost ==
  ASSUME Typed, NEW w \in Workers, NEW y \in Nested, InnerPost(w, y), NEW t \in Tasks, Once(t)
  PROVE  Once(t)'
<1>1. Child(y) \in Tasks /\ Fresh(Child(y)) /\ Enqueue(Child(y), w)
      /\ UNCHANGED <<cpc, arg, ran, done, pending_tasks_>>
  BY Zenon DEF InnerPost, Tasks, calls
<1>2. \A c \in Callers : Hand(c, t)' <=> Hand(c, t)
  BY <1>1, Zenon DEF Hand
<1>3. \A v \in Workers : Mapped(v, t)' <=> Mapped(v, t)
  BY <1>1, Zenon DEF Mapped
<1>4. \A v \in Workers, i \in Nat :
        Queued(v, i, t)' => Queued(v, i, t) \/ (t = Child(y) /\ v = w /\ i = Len(pushed[w]) + 1)
  BY <1>1, QueuedAfterPush, Zenon
<1>5. CASE t # Child(y)
  BY <1>1, <1>2, <1>3, <1>4, <1>5, OnceSame, Zenon
<1>6. CASE t = Child(y)
  <2>1. ran[t] = 0 /\ (\A c \in Callers : ~Hand(c, t)) /\ (\A v \in Workers : ~Mapped(v, t))
        /\ \A v \in Workers, i \in Nat : ~Queued(v, i, t)
    BY <1>1, <1>6, FreshIsNowhere, Zenon
  <2>2. \A v, u \in Workers, i, j \in Nat : Queued(v, i, t)' /\ Queued(u, j, t)' => v = u /\ i = j
    BY <1>4, <2>1, ZenonT(30)
  <2> QED
    BY <1>1, <1>2, <1>3, <2>1, <2>2, OnceQueued, Zenon
<1> QED
  BY <1>5, <1>6, Zenon

LEMMA OnceRunPending ==
  ASSUME Typed, NEW w \in Workers, NEW x \in Tasks, RunPending(w, x), NEW t \in Tasks, Once(t)
  PROVE  Once(t)'
<1>1. x \in pending_tasks_[w] /\ ran' = [ran EXCEPT ![x] = @ + 1]
      /\ pending_tasks_' = [pending_tasks_ EXCEPT ![w] = @ \ {x}]
      /\ UNCHANGED <<cpc, arg, done, pushed>>
  BY Zenon DEF RunPending, Call, calls
<1>2. \A c \in Callers : Hand(c, t)' <=> Hand(c, t)
  BY <1>1, Zenon DEF Hand
<1>3. \A v \in Workers : Mapped(v, t)' => Mapped(v, t) /\ ~(v = w /\ t = x)
  BY <1>1, Zenon DEF Mapped, Typed, TypeOK
<1>4. \A v \in Workers, i \in Nat : Queued(v, i, t)' <=> Queued(v, i, t)
  BY <1>1, Zenon DEF Queued
<1>5. CASE t # x
  <2>1. ran'[t] = ran[t]
    BY <1>1, <1>5, Zenon DEF Typed, TypeOK
  <2> QED
    BY <1>2, <1>3, <1>4, <2>1, OnceSame, Zenon
<1>6. CASE t = x
  <2>1. Mapped(w, t)
    BY <1>1, <1>6, Zenon DEF Mapped
  <2>2. ran[t] = 0 /\ (\A c \in Callers : ~Hand(c, t))
        /\ \A v \in Workers : (Mapped(v, t) => v = w) /\ \A i \in Nat : ~Queued(v, i, t)
    BY <2>1, Zenon DEF Once
  <2>3. ran'[t] = 1
    <3>1. ran \in [Tasks -> Nat]
      BY Zenon DEF Typed, TypeOK
    <3>2. ran'[t] = ran[t] + 1
      BY <1>1, <1>6, <3>1, Zenon
    <3>3. 0 + 1 = 1
      OBVIOUS
    <3> QED
      BY <2>2, <3>2, <3>3, Zenon
  <2> QED
    BY <1>2, <1>3, <1>4, <1>6, <2>2, <2>3, OnceRan, Zenon
<1> QED
  BY <1>5, <1>6, Zenon

\* The first of the batch is the first position not run yet.
LEMMA HeadIsNext ==
  ASSUME Typed, QueueOrder, NEW w \in Workers, batch[w] # <<>>
  PROVE  Queued(w, Len(done[w]) + 1, Head(batch[w]))
<1> DEFINE a == done[w]
           b == batch[w]
           q == task_queue_[w]
<1>1. a \in Seq(Tasks) /\ b \in Seq(Tasks) /\ q \in Seq(Tasks) /\ b # <<>>
      /\ pushed[w] = (a \o b) \o q
  BY Zenon DEF Typed, TypeOK, QueueOrder
<1> HIDE DEF a, b, q
<1>2. Len(a) \in Nat /\ Len(b) \in Nat \ {0} /\ Len(q) \in Nat /\ Head(b) = b[1]
  BY <1>1, SMTT(30)
<1>3. Len(a \o b) = Len(a) + Len(b) /\ (a \o b)[Len(a) + 1] = b[1] /\ a \o b \in Seq(Tasks)
  BY <1>1, <1>2
<1>4. Len((a \o b) \o q) = Len(a) + Len(b) + Len(q) /\ ((a \o b) \o q)[Len(a) + 1] = b[1]
  BY <1>1, <1>2, <1>3
<1>5. Len(a) + 1 \in Len(a) + 1 .. Len(pushed[w]) /\ pushed[w][Len(a) + 1] = Head(b)
  BY <1>1, <1>2, <1>4
<1> QED
  BY <1>5, Zenon DEF Queued, a, b

LEMMA OnceRunQueued ==
  ASSUME Typed, QueueOrder, NEW w \in Workers, RunQueued(w), NEW t \in Tasks, Once(t)
  PROVE  Once(t)'
<1> DEFINE x == Head(batch[w])
           n == Len(done[w]) + 1
<1>1. batch[w] # <<>> /\ ran' = [ran EXCEPT ![x] = @ + 1]
      /\ done' = [done EXCEPT ![w] = Append(@, x)]
      /\ UNCHANGED <<cpc, arg, pending_tasks_, pushed>>
  BY Zenon DEF RunQueued, Call, calls
<1>2. \A c \in Callers : Hand(c, t)' <=> Hand(c, t)
  BY <1>1, Zenon DEF Hand
<1>3. \A v \in Workers : Mapped(v, t)' <=> Mapped(v, t)
  BY <1>1, Zenon DEF Mapped
<1>4. x \in Tasks /\ Queued(w, n, x) /\ n \in Nat
  <2>1. batch[w] \in Seq(Tasks) /\ done[w] \in Seq(Tasks)
    BY Zenon DEF Typed, TypeOK
  <2>2. x \in Tasks /\ n \in Nat
    BY <1>1, <2>1
  <2> QED
    BY <1>1, <2>2, HeadIsNext, ZenonT(30)
<1>5. \A v \in Workers, i \in Nat : Queued(v, i, t)' => Queued(v, i, t) /\ ~(v = w /\ i = n)
  <2> SUFFICES ASSUME NEW v \in Workers, NEW i \in Nat, Queued(v, i, t)'
               PROVE  Queued(v, i, t) /\ ~(v = w /\ i = n)
    BY Zenon
  <2>1. i \in Len(done'[v]) + 1 .. Len(pushed[v]) /\ pushed[v][i] = t
    BY <1>1, Zenon DEF Queued
  <2>2. done[v] \in Seq(Tasks) /\ pushed[v] \in Seq(Tasks)
    BY Zenon DEF Typed, TypeOK
  <2>3. CASE v # w
    <3>1. done'[v] = done[v]
      BY <1>1, <2>3, Zenon DEF Typed, TypeOK
    <3> QED
      BY <2>1, <2>3, <3>1, Zenon DEF Queued
  <2>4. CASE v = w
    <3>1. done'[v] = Append(done[v], x)
      BY <1>1, <2>4, Zenon DEF Typed, TypeOK
    <3>2. Len(done'[v]) = Len(done[v]) + 1 /\ Len(done[v]) \in Nat /\ Len(pushed[v]) \in Nat
      BY <2>2, <3>1, <1>4, SMTT(30)
    <3> QED
      BY <2>1, <2>4, <3>2, SMTT(30) DEF Queued
  <2> QED
    BY <2>3, <2>4, Zenon
<1> HIDE DEF x, n
<1>6. CASE t # x
  <2>1. ran'[t] = ran[t]
    BY <1>1, <1>6, Zenon DEF Typed, TypeOK
  <2> QED
    BY <1>2, <1>3, <1>5, <2>1, OnceSame, Zenon
<1>7. CASE t = x
  <2>1. ran[t] = 0 /\ (\A c \in Callers : ~Hand(c, t)) /\ (\A v \in Workers : ~Mapped(v, t))
        /\ \A v \in Workers, j \in Nat : Queued(v, j, t) => v = w /\ j = n
    BY <1>4, <1>7, Zenon DEF Once
  <2>2. ran'[t] = 1
    <3>1. ran \in [Tasks -> Nat]
      BY Zenon DEF Typed, TypeOK
    <3>2. ran'[t] = ran[t] + 1
      BY <1>1, <1>7, <3>1, Zenon
    <3>3. 0 + 1 = 1
      OBVIOUS
    <3> QED
      BY <2>1, <3>2, <3>3, Zenon
  <2>3. \A v \in Workers, i \in Nat : ~Queued(v, i, t)'
    BY <1>5, <2>1, Zenon
  <2> QED
    BY <1>2, <1>3, <2>1, <2>2, <2>3, OnceRan, Zenon
<1> QED
  BY <1>6, <1>7, Zenon

\* Steps that move no task.
LEMMA OnceKept ==
  ASSUME NEW t, Once(t), UNCHANGED <<cpc, arg, pending_tasks_, pushed, done, ran>>
  PROVE  Once(t)'
BY OnceSame, Zenon DEF Hand, Mapped, Queued

LEMMA OnceSubmit ==
  ASSUME Typed, Submit, NEW t \in Tasks, Once(t)
  PROVE  Once(t)'
<1>1. cpc' = [cpc EXCEPT ![Main] = "idle"] /\ arg' = [arg EXCEPT ![Main] = None]
      /\ UNCHANGED <<pending_tasks_, pushed, done, ran>>
  BY Zenon DEF Submit
<1>2. \A c \in Callers : Hand(c, t)' => Hand(c, t)
  BY <1>1, Zenon DEF Hand, Typed, TypeOK, CallInv
<1> QED
  BY <1>1, <1>2, OnceSame, Zenon DEF Mapped, Queued

LEMMA OnceNext ==
  ASSUME Typed, QueueOrder, [Next]_vars, fails' = 0, cpc[Main] # "erase",
         NEW t \in Tasks, Once(t)
  PROVE  Once(t)'
<1>1. CASE \E x \in Dispatched, strategy \in {"rr", "lc"} : Dispatch(x, strategy)
  BY <1>1, OnceDispatch, Zenon
<1>2. CASE \E c \in Posters, x \in Posted, w \in Workers : Post(c, x, w)
  BY <1>2, OncePost, Zenon
<1>3. CASE CallerStep
  <2>0. fails \in Nat
    BY PoolAssumption DEF Typed, TypeOK
  <2>1. ~SubmitThrows /\ ~Erase
    <3>1. SubmitThrows => fails' = fails + 1
      BY Zenon DEF SubmitThrows
    <3>2. fails' # fails + 1
      BY <2>0
    <3>3. ~Erase
      BY Zenon DEF Erase
    <3> QED
      BY <3>1, <3>2, <3>3, Zenon
  <2> QED
    BY <1>3, <2>1, OnceInsert, OnceSubmit, OncePush, Zenon DEF CallerStep
<1>4. ASSUME NEW w \in Workers, WorkerStep(w) PROVE Once(t)'
  <2>1. CASE Check(w) \/ LockPending(w) \/ UnlockPending(w) \/ Swap(w) \/ DrainDone(w) \/ Ring(w)
    BY <2>1, OnceKept, Zenon DEF Check, LockPending, UnlockPending, Swap, DrainDone, Ring, calls
  <2> QED
    BY <1>4, <2>1, OnceRunPending, OnceRunQueued, OnceInnerPost, Zenon DEF WorkerStep
<1>5. CASE StopFirst \/ \E w \in Workers : Join(w)
  BY <1>5, OnceKept, Zenon DEF StopFirst, Join
<1>6. CASE UNCHANGED vars
  BY <1>6, OnceKept, Zenon DEF vars
<1> QED
  BY <1>1, <1>2, <1>3, <1>4, <1>5, <1>6, ZenonT(30) DEF Next, WorkNext

\* Failures are counted, and only one of them makes the main thread take a task back.
LEMMA FailsNext ==
  ASSUME Typed, [Next]_vars, cpc[Main] = "erase" => fails # 0
  PROVE  /\ fails' = 0 => fails = 0
         /\ cpc'[Main] = "erase" => fails' # 0
<1> USE MainIsCaller
<1>0. cpc \in [Callers -> {"idle", "insert", "submit", "erase", "push"}] /\ fails \in Nat
  <2>1. cpc \in [Callers -> {"idle", "insert", "submit", "erase", "push"}] /\ fails \in 0 .. MaxFails
    BY Zenon DEF Typed, TypeOK
  <2> QED
    BY <2>1, PoolAssumption, SMTT(30)
<1>1. CASE SubmitThrows
  BY <1>0, <1>1 DEF SubmitThrows
<1>2. CASE fails' = fails /\ (cpc'[Main] = "erase" => cpc[Main] = "erase")
  BY <1>2, Zenon
<1>3. CASE \E x \in Dispatched, strategy \in {"rr", "lc"} : Dispatch(x, strategy)
  BY <1>0, <1>2, <1>3, Zenon DEF Dispatch
<1>4. CASE \E c \in Posters, x \in Posted, w \in Workers : Post(c, x, w)
  BY <1>0, <1>2, <1>4, Zenon DEF Post
<1>5. CASE CallerStep
  BY <1>0, <1>1, <1>2, <1>5, ZenonT(30) DEF CallerStep, Insert, Submit, Erase, Push
<1>6. ASSUME NEW w \in Workers, WorkerStep(w) PROVE UNCHANGED <<fails, cpc>>
  BY <1>6, Zenon DEF WorkerStep, Check, LockPending, RunPending, UnlockPending, Swap, RunQueued,
              InnerPost, DrainDone, Ring, calls
<1>7. CASE StopFirst \/ \E w \in Workers : Join(w)
  BY <1>2, <1>7, Zenon DEF StopFirst, Join
<1>8. CASE UNCHANGED vars
  BY <1>2, <1>8, Zenon DEF vars
<1> QED
  BY <1>2, <1>3, <1>4, <1>5, <1>6, <1>7, <1>8, Zenon DEF Next, WorkNext

-----------------------------------------------------------------------------
(* The strategies choose a worker *)

INSTANCE WellFoundedInduction

LEMMA LeastNumber == ASSUME NEW T, T \subseteq Nat, T # {} PROVE \E x \in T : \A y \in T : x <= y
<1>1. IsWellFoundedOn(OpToRel(<, Nat), Nat)
  BY NatLessThanWellFounded, Zenon
<1>2. PICK x \in T : \A y \in T : <<y, x>> \notin OpToRel(<, Nat)
  BY <1>1, WFMin, Zenon
<1>3. \A y \in T : ~(y < x)
  BY <1>2, Zenon DEF OpToRel
<1> QED
  BY <1>3

LEMMA LeastIsWorker ==
  ASSUME connection_count_ \in [Workers -> Nat] PROVE LeastConnections \in Workers
<1> DEFINE T == {connection_count_[w] : w \in Workers}
<1>1. 1 \in Workers /\ Workers \subseteq Nat
  BY PoolAssumption DEF Workers
<1>2. T \subseteq Nat /\ T # {}
  BY <1>1, Zenon
<1>3. PICK m \in T : \A y \in T : m <= y
  BY <1>2, LeastNumber, Zenon
<1> DEFINE U == {w \in Workers : connection_count_[w] = m}
<1>4. U \subseteq Nat /\ U # {}
  BY <1>1, Zenon
<1>5. PICK w \in U : \A v \in U : w <= v
  BY <1>4, LeastNumber, Zenon
<1>6. \A v \in Workers : /\ connection_count_[w] <= connection_count_[v]
                         /\ v < w => connection_count_[w] < connection_count_[v]
  <2> SUFFICES ASSUME NEW v \in Workers
               PROVE  /\ connection_count_[w] <= connection_count_[v]
                      /\ v < w => connection_count_[w] < connection_count_[v]
    BY Zenon
  <2>1. connection_count_[w] = m /\ connection_count_[v] \in T /\ w \in Nat /\ v \in Nat
    BY <1>1, Zenon
  <2>2. m <= connection_count_[v] /\ m \in Nat /\ connection_count_[v] \in Nat
    BY <2>1, <1>2, <1>3, Zenon
  <2>3. v < w => connection_count_[v] # m
    BY <1>5, <2>1
  <2> QED
    BY <2>1, <2>2, <2>3
<1>7. w \in Workers
  BY Zenon
<1> QED
  BY <1>6, <1>7, Zenon DEF LeastConnections

LEMMA RoundRobinIsWorker == ASSUME next_worker_ \in Nat PROVE RoundRobin \in Workers
BY PoolAssumption DEF RoundRobin, Workers

LEMMA TypeDispatch ==
  ASSUME Typed, NEW t \in Dispatched, NEW strategy \in {"rr", "lc"}, Dispatch(t, strategy)
  PROVE  Typed'
<1> DEFINE w == IF strategy = "lc" THEN LeastConnections ELSE RoundRobin
<1>1. w \in Workers
  BY LeastIsWorker, RoundRobinIsWorker, Zenon DEF Typed, TypeOK
<1>2. t \in Tasks
  BY Zenon DEF Tasks
<1>3. arg' = [arg EXCEPT ![Main] = <<t, w>>] /\ cpc' = [cpc EXCEPT ![Main] = "insert"]
  BY Zenon DEF Dispatch
<1>4. connection_count_' \in [Workers -> Nat] /\ next_worker_' \in Nat
  BY <1>1, SMTT(30) DEF Dispatch, Typed, TypeOK
<1> HIDE DEF w
<1>5. CallInv'
  <2>1. arg' \in [Callers -> (Tasks \X Workers) \cup {None}]
    BY <1>1, <1>2, <1>3, Zenon DEF Typed, CallInv
  <2>2. \A c \in Callers : cpc'[c] # "idle" => arg'[c] \in Tasks \X Workers
    BY <1>1, <1>2, <1>3, ZenonT(30) DEF Typed, TypeOK, CallInv
  <2>3. \A c \in Posters : cpc'[c] = cpc[c]
    BY <1>3, MainIsCaller, Zenon DEF Typed, TypeOK
  <2>4. tasks_mutex_' = tasks_mutex_
    BY Zenon DEF Dispatch, loops
  <2> QED
    BY <2>1, <2>2, <2>3, <2>4, Zenon DEF Typed, CallInv
<1>6. BatchInv'
  BY Zenon DEF Dispatch, loops, Typed, BatchInv
<1>7. TypeOK'
  <2>1. cpc' \in [Callers -> {"idle", "insert", "submit", "erase", "push"}]
    BY <1>3, Zenon DEF Typed, TypeOK
  <2>2. \A c \in Callers : arg'[c] = None \/ arg'[c] \in Tasks \X Workers
    BY <1>5, Zenon DEF CallInv
  <2> QED
    BY <1>4, <2>1, <2>2, Zenon DEF Dispatch, loops, Typed, TypeOK
<1> QED
  BY <1>5, <1>6, <1>7, Zenon DEF Typed

LEMMA TypeNext == Typed /\ [Next]_vars => Typed'
<1> SUFFICES ASSUME Typed, [Next]_vars PROVE Typed'
  BY Zenon
<1>1. CASE \E t \in Dispatched, strategy \in {"rr", "lc"} : Dispatch(t, strategy)
  BY <1>1, TypeDispatch, Zenon
<1>2. CASE \E c \in Posters, t \in Posted, w \in Workers : Post(c, t, w)
  BY <1>2, TypePost, Zenon
<1>3. CASE CallerStep
  BY <1>3, TypeMain, TypePush, Zenon DEF CallerStep
<1>4. CASE \E w \in Workers : WorkerStep(w)
  BY <1>4, TypeIdle, TypeRunPending, TypeSwap, TypeRunQueued, TypeInnerPost, Zenon DEF WorkerStep
<1>5. CASE StopFirst \/ \E w \in Workers : Join(w)
  BY <1>5, TypeStop, Zenon
<1>6. CASE UNCHANGED vars
  BY <1>6, Zenon DEF vars, Typed, TypeOK, CallInv, BatchInv
<1> QED
  BY <1>1, <1>2, <1>3, <1>4, <1>5, <1>6, Zenon DEF Next, WorkNext

-----------------------------------------------------------------------------
Inv == Typed /\ QueueOrder /\ OnceInv

LEMMA InvInit == Init => Inv
<1> SUFFICES ASSUME Init PROVE Inv
  BY Zenon
<1>1. Typed
  BY TypeInit, Zenon
<1>2. QueueOrder
  BY DEF Init, QueueOrder
<1>3. ASSUME NEW t \in Tasks PROVE Once(t)
  BY DEF Init, Once, Hand, Mapped, Queued
<1>4. cpc[Main] # "erase"
  BY MainIsCaller, Zenon DEF Init
<1> QED
  BY <1>1, <1>2, <1>3, <1>4, Zenon DEF Inv, OnceInv

LEMMA InvNext == Inv /\ [Next]_vars => Inv'
<1> SUFFICES ASSUME Inv, [Next]_vars PROVE Inv'
  BY Zenon
<1>1. Typed' /\ QueueOrder'
  BY TypeNext, OrderNext, Zenon DEF Inv
<1>2. (fails' = 0 => fails = 0) /\ (cpc'[Main] = "erase" => fails' # 0)
  BY FailsNext, Zenon DEF Inv, OnceInv
<1>3. ASSUME fails' = 0, NEW t \in Tasks PROVE Once(t)'
  BY <1>2, <1>3, OnceNext, Zenon DEF Inv, OnceInv
<1> QED
  BY <1>1, <1>2, <1>3, Zenon DEF Inv, OnceInv

LEMMA InvAlways == Spec => []Inv
BY InvInit, InvNext, PTL DEF Spec

\* Every worker's mutex is free or its own, every call that has begun has a
\* task and a worker, and both strategies name a worker of the pool, however
\* many there are.
THEOREM TypeCorrect == Spec => []TypeOK
<1>1. Inv => TypeOK
  BY Zenon DEF Inv, Typed
<1> QED
  BY <1>1, InvAlways, PTL

\* process_tasks() swaps the queue out and runs it without the mutex; still no
\* task pushed is lost, run twice or overtaken, for any number of workers and
\* of threads that post, and of tasks that post from inside.
THEOREM QueuesInOrder == Spec => []QueueOrder
<1>1. Inv => QueueOrder
  BY Zenon DEF Inv
<1> QED
  BY <1>1, InvAlways, PTL

\* Until a MSG_RING submission throws, no task is called twice, whichever of
\* the map and the queue it was handed to.
THEOREM NoTaskTwice == Spec => []AtMostOnce
<1>1. Inv => AtMostOnce
  BY Zenon DEF Inv, OnceInv, Once, AtMostOnce
<1> QED
  BY <1>1, InvAlways, PTL

-----------------------------------------------------------------------------
(***************************************************************************)
(* LoadBalancer.  A position of weighted_indices_ belongs to the endpoint  *)
(* whose sum of turns it falls under; while current_ has not wrapped it is *)
(* the number of selections, so full rounds and a remainder of one say how *)
(* often each endpoint was selected.                                       *)
(***************************************************************************)
LEMMA Joined ==
  ASSUME NEW X, NEW s \in Seq(X), NEW r \in Seq(X)
  PROVE  /\ s \o r \in Seq(X) /\ Len(s \o r) = Len(s) + Len(r)
         /\ \A j \in 1..Len(s) : (s \o r)[j] = s[j]
         /\ \A j \in 1..Len(r) : (s \o r)[Len(s) + j] = r[j]
<1>1. s \o r \in Seq(X) /\ Len(s \o r) = Len(s) + Len(r)
  OBVIOUS
<1>2. \A j \in 1..Len(s) : (s \o r)[j] = s[j]
  OBVIOUS
<1>3. \A j \in 1..Len(r) : (s \o r)[Len(s) + j] = r[j]
  OBVIOUS
<1> QED
  BY <1>1, <1>2, <1>3, Zenon

\* What holds of 0, and of n when it holds of n - 1, holds of 0..N.
LEMMA UpTo ==
  ASSUME NEW N \in Nat, NEW S, 0 \in S, \A n \in 1..N : n - 1 \in S => n \in S
  PROVE  \A n \in 0..N : n \in S
<1>1. PICK bad : bad = {n \in 0..N : n \notin S}
  BY Zenon
<1> SUFFICES ASSUME bad # {} PROVE FALSE
  BY <1>1, Zenon
<1>2. PICK n \in bad : \A m \in bad : n <= m
  <2>1. bad \subseteq Nat
    BY <1>1
  <2> QED
    BY <2>1, LeastNumber, Zenon
<1>3. n \in 1..N /\ n - 1 \in 0..N /\ ~(n <= n - 1)
  BY <1>1, <1>2
<1>4. n - 1 \in S
  BY <1>1, <1>2, <1>3, Zenon
<1> QED
  BY <1>1, <1>2, <1>3, <1>4, Zenon

\* f are the sums of the first elements of s.
IsSum(f, s) ==
  /\ f \in [0..Len(s) -> Int] /\ f[0] = 0
  /\ \A n \in 1..Len(s) : f[n] = f[n - 1] + s[n]

LEMMA SumExists ==
  ASSUME NEW s \in Seq(Int)
  PROVE  \E f : IsSum(f, s) /\ H!Total(s) = f[Len(s)]
<1> DEFINE D(N, g) == [n \in 0..N |-> IF n = 0 THEN 0 ELSE g[n - 1] + s[n]]
           S == {N \in 0..Len(s) : \E g \in [0..N -> Int] : g = D(N, g)}
<1>1. 0 \in S
  <2>1. PICK g : g = [n \in 0..0 |-> 0]
    BY Zenon
  <2>2. g \in [0..0 -> Int] /\ g = D(0, g)
    BY <2>1
  <2> QED
    BY <2>2
<1>2. ASSUME NEW n \in 1..Len(s), n - 1 \in S PROVE n \in S
  <2>1. PICK g \in [0..(n - 1) -> Int] : g = D(n - 1, g)
    BY <1>2, Zenon
  <2>2. PICK h : h = [m \in 0..n |-> IF m = n THEN g[n - 1] + s[n] ELSE g[m]]
    BY Zenon
  <2>3. h \in [0..n -> Int]
    BY <2>1, <2>2, SMTT(20)
  <2>4. h = D(n, h)
    <3>1. ASSUME NEW m \in 0..n PROVE h[m] = IF m = 0 THEN 0 ELSE h[m - 1] + s[m]
      <4>1. CASE m = n
        BY <2>2, <4>1
      <4>2. CASE m # n
        <5>1. m \in 0..(n - 1) /\ g[m] = IF m = 0 THEN 0 ELSE g[m - 1] + s[m]
          BY <2>1, <4>2, SMTT(20)
        <5>2. m # 0 => m - 1 \in 0..(n - 1) /\ m - 1 # n
          BY <5>1
        <5> QED
          BY <2>2, <4>2, <5>1, <5>2, SMTT(30)
      <4> QED
        BY <4>1, <4>2, Zenon
    <3> QED
      BY <2>3, <3>1, Zenon
  <2>5. n \in 0..Len(s)
    OBVIOUS
  <2> QED
    BY <2>3, <2>4, <2>5, Zenon
<1>3. Len(s) \in S
  <2>1. Len(s) \in Nat
    OBVIOUS
  <2> HIDE DEF S
  <2>2. \A n \in 0..Len(s) : n \in S
    BY <1>1, <1>2, <2>1, UpTo, Zenon
  <2> QED
    BY <2>1, <2>2
<1>4. PICK g : g = CHOOSE f : f = D(Len(s), f)
  BY Zenon
<1>5. g = D(Len(s), g)
  BY <1>3, <1>4, Zenon
<1>6. H!Total(s) = g[Len(s)]
  BY <1>4, Zenon DEF H!Total
<1>7. \A n \in 0..Len(s) : g[n] = IF n = 0 THEN 0 ELSE g[n - 1] + s[n]
  BY <1>5, Zenon
<1>8. \A n \in 0..Len(s) : g[n] \in Int
  <2>1. PICK I : I = {n \in 0..Len(s) : g[n] \in Int}
    BY Zenon
  <2>2. Len(s) \in Nat /\ 0 \in I
    BY <1>7, <2>1
  <2>3. ASSUME NEW n \in 1..Len(s), n - 1 \in I PROVE n \in I
    BY <1>7, <2>1, <2>3, SMTT(20)
  <2>4. \A n \in 0..Len(s) : n \in I
    BY <2>2, <2>3, UpTo, Zenon
  <2> QED
    BY <2>1, <2>4, Zenon
<1>9. g \in [0..Len(s) -> Int]
  BY <1>5, <1>8, Zenon
<1>10. IsSum(g, s)
  BY <1>7, <1>9, SMTT(20) DEF IsSum
<1> QED
  BY <1>6, <1>10, Zenon

LEMMA SumGrows ==
  ASSUME NEW s \in Seq(Int), NEW f, IsSum(f, s), \A n \in 1..Len(s) : s[n] >= 0, NEW i \in 0..Len(s)
  PROVE  \A n \in 0..Len(s) : i <= n => f[i] <= f[n]
<1>1. PICK S : S = {n \in 0..Len(s) : i <= n => f[i] <= f[n]}
  BY Zenon
<1>2. Len(s) \in Nat /\ 0 \in S
  BY <1>1 DEF IsSum
<1>3. ASSUME NEW n \in 1..Len(s), n - 1 \in S PROVE n \in S
  <2>1. f[n] = f[n - 1] + s[n] /\ s[n] \in Int /\ s[n] >= 0 /\ f[n - 1] \in Int /\ f[i] \in Int /\ f[n] \in Int
    <3>1. n - 1 \in 0..Len(s) /\ n \in 0..Len(s) /\ s[n] \in Int
      OBVIOUS
    <3> QED
      BY <3>1, Zenon DEF IsSum
  <2>2. n \in 0..Len(s) /\ (i <= n => i = n \/ i <= n - 1)
    OBVIOUS
  <2>3. PICK lo, x, y, e : lo = f[i] /\ x = f[n - 1] /\ y = f[n] /\ e = s[n]
    BY Zenon
  <2>4. /\ lo \in Int /\ x \in Int /\ y \in Int /\ e \in Int /\ e >= 0 /\ y = x + e
        /\ (i <= n - 1 => lo <= x) /\ (i = n => lo = y)
    BY <1>1, <1>3, <2>1, <2>3, Zenon
  <2>5. i <= n => lo <= y
    BY <2>2, <2>4
  <2> QED
    BY <1>1, <2>2, <2>3, <2>5, Zenon
<1>4. \A n \in 0..Len(s) : n \in S
  BY <1>2, <1>3, UpTo, Zenon
<1> QED
  BY <1>1, <1>4, Zenon

\* One more selection of i.
LEMMA SumPlus ==
  ASSUME NEW s \in Seq(Int), NEW i \in 1..Len(s), NEW r \in Seq(Int), Len(r) = Len(s),
         \A n \in 1..Len(s) : r[n] = IF n = i THEN s[n] + 1 ELSE s[n]
  PROVE  H!Total(r) = H!Total(s) + 1
<1>1. PICK f : IsSum(f, s) /\ H!Total(s) = f[Len(s)]
  BY SumExists, Zenon
<1>2. PICK g : IsSum(g, r) /\ H!Total(r) = g[Len(r)]
  BY SumExists, Zenon
<1>3. Len(r) = Len(s) /\ Len(s) \in Nat /\ \A n \in 1..Len(s) : r[n] = IF n = i THEN s[n] + 1 ELSE s[n]
  OBVIOUS
<1>4. PICK S : S = {n \in 0..Len(s) : g[n] = IF i <= n THEN f[n] + 1 ELSE f[n]}
  BY Zenon
<1>5. 0 \in S
  BY <1>1, <1>2, <1>3, <1>4, SMTT(30) DEF IsSum
<1>6. ASSUME NEW n \in 1..Len(s), n - 1 \in S PROVE n \in S
  <2>1. f[n] = f[n - 1] + s[n] /\ f[n - 1] \in Int /\ s[n] \in Int /\ g[n] = g[n - 1] + r[n]
    <3>1. n - 1 \in 0..Len(s) /\ s[n] \in Int /\ n \in 1..Len(r)
      BY <1>3
    <3> QED
      BY <1>1, <1>2, <3>1, Zenon DEF IsSum
  <2>2. g[n - 1] = IF i <= n - 1 THEN f[n - 1] + 1 ELSE f[n - 1]
    BY <1>4, <1>6, Zenon
  <2>3. r[n] = IF n = i THEN s[n] + 1 ELSE s[n]
    BY <1>3, Zenon
  <2>4. g[n] = IF i <= n THEN f[n] + 1 ELSE f[n]
    <3>1. PICK x, y, e, gx, gy, c :
            /\ x = f[n - 1] /\ y = f[n] /\ e = s[n]
            /\ gx = g[n - 1] /\ gy = g[n] /\ c = r[n]
      BY Zenon
    <3>2. /\ x \in Int /\ e \in Int /\ y = x + e /\ gy = gx + c
          /\ gx = (IF i <= n - 1 THEN x + 1 ELSE x) /\ c = (IF n = i THEN e + 1 ELSE e)
      BY <2>1, <2>2, <2>3, <3>1, ZenonT(30)
    <3>3. gy = IF i <= n THEN y + 1 ELSE y
      BY <3>2, SMTT(20)
    <3> QED
      BY <3>1, <3>3, Zenon
  <2> QED
    BY <1>4, <2>4
<1>7. \A n \in 0..Len(s) : n \in S
  BY <1>3, <1>5, <1>6, UpTo, Zenon
<1>8. g[Len(s)] = f[Len(s)] + 1
  BY <1>3, <1>4, <1>7, SMTT(20)
<1> QED
  BY <1>1, <1>2, <1>8, Zenon

LEMMA SumZero ==
  ASSUME NEW s \in Seq(Int), \A n \in 1..Len(s) : s[n] = 0
  PROVE  H!Total(s) = 0
<1>1. PICK f : IsSum(f, s) /\ H!Total(s) = f[Len(s)]
  BY SumExists, Zenon
<1>2. PICK S : S = {n \in 0..Len(s) : f[n] = 0}
  BY Zenon
<1>3. Len(s) \in Nat /\ 0 \in S
  BY <1>1, <1>2 DEF IsSum
<1>4. ASSUME NEW n \in 1..Len(s), n - 1 \in S PROVE n \in S
  BY <1>1, <1>2, <1>4, SMTT(20) DEF IsSum
<1>5. \A n \in 0..Len(s) : n \in S
  BY <1>3, <1>4, UpTo, Zenon
<1> QED
  BY <1>1, <1>2, <1>3, <1>5

LEMMA SumNat ==
  ASSUME NEW s \in Seq(Int), \A n \in 1..Len(s) : s[n] >= 0
  PROVE  H!Total(s) \in Nat
<1>1. PICK f : IsSum(f, s) /\ H!Total(s) = f[Len(s)]
  BY SumExists, Zenon
<1>2. 0 \in 0..Len(s) /\ Len(s) \in 0..Len(s) /\ 0 <= Len(s)
  OBVIOUS
<1>3. f[0] <= f[Len(s)] /\ f[0] = 0 /\ f[Len(s)] \in Int
  BY <1>1, <1>2, SumGrows, Zenon DEF IsSum
<1> QED
  BY <1>1, <1>3

-----------------------------------------------------------------------------
\* Rounds and the position in the round.
LEMMA DivisionStep ==
  ASSUME NEW n \in Nat, NEW d \in Nat \ {0}
  PROVE  /\ n % d \in 0..(d - 1) /\ n \div d \in Nat /\ n = d * (n \div d) + (n % d)
         /\ (n % d) + 1 < d => (n + 1) % d = (n % d) + 1 /\ (n + 1) \div d = n \div d
         /\ (n % d) + 1 = d => (n + 1) % d = 0 /\ (n + 1) \div d = (n \div d) + 1
<1>1. PICK q, r : q = n \div d /\ r = n % d
  BY Zenon
<1>2. q \in Nat /\ r \in 0..(d - 1) /\ n = d * q + r
  BY <1>1
<1>3. ASSUME r + 1 < d PROVE (n + 1) % d = r + 1 /\ (n + 1) \div d = q
  BY <1>2, <1>3
<1>4. ASSUME r + 1 = d PROVE (n + 1) % d = 0 /\ (n + 1) \div d = q + 1
  BY <1>2, <1>4
<1> QED
  BY <1>1, <1>2, <1>3, <1>4, Zenon

-----------------------------------------------------------------------------
\* deregister_service(): what is left of the endpoints.
Endpoint == [host : Hosts, weight : Weights]

LEMMA WithoutExists ==
  ASSUME NEW s \in Seq(Endpoint), NEW h
  PROVE  \E f : /\ H!Without(s, h) = f[Len(s)] /\ f[0] = <<>>
                /\ \A n \in 1..Len(s) : f[n] = IF s[n].host # h THEN Append(f[n - 1], s[n]) ELSE f[n - 1]
<1> DEFINE D(N, g) == [n \in 0..N |-> IF n = 0 THEN <<>> ELSE IF s[n].host # h THEN Append(g[n - 1], s[n]) ELSE g[n - 1]]
           S == {N \in 0..Len(s) : \E g : g = D(N, g)}
<1>1. 0 \in S
  <2>1. PICK g : g = [n \in 0..0 |-> <<>>]
    BY Zenon
  <2>2. g = D(0, g)
    BY <2>1
  <2>3. 0 \in 0..Len(s)
    OBVIOUS
  <2> QED
    BY <2>2, <2>3, Zenon
<1>2. ASSUME NEW n \in 1..Len(s), n - 1 \in S PROVE n \in S
  <2>1. PICK g : g = D(n - 1, g)
    BY <1>2, Zenon
  <2>2. PICK k : k = [m \in 0..n |-> IF m = n THEN (IF s[n].host # h THEN Append(g[n - 1], s[n]) ELSE g[n - 1]) ELSE g[m]]
    BY Zenon
  <2>3. ASSUME NEW m \in 0..n
        PROVE  k[m] = IF m = 0 THEN <<>> ELSE IF s[m].host # h THEN Append(k[m - 1], s[m]) ELSE k[m - 1]
    <3>1. m # 0 => m - 1 \in 0..(n - 1) /\ m - 1 \in 0..n /\ m - 1 # n
      OBVIOUS
    <3>2. m # 0 => k[m - 1] = g[m - 1]
      BY <2>2, <3>1, Zenon
    <3>3. CASE m = n
      <4>1. m # 0
        BY <3>3
      <4> QED
        BY <2>2, <3>2, <3>3, <4>1, Zenon
    <3>4. CASE m # n
      <4>1. m \in 0..(n - 1)
        BY <3>4
      <4>2. g[m] = IF m = 0 THEN <<>> ELSE IF s[m].host # h THEN Append(g[m - 1], s[m]) ELSE g[m - 1]
        BY <2>1, <4>1, Zenon
      <4>3. k[m] = g[m]
        BY <2>2, <3>4, Zenon
      <4> QED
        BY <3>2, <4>2, <4>3, Zenon
    <3> QED
      BY <3>3, <3>4, Zenon
  <2>4. k = D(n, k)
    BY <2>2, <2>3, Zenon
  <2>5. n \in 0..Len(s)
    OBVIOUS
  <2> QED
    BY <2>4, <2>5, Zenon
<1>3. Len(s) \in S
  <2>1. Len(s) \in Nat
    OBVIOUS
  <2> HIDE DEF S
  <2>2. \A n \in 0..Len(s) : n \in S
    BY <1>1, <1>2, <2>1, UpTo, Zenon
  <2> QED
    BY <2>1, <2>2
<1>4. PICK g : g = CHOOSE f : f = D(Len(s), f)
  BY Zenon
<1>5. g = D(Len(s), g)
  BY <1>3, <1>4, Zenon
<1>6. H!Without(s, h) = g[Len(s)]
  BY <1>4, Zenon DEF H!Without
<1>7. \A n \in 0..Len(s) : g[n] = IF n = 0 THEN <<>> ELSE IF s[n].host # h THEN Append(g[n - 1], s[n]) ELSE g[n - 1]
  BY <1>5, Zenon
<1>8. \A n \in 1..Len(s) : n \in 0..Len(s) /\ n # 0
  OBVIOUS
<1>9. 0 \in 0..Len(s)
  OBVIOUS
<1>10. g[0] = <<>> /\ \A n \in 1..Len(s) : g[n] = IF s[n].host # h THEN Append(g[n - 1], s[n]) ELSE g[n - 1]
  BY <1>7, <1>8, <1>9, Zenon
<1> QED
  BY <1>6, <1>10, Zenon

\* r has at most n of the elements of s, none of them of host h
LeftOf(s, n, h, r) ==
  /\ r \in Seq(Endpoint) /\ Len(r) <= n
  /\ \A j \in 1..Len(r) : r[j].host # h /\ \E k \in 1..Len(s) : r[j] = s[k]

LEMMA WithoutHost ==
  ASSUME NEW s \in Seq(Endpoint), NEW h
  PROVE  LeftOf(s, Len(s), h, H!Without(s, h))
<1>1. PICK f : /\ H!Without(s, h) = f[Len(s)] /\ f[0] = <<>>
               /\ \A n \in 1..Len(s) : f[n] = IF s[n].host # h THEN Append(f[n - 1], s[n]) ELSE f[n - 1]
  BY WithoutExists, ZenonT(30)
<1>2. PICK S : S = {n \in 0..Len(s) : LeftOf(s, n, h, f[n])}
  BY Zenon
<1>3. Len(s) \in Nat /\ 0 \in S
  <2>1. Len(s) \in Nat /\ 0 \in 0..Len(s) /\ LeftOf(s, 0, h, <<>>)
    BY DEF LeftOf
  <2> QED
    BY <1>1, <1>2, <2>1, Zenon
<1>4. ASSUME NEW n \in 1..Len(s), n - 1 \in S PROVE n \in S
  <2>1. LeftOf(s, n - 1, h, f[n - 1]) /\ n \in 0..Len(s) /\ s[n] \in Endpoint
    BY <1>2, <1>4, SMTT(30)
  <2>2. CASE s[n].host = h
    <3>1. f[n] = f[n - 1]
      BY <1>1, <2>2, Zenon
    <3> QED
      <4>1. LeftOf(s, n, h, f[n - 1])
        BY <2>1, SMTT(30) DEF LeftOf
      <4> QED
        BY <1>2, <2>1, <3>1, <4>1, Zenon
  <2>3. CASE s[n].host # h
    <3>1. PICK r : r = f[n - 1]
      BY Zenon
    <3>2. f[n] = Append(r, s[n]) /\ LeftOf(s, n - 1, h, r)
      BY <1>1, <2>1, <2>3, <3>1, Zenon
    <3>3. Append(r, s[n]) \in Seq(Endpoint) /\ Len(Append(r, s[n])) = Len(r) + 1
      BY <2>1, <3>2, SMTT(30) DEF LeftOf
    <3>4. \A j \in 1..(Len(r) + 1) : Append(r, s[n])[j] = s[n] \/ (j \in 1..Len(r) /\ Append(r, s[n])[j] = r[j])
      BY <2>1, <3>2 DEF LeftOf
    <3>5. Len(r) + 1 <= n
      BY <3>2, SMTT(30) DEF LeftOf
    <3>6. ASSUME NEW j \in 1..(Len(r) + 1)
          PROVE  Append(r, s[n])[j].host # h /\ \E k \in 1..Len(s) : Append(r, s[n])[j] = s[k]
      <4>1. CASE Append(r, s[n])[j] = s[n]
        BY <2>3, <4>1, Zenon
      <4>2. CASE j \in 1..Len(r) /\ Append(r, s[n])[j] = r[j]
        BY <3>2, <4>2, Zenon DEF LeftOf
      <4> QED
        BY <3>4, <4>1, <4>2, Zenon
    <3>7. LeftOf(s, n, h, Append(r, s[n]))
      BY <3>3, <3>5, <3>6, Zenon DEF LeftOf
    <3>8. f[n] = Append(r, s[n]) /\ n \in 0..Len(s)
      BY <2>1, <3>2, Zenon
    <3> QED
      BY <1>2, <3>7, <3>8, Zenon
  <2> QED
    BY <2>2, <2>3, Zenon
<1>5. \A n \in 0..Len(s) : n \in S
  BY <1>3, <1>4, UpTo, Zenon
<1>6. LeftOf(s, Len(s), h, f[Len(s)])
  <2>1. Len(s) \in 0..Len(s)
    BY <1>3
  <2> QED
    BY <1>2, <1>5, <2>1, Zenon
<1> QED
  BY <1>1, <1>6, Zenon

-----------------------------------------------------------------------------
\* update(): the indices of a round.
Shares(eps) == [i \in DOMAIN eps |-> H!Turns(eps[i])]

LEMMA SharesType ==
  ASSUME Weights \subseteq Int, NEW eps \in Seq(Endpoint)
  PROVE  /\ Shares(eps) \in Seq(Int) /\ Len(Shares(eps)) = Len(eps)
         /\ \A n \in 1..Len(eps) : Shares(eps)[n] = H!Turns(eps[n]) /\ Shares(eps)[n] >= 1
<1>1. \A n \in 1..Len(eps) : eps[n] \in Endpoint
  OBVIOUS
<1>2. \A n \in 1..Len(eps) : H!Turns(eps[n]) \in Int /\ H!Turns(eps[n]) >= 1
  <2>1. \A e \in Endpoint : e.weight \in Int
    BY Zenon DEF Endpoint
  <2>2. \A e \in Endpoint : H!Turns(e) \in Int /\ H!Turns(e) >= 1
    BY <2>1 DEF H!Turns
  <2> QED
    BY <1>1, <2>2, Zenon
<1>3. Shares(eps) = [i \in 1..Len(eps) |-> H!Turns(eps[i])]
  BY DEF Shares
<1>4. Shares(eps) \in Seq(Int) /\ Len(Shares(eps)) = Len(eps)
  BY <1>2, <1>3
<1> QED
  BY <1>2, <1>3, <1>4, Zenon

LEMMA IndicesExist ==
  ASSUME NEW eps \in Seq(Endpoint)
  PROVE  \E f : /\ H!Indices(eps) = f[Len(eps)] /\ f[0] = <<>>
                /\ \A n \in 1..Len(eps) : f[n] = f[n - 1] \o H!Repeat(n, H!Turns(eps[n]))
<1> DEFINE D(N, g) == [n \in 0..N |-> IF n = 0 THEN <<>> ELSE g[n - 1] \o H!Repeat(n, H!Turns(eps[n]))]
           S == {N \in 0..Len(eps) : \E g : g = D(N, g)}
<1>1. 0 \in S
  <2>1. PICK g : g = [n \in 0..0 |-> <<>>]
    BY Zenon
  <2>2. g = D(0, g)
    BY <2>1
  <2>3. 0 \in 0..Len(eps)
    OBVIOUS
  <2> QED
    BY <2>2, <2>3, Zenon
<1>2. ASSUME NEW n \in 1..Len(eps), n - 1 \in S PROVE n \in S
  <2>1. PICK g : g = D(n - 1, g)
    BY <1>2, Zenon
  <2>2. PICK k : k = [m \in 0..n |-> IF m = n THEN g[n - 1] \o H!Repeat(n, H!Turns(eps[n])) ELSE g[m]]
    BY Zenon
  <2>3. ASSUME NEW m \in 0..n
        PROVE  k[m] = IF m = 0 THEN <<>> ELSE k[m - 1] \o H!Repeat(m, H!Turns(eps[m]))
    <3>1. m # 0 => m - 1 \in 0..(n - 1) /\ m - 1 \in 0..n /\ m - 1 # n
      OBVIOUS
    <3>2. m # 0 => k[m - 1] = g[m - 1]
      BY <2>2, <3>1, Zenon
    <3>3. CASE m = n
      <4>1. m # 0
        BY <3>3
      <4> QED
        BY <2>2, <3>2, <3>3, <4>1, Zenon
    <3>4. CASE m # n
      <4>1. m \in 0..(n - 1)
        BY <3>4
      <4>2. g[m] = IF m = 0 THEN <<>> ELSE g[m - 1] \o H!Repeat(m, H!Turns(eps[m]))
        BY <2>1, <4>1, Zenon
      <4>3. k[m] = g[m]
        BY <2>2, <3>4, Zenon
      <4> QED
        BY <3>2, <4>2, <4>3, Zenon
    <3> QED
      BY <3>3, <3>4, Zenon
  <2>4. k = D(n, k)
    BY <2>2, <2>3, Zenon
  <2>5. n \in 0..Len(eps)
    OBVIOUS
  <2> QED
    BY <2>4, <2>5, Zenon
<1>3. Len(eps) \in S
  <2>1. Len(eps) \in Nat
    OBVIOUS
  <2> HIDE DEF S
  <2>2. \A n \in 0..Len(eps) : n \in S
    BY <1>1, <1>2, <2>1, UpTo, Zenon
  <2> QED
    BY <2>1, <2>2
<1>4. PICK g : g = CHOOSE f : f = D(Len(eps), f)
  BY Zenon
<1>5. g = D(Len(eps), g)
  BY <1>3, <1>4, Zenon
<1>6. H!Indices(eps) = g[Len(eps)]
  BY <1>4, Zenon DEF H!Indices
<1>7. \A n \in 0..Len(eps) : g[n] = IF n = 0 THEN <<>> ELSE g[n - 1] \o H!Repeat(n, H!Turns(eps[n]))
  BY <1>5, Zenon
<1>8. \A n \in 1..Len(eps) : n \in 0..Len(eps) /\ n # 0
  OBVIOUS
<1>9. 0 \in 0..Len(eps)
  OBVIOUS
<1>10. g[0] = <<>> /\ \A n \in 1..Len(eps) : g[n] = g[n - 1] \o H!Repeat(n, H!Turns(eps[n]))
  BY <1>7, <1>8, <1>9, Zenon
<1> QED
  BY <1>6, <1>10, Zenon

\* w holds the indices of the first n endpoints: i at the positions after f[i - 1] up to f[i].
Laid(w, f, n) ==
  /\ w \in Seq(Nat) /\ Len(w) = f[n]
  /\ \A m \in 1..Len(w) : w[m] \in 1..n /\ f[w[m] - 1] < m /\ m <= f[w[m]]

LEMMA IndicesLaid ==
  ASSUME Weights \subseteq Int, NEW eps \in Seq(Endpoint), NEW f, IsSum(f, Shares(eps))
  PROVE  Laid(H!Indices(eps), f, Len(eps))
<1>1. PICK g : /\ H!Indices(eps) = g[Len(eps)] /\ g[0] = <<>>
               /\ \A n \in 1..Len(eps) : g[n] = g[n - 1] \o H!Repeat(n, H!Turns(eps[n]))
  BY IndicesExist, Zenon
<1>2. PICK S : S = {n \in 0..Len(eps) : Laid(g[n], f, n)}
  BY Zenon
<1>3. Len(eps) \in Nat /\ 0 \in S
  <2>1. Len(eps) \in Nat /\ 0 \in 0..Len(eps) /\ f[0] = 0
    BY DEF IsSum
  <2>2. Laid(<<>>, f, 0)
    BY <2>1 DEF Laid
  <2> QED
    BY <1>1, <1>2, <2>1, <2>2, Zenon
<1>4. ASSUME NEW n \in 1..Len(eps), n - 1 \in S PROVE n \in S
  <2>1. PICK w, t, r : w = g[n - 1] /\ t = Shares(eps)[n] /\ r = H!Repeat(n, H!Turns(eps[n]))
    BY Zenon
  <2>2. /\ t \in Nat /\ t >= 1 /\ t = H!Turns(eps[n]) /\ n \in 0..Len(eps) /\ n - 1 \in 0..Len(eps)
        /\ f[n] = f[n - 1] + t /\ f[n - 1] \in Int /\ f[n] \in Int
    <3>1. /\ Shares(eps) \in Seq(Int) /\ Len(Shares(eps)) = Len(eps) /\ Shares(eps)[n] \in Int
          /\ Shares(eps)[n] = H!Turns(eps[n]) /\ Shares(eps)[n] >= 1
      BY SharesType
    <3>2. n \in 0..Len(eps) /\ n - 1 \in 0..Len(eps)
      OBVIOUS
    <3>3. n \in 1..Len(Shares(eps)) /\ n - 1 \in 0..Len(Shares(eps)) /\ n \in 0..Len(Shares(eps))
      BY <3>1, <3>2, Zenon
    <3>4. f[n] = f[n - 1] + Shares(eps)[n] /\ f[n - 1] \in Int /\ f[n] \in Int
      BY <3>3, Zenon DEF IsSum
    <3> QED
      BY <2>1, <3>1, <3>2, <3>4, SMTT(30)
  <2>3. Laid(w, f, n - 1) /\ g[n] = w \o r
    BY <1>1, <1>2, <1>4, <2>1, Zenon
  <2>4. r \in Seq(Nat) /\ Len(r) = t /\ \A j \in 1..t : r[j] = n
    <3>1. r = [j \in 1..t |-> n] /\ n \in Nat
      BY <2>1, <2>2 DEF H!Repeat
    <3> QED
      BY <2>2, <3>1, SMTT(30)
  <2>5. PICK v, d : v = w \o r /\ d = Len(w)
    BY Zenon
  <2>6. /\ v \in Seq(Nat) /\ Len(v) = d + t /\ d \in Nat /\ d = f[n - 1]
        /\ (\A j \in 1..d : v[j] = w[j]) /\ (\A j \in 1..t : v[d + j] = r[j])
    <3>1. w \in Seq(Nat) /\ r \in Seq(Nat) /\ d = f[n - 1] /\ d \in Nat
      BY <2>3, <2>4, <2>5, SMTT(30) DEF Laid
    <3>2. /\ w \o r \in Seq(Nat) /\ Len(w \o r) = Len(w) + Len(r)
          /\ \A j \in 1..Len(w) : (w \o r)[j] = w[j]
          /\ \A j \in 1..Len(r) : (w \o r)[Len(w) + j] = r[j]
      BY <3>1, Joined, SMTT(30)
    <3> QED
      BY <2>4, <2>5, <3>1, <3>2, Zenon
  <2>7. ASSUME NEW m \in 1..Len(v) PROVE v[m] \in 1..n /\ f[v[m] - 1] < m /\ m <= f[v[m]]
    <3>1. CASE m <= d
      <4>1. m \in 1..d /\ v[m] = w[m]
        BY <2>6, <3>1, SMTT(30)
      <4>2. w[m] \in 1..(n - 1) /\ f[w[m] - 1] < m /\ m <= f[w[m]]
        BY <2>3, <2>5, <4>1, Zenon DEF Laid
      <4> QED
        BY <4>1, <4>2, SMTT(30)
    <3>2. CASE m > d
      <4>1. m - d \in 1..t /\ d + (m - d) = m
        <5>1. m \in 1..(d + t) /\ d \in Nat /\ t \in Nat
          BY <2>2, <2>6, <2>7, Zenon
        <5> QED
          BY <3>2, <5>1, SMTT(30)
      <4>2. v[m] = n
        BY <2>4, <2>6, <4>1, ZenonT(30)
      <4>3. f[n - 1] < m /\ m <= f[n]
        BY <2>2, <2>6, <3>2, SMTT(30)
      <4> QED
        BY <4>2, <4>3
    <3> QED
      BY <2>6, <3>1, <3>2, SMTT(30)
  <2>8. Laid(v, f, n)
    BY <2>2, <2>6, <2>7, Zenon DEF Laid
  <2>9. g[n] = v /\ n \in 0..Len(eps)
    BY <2>2, <2>3, <2>5, Zenon
  <2> QED
    BY <1>2, <2>8, <2>9, Zenon
<1>5. \A n \in 0..Len(eps) : n \in S
  BY <1>3, <1>4, UpTo, Zenon
<1> QED
  BY <1>1, <1>2, <1>3, <1>5

-----------------------------------------------------------------------------
\* The turns that the first r positions of a round give to the endpoint at the positions
\* after a up to b.
Portion(r, a, b) == IF r <= a THEN 0 ELSE IF r >= b THEN b - a ELSE r - a
\* What endpoint i has had after n selections in rounds of d.
Had(p, n, d, f, i) == p[i] = (n \div d) * (f[i] - f[i - 1]) + Portion(n % d, f[i - 1], f[i])
Positive(sh) == \A n \in 1..Len(sh) : sh[n] \in Int /\ sh[n] >= 1

LEMMA PortionStep ==
  ASSUME NEW r \in Nat, NEW a \in Int, NEW b \in Int, a <= b
  PROVE  /\ Portion(r, a, b) \in Int
         /\ a <= r /\ r < b => Portion(r + 1, a, b) = Portion(r, a, b) + 1
         /\ b <= r \/ r + 1 <= a => Portion(r + 1, a, b) = Portion(r, a, b)
BY DEF Portion

LEMMA SumRises ==
  ASSUME NEW sh \in Seq(Int), Positive(sh), NEW f, IsSum(f, sh), NEW i \in 0..Len(sh), NEW k \in 0..Len(sh)
  PROVE  f[i] \in Int /\ f[k] \in Int /\ (i <= k => f[i] <= f[k])
<1>1. \A n \in 1..Len(sh) : sh[n] >= 0
  BY DEF Positive
<1>2. \A n \in 0..Len(sh) : i <= n => f[i] <= f[n]
  BY <1>1, SumGrows, Zenon
<1> QED
  BY <1>2, Zenon DEF IsSum

LEMMA OneMore ==
  ASSUME NEW sh \in Seq(Int), Positive(sh), NEW f, IsSum(f, sh), NEW w, Laid(w, f, Len(sh)),
         NEW r \in Nat, r < Len(w), NEW i \in 1..Len(sh)
  PROVE  /\ Portion(r, f[i - 1], f[i]) \in Int
         /\ Portion(r + 1, f[i - 1], f[i])
              = IF w[r + 1] = i THEN Portion(r, f[i - 1], f[i]) + 1 ELSE Portion(r, f[i - 1], f[i])
<1>1. PICK k, N, a, b, c, e : k = w[r + 1] /\ N = Len(sh) /\ a = f[i - 1] /\ b = f[i] /\ c = f[k - 1] /\ e = f[k]
  BY Zenon
<1>2. N \in Nat /\ i \in 1..N /\ i - 1 \in 0..N /\ i \in 0..N
  BY <1>1
<1>3. k \in 1..N /\ c < r + 1 /\ r + 1 <= e
  <2>1. w \in Seq(Nat)
    BY Zenon DEF Laid
  <2>2. r + 1 \in 1..Len(w)
    BY <2>1
  <2> QED
    BY <1>1, <2>2, Zenon DEF Laid
<1>4. k - 1 \in 0..N /\ k \in 0..N
  BY <1>2, <1>3
<1>5. a \in Int /\ b \in Int /\ c \in Int /\ e \in Int /\ a <= b
  <2>1. i - 1 <= i
    BY <1>2
  <2> QED
    BY <1>1, <1>2, <1>4, <2>1, SumRises, Zenon
<1>6. /\ i < k => b <= c
      /\ k < i => e <= a
  <2>1. (i < k => i <= k - 1) /\ (k < i => k <= i - 1)
    BY <1>2, <1>3
  <2> QED
    BY <1>1, <1>2, <1>4, <2>1, SumRises, Zenon
<1>7. i = k => a = c /\ b = e
  BY <1>1, Zenon
<1>8. /\ i = k => a <= r /\ r < b
      /\ i # k => b <= r \/ r + 1 <= a
  BY <1>2, <1>3, <1>5, <1>6, <1>7, SMTT(30)
<1>9. /\ Portion(r, a, b) \in Int
      /\ Portion(r + 1, a, b) = IF k = i THEN Portion(r, a, b) + 1 ELSE Portion(r, a, b)
  BY <1>5, <1>8, PortionStep, ZenonT(30)
<1> QED
  BY <1>1, <1>9, Zenon

LEMMA RoundStep ==
  ASSUME NEW sh \in Seq(Int), Positive(sh), NEW f, IsSum(f, sh), NEW w, Laid(w, f, Len(sh)),
         NEW d \in Nat \ {0}, d = Len(w), NEW n \in Nat, NEW i \in 1..Len(sh),
         NEW p, NEW o, Had(p, n, d, f, i),
         o[i] = IF w[(n % d) + 1] = i THEN p[i] + 1 ELSE p[i]
  PROVE  Had(o, n + 1, d, f, i)
<1>1. PICK r, q, a, b, N : r = n % d /\ q = n \div d /\ a = f[i - 1] /\ b = f[i] /\ N = Len(sh)
  BY Zenon
<1>2. /\ r \in 0..(d - 1) /\ q \in Nat
      /\ r + 1 < d => (n + 1) % d = r + 1 /\ (n + 1) \div d = q
      /\ r + 1 = d => (n + 1) % d = 0 /\ (n + 1) \div d = q + 1
  BY <1>1, DivisionStep, Zenon
<1>3. /\ Portion(r, a, b) \in Int
      /\ Portion(r + 1, a, b) = IF w[r + 1] = i THEN Portion(r, a, b) + 1 ELSE Portion(r, a, b)
  <2>1. r \in Nat /\ r < Len(w)
    BY <1>2, SMTT(30)
  <2>2. /\ Portion(r, f[i - 1], f[i]) \in Int
        /\ Portion(r + 1, f[i - 1], f[i])
             = IF w[r + 1] = i THEN Portion(r, f[i - 1], f[i]) + 1 ELSE Portion(r, f[i - 1], f[i])
    BY <2>1, OneMore, SMTT(20)
  <2> QED
    BY <1>1, <2>2, Zenon
<1>4. a \in Int /\ b \in Int /\ 0 <= a /\ b <= d /\ a < b
  <2>1. N \in Nat /\ i \in 1..N
    BY <1>1
  <2>2. i \in 0..N /\ i - 1 \in 0..N /\ 0 \in 0..N /\ N \in 0..N /\ 0 <= i - 1 /\ i <= N
    BY <2>1, SMTT(30)
  <2>3. f[0] = 0 /\ f[i] = f[i - 1] + sh[i]
    BY Zenon DEF IsSum
  <2>4. sh[i] \in Int /\ sh[i] >= 1
    BY Zenon DEF Positive
  <2>5. a \in Int /\ b \in Int /\ f[0] <= a /\ b <= f[N]
    BY <1>1, <2>2, SumRises, ZenonT(30)
  <2>6. f[N] = d
    BY <1>1, Zenon DEF Laid
  <2>7. PICK e : e = sh[i]
    BY Zenon
  <2>8. e \in Int /\ e >= 1 /\ b = a + e /\ 0 <= a /\ b <= d /\ a \in Int /\ b \in Int
    BY <1>1, <2>3, <2>4, <2>5, <2>6, <2>7, ZenonT(30)
  <2> QED
    BY <2>8
<1>5. p[i] = q * (b - a) + Portion(r, a, b)
  BY <1>1, Zenon DEF Had
<1>6. PICK t, m : t = b - a /\ m = q * (b - a)
  BY Zenon
<1>7. t \in Int /\ m \in Int /\ m = q * t
  BY <1>2, <1>4, <1>6, SMTT(30)
<1>8. o[i] = m + Portion(r + 1, a, b)
  <2>1. o[i] = IF w[r + 1] = i THEN p[i] + 1 ELSE p[i]
    BY <1>1, Zenon
  <2>2. p[i] = m + Portion(r, a, b)
    BY <1>5, <1>6, Zenon
  <2> QED
    BY <1>3, <1>7, <2>1, <2>2, SMTT(20)
<1>9. CASE r + 1 < d
  BY <1>1, <1>2, <1>6, <1>8, <1>9, Zenon DEF Had
<1>10. CASE r + 1 = d
  <2>1. Portion(d, a, b) = t /\ Portion(0, a, b) = 0
    BY <1>4, <1>6, SMTT(30) DEF Portion
  <2>2. m + t = (q + 1) * t + 0
    BY <1>2, <1>7, SMTT(30)
  <2>3. o[i] = (q + 1) * (b - a) + Portion(0, a, b)
    BY <1>6, <1>8, <1>10, <2>1, <2>2, Zenon
  <2> QED
    BY <1>1, <1>2, <1>10, <2>3, Zenon DEF Had
<1> QED
  BY <1>2, <1>9, <1>10

LEMMA SmallRemainder == ASSUME NEW m \in Nat, NEW c \in Nat \ {0}, m < c PROVE m % c = m
BY SMTT(30)

\* Nothing was selected yet.
LEMMA RoundZero ==
  ASSUME NEW sh \in Seq(Int), Positive(sh), NEW f, IsSum(f, sh), NEW w, Laid(w, f, Len(sh)),
         NEW i \in 1..Len(sh), NEW p, p[i] = 0
  PROVE  Had(p, 0, Len(w), f, i)
<1>1. PICK a, b, c, d, N : a = f[i - 1] /\ b = f[i] /\ c = f[0] /\ d = f[Len(sh)] /\ N = Len(sh)
  BY Zenon
<1>2. N \in Nat /\ i \in 1..N
  BY <1>1
<1>3. 0 \in 0..N /\ N \in 0..N /\ i \in 0..N /\ i - 1 \in 0..N /\ 0 <= i - 1 /\ i <= N
  BY <1>2, SMTT(30)
<1>4. c <= a /\ b <= d /\ a \in Int /\ b \in Int /\ d \in Int
  BY <1>1, <1>3, SumRises, Zenon
<1>5. c = 0 /\ b = a + sh[i] /\ sh[i] \in Int /\ sh[i] >= 1
  BY <1>1, <1>2, Zenon DEF IsSum, Positive
<1>6. d \in Nat \ {0} /\ 0 <= a /\ Len(w) = d
  BY <1>1, <1>4, <1>5, SMTT(20) DEF Laid
<1>7. 0 \div d = 0 /\ 0 % d = 0
  BY <1>6
<1>8. Portion(0, a, b) = 0
  BY <1>6, Zenon DEF Portion
<1>9. p[i] = (0 \div d) * (b - a) + Portion(0 % d, a, b)
  BY <1>4, <1>7, <1>8, SMTT(30)
<1> QED
  BY <1>1, <1>6, <1>9, Zenon DEF Had

-----------------------------------------------------------------------------
LbTypes ==
  /\ services_ \in Seq(Endpoint) /\ Len(services_) <= MaxEndpoints
  /\ endpoints_ \in Seq(Endpoint) /\ weighted_indices_ = H!Indices(endpoints_)
  /\ current_ \in 0..(CounterSize - 1) /\ DOMAIN idx = Selectors
  /\ ~torn => \A t \in Selectors : idx[t] # NoEndpoint => idx[t] \in 1..Len(endpoints_)
  /\ picks \in Seq(Nat) /\ Len(picks) = Len(endpoints_) /\ gone \subseteq Hosts
LbGone ==
  /\ \A i \in 1..Len(services_) : services_[i].host \notin gone
  /\ fresh => \A i \in 1..Len(endpoints_) : endpoints_[i].host \notin gone
\* While the counter has not wrapped, it is the number of selections, and each endpoint has
\* had its turns in the full rounds and its portion of the last.
Rounds(f) ==
  LET n == H!Total(picks) IN
  n <= CounterSize => /\ n < CounterSize => current_ = n
                      /\ \A i \in 1..Len(endpoints_) : Had(picks, n, Len(weighted_indices_), f, i)
LbRounds == kind # "Random" => \A f : IsSum(f, Shares(endpoints_)) => Rounds(f)
LbInv == LbTypes /\ LbGone /\ LbRounds

LEMMA SharesPositive ==
  ASSUME Weights \subseteq Int, NEW eps \in Seq(Endpoint)
  PROVE  Shares(eps) \in Seq(Int) /\ Len(Shares(eps)) = Len(eps) /\ Positive(Shares(eps))
<1>1. /\ Shares(eps) \in Seq(Int) /\ Len(Shares(eps)) = Len(eps)
      /\ \A n \in 1..Len(eps) : Shares(eps)[n] >= 1
  BY SharesType, Zenon
<1>2. \A n \in 1..Len(eps) : Shares(eps)[n] \in Int
  BY <1>1
<1> QED
  BY <1>1, <1>2, Zenon DEF Positive

\* The total of the selections is a number.
LEMMA PicksTotal ==
  ASSUME NEW p \in Seq(Nat)
  PROVE  p \in Seq(Int) /\ H!Total(p) \in Nat
<1>1. p \in Seq(Int) /\ \A n \in 1..Len(p) : p[n] >= 0
  OBVIOUS
<1> QED
  BY <1>1, SumNat, Zenon

\* The derived values do not change when the endpoints and the kind do not.
LEMMA SameIndices ==
  ASSUME UNCHANGED <<kind, endpoints_>>
  PROVE  H!Indices(endpoints_)' = H!Indices(endpoints_) /\ Shares(endpoints_)' = Shares(endpoints_)
BY ZenonT(30) DEF H!Indices, H!Turns, Shares

\* ... and are those of the services after an update.
LEMMA NewIndices ==
  ASSUME endpoints_' = services_, kind' = kind
  PROVE  H!Indices(endpoints_)' = H!Indices(services_) /\ Shares(endpoints_)' = Shares(services_)
BY ZenonT(30) DEF H!Indices, H!Turns, Shares

LEMMA RegisterStep ==
  ASSUME H!BalancerAssumption, LbInv, NEW h \in Hosts, NEW w \in Weights, H!register_service(h, w)
  PROVE  LbInv'
<1>1. /\ services_ \in Seq(Endpoint) /\ Len(services_) < MaxEndpoints /\ MaxEndpoints \in Nat
      /\ gone' = gone \ {h} /\ UNCHANGED <<kind, endpoints_, weighted_indices_, current_, idx, picks, fresh, torn>>
  BY Zenon DEF LbInv, LbTypes, H!register_service, H!BalancerAssumption
<1>2. PICK e : e = [host |-> h, weight |-> w]
  BY Zenon
<1>3. e \in Endpoint /\ e.host = h /\ services_' = Append(services_, e)
  BY <1>2, Zenon DEF H!register_service, Endpoint
<1>4. services_' \in Seq(Endpoint) /\ Len(services_') = Len(services_) + 1
  BY <1>1, <1>3, SMTT(30)
<1>5. \A i \in 1..Len(services_') : services_'[i] = e \/ (i \in 1..Len(services_) /\ services_'[i] = services_[i])
  BY <1>1, <1>3, SMTT(30)
<1>6. Len(services_') <= MaxEndpoints
  BY <1>1, <1>4, SMTT(30)
<1>7. weighted_indices_' = H!Indices(endpoints_)'
  BY <1>1, SameIndices, Zenon DEF LbInv, LbTypes
<1>8. LbTypes'
  BY <1>1, <1>4, <1>6, <1>7, Zenon DEF LbInv, LbTypes
<1>9. LbGone'
  BY <1>1, <1>3, <1>5, ZenonT(30) DEF LbInv, LbGone
<1>10. LbRounds'
  BY <1>1, SameIndices, Zenon DEF LbInv, LbRounds, Rounds
<1> QED
  BY <1>8, <1>9, <1>10, Zenon DEF LbInv

LEMMA DeregisterStep ==
  ASSUME H!BalancerAssumption, LbInv, NEW h \in Hosts, H!deregister_service(h)
  PROVE  LbInv'
<1>1. /\ services_ \in Seq(Endpoint) /\ Len(services_) <= MaxEndpoints /\ MaxEndpoints \in Nat
      /\ gone' = gone \cup {h} /\ fresh' = FALSE /\ services_' = H!Without(services_, h)
      /\ UNCHANGED <<kind, endpoints_, weighted_indices_, current_, idx, picks, torn>>
  BY Zenon DEF LbInv, LbTypes, H!deregister_service, H!BalancerAssumption
<1>2. /\ services_' \in Seq(Endpoint) /\ Len(services_') <= Len(services_)
      /\ \A j \in 1..Len(services_') :
           services_'[j].host # h /\ \E k \in 1..Len(services_) : services_'[j] = services_[k]
  <2>1. LeftOf(services_, Len(services_), h, services_')
    BY <1>1, WithoutHost, Zenon
  <2> QED
    BY <2>1, Zenon DEF LeftOf
<1>3. Len(services_') <= MaxEndpoints
  BY <1>1, <1>2, SMTT(30)
<1>4. weighted_indices_' = H!Indices(endpoints_)'
  BY <1>1, SameIndices, Zenon DEF LbInv, LbTypes
<1>5. LbTypes'
  BY <1>1, <1>2, <1>3, <1>4, ZenonT(30) DEF LbInv, LbTypes
<1>6. LbGone'
  <2>1. \A k \in 1..Len(services_) : services_[k].host \notin gone
    BY Zenon DEF LbInv, LbGone
  <2>2. ASSUME NEW j \in 1..Len(services_') PROVE services_'[j].host \notin gone'
    <3>1. PICK k \in 1..Len(services_) : services_'[j] = services_[k]
      BY <1>2, Zenon
    <3>2. services_'[j].host # h /\ services_'[j].host \notin gone
      BY <1>2, <2>1, <3>1, ZenonT(30)
    <3> QED
      BY <1>1, <3>2, Zenon
  <2> QED
    BY <1>1, <2>2, Zenon DEF LbGone
<1>7. LbRounds'
  BY <1>1, SameIndices, Zenon DEF LbInv, LbRounds, Rounds
<1> QED
  BY <1>5, <1>6, <1>7, Zenon DEF LbInv

LEMMA ReturnStep ==
  ASSUME LbInv, NEW t \in Selectors, H!SelectReturns(t)
  PROVE  LbInv'
<1>1. /\ idx' = [idx EXCEPT ![t] = NoEndpoint]
      /\ UNCHANGED <<services_, kind, endpoints_, weighted_indices_, current_, picks, gone, fresh, torn>>
  BY Zenon DEF H!SelectReturns
<1>2. DOMAIN idx' = Selectors /\ \A u \in Selectors : idx'[u] = NoEndpoint \/ idx'[u] = idx[u]
  BY <1>1, Zenon DEF LbInv, LbTypes
<1>3. weighted_indices_' = H!Indices(endpoints_)'
  BY <1>1, SameIndices, Zenon DEF LbInv, LbTypes
<1>4. LbTypes'
  BY <1>1, <1>2, <1>3, Zenon DEF LbInv, LbTypes
<1>5. LbGone'
  BY <1>1, ZenonT(30) DEF LbInv, LbGone
<1>6. LbRounds'
  BY <1>1, SameIndices, Zenon DEF LbInv, LbRounds, Rounds
<1> QED
  BY <1>4, <1>5, <1>6, Zenon DEF LbInv

LEMMA UpdateStep ==
  ASSUME H!BalancerAssumption, LbInv, H!update
  PROVE  LbInv'
<1>1. /\ services_ \in Seq(Endpoint) /\ endpoints_' = services_ /\ kind' = kind
      /\ weighted_indices_' = H!Indices(services_) /\ current_' = 0 /\ CounterSize \in Nat \ {0}
      /\ picks' = [i \in 1..Len(services_) |-> 0] /\ fresh' = TRUE /\ UNCHANGED <<services_, kind, idx, gone>>
      /\ torn' = (\E t \in Selectors : idx[t] # NoEndpoint) /\ Weights \subseteq Int
  BY SMTT(30) DEF LbInv, LbTypes, H!update, H!BalancerAssumption
<1>2. H!Indices(endpoints_)' = H!Indices(services_)
  BY <1>1, NewIndices, Zenon
<1>3. picks' \in Seq(Nat) /\ Len(picks') = Len(services_) /\ \A n \in 1..Len(picks') : picks'[n] = 0
  BY <1>1, SMTT(30)
<1>4. ~torn' => \A t \in Selectors : idx'[t] = NoEndpoint
  BY <1>1, Zenon
<1>5. LbTypes'
  <2>1. current_' \in 0..(CounterSize - 1)
    <3>1. \A n \in Nat \ {0} : 0 \in 0..(n - 1)
      OBVIOUS
    <3> QED
      BY <1>1, <3>1, Zenon
  <2> QED
    BY <1>1, <1>2, <1>3, <1>4, <2>1, Zenon DEF LbInv, LbTypes
<1>6. LbGone'
  BY <1>1, Zenon DEF LbInv, LbGone
<1>7. LbRounds'
  <2>1. SUFFICES ASSUME NEW f, IsSum(f, Shares(endpoints_)') PROVE Rounds(f)'
    BY Zenon DEF LbRounds
  <2>2. PICK sh, w : sh = Shares(services_) /\ w = H!Indices(services_)
    BY Zenon
  <2>3. sh \in Seq(Int) /\ Len(sh) = Len(services_) /\ Positive(sh)
    BY <1>1, <2>2, SharesPositive, Zenon
  <2>4. IsSum(f, sh) /\ Laid(w, f, Len(sh))
    <3>1. Shares(endpoints_)' = Shares(services_)
      BY <1>1, NewIndices, Zenon
    <3>2. IsSum(f, Shares(services_))
      BY <2>1, <3>1, Zenon
    <3>3. Laid(H!Indices(services_), f, Len(services_))
      BY <1>1, <3>2, IndicesLaid, Zenon
    <3> QED
      BY <2>2, <2>3, <3>2, <3>3, Zenon
  <2>5. H!Total(picks') = 0
    <3>1. picks' \in Seq(Int)
      BY <1>3
    <3> QED
      BY <1>3, <3>1, SumZero, ZenonT(30)
  <2>6. \A i \in 1..Len(sh) : Had(picks', 0, Len(w), f, i)
    <3> TAKE i \in 1..Len(sh)
    <3>1. picks'[i] = 0
      BY <1>1, <1>3, <2>3, Zenon
    <3> QED
      BY <2>3, <2>4, <3>1, RoundZero, ZenonT(30)
  <2> QED
    BY <1>1, <2>2, <2>3, <2>5, <2>6, Zenon DEF Rounds
<1> QED
  BY <1>5, <1>6, <1>7, Zenon DEF LbInv

LEMMA SelectStep ==
  ASSUME H!BalancerAssumption, LbInv, NEW t \in Selectors, H!SelectIndex(t)
  PROVE  LbInv'
<1>1. PICK w, sh, N, d : w = weighted_indices_ /\ sh = Shares(endpoints_) /\ N = Len(endpoints_) /\ d = Len(w)
  BY Zenon
<1>2. PICK n \in DOMAIN w :
        /\ kind # "Random" => n = (current_ % d) + 1
        /\ idx' = [idx EXCEPT ![t] = w[n]] /\ picks' = [picks EXCEPT ![w[n]] = @ + 1]
  BY <1>1, ZenonT(30) DEF H!SelectIndex
<1>3. /\ UNCHANGED <<services_, kind, endpoints_, weighted_indices_, gone, fresh, torn>>
      /\ current_' = IF kind = "Random" THEN current_ ELSE (current_ + 1) % CounterSize
      /\ CounterSize \in Nat \ {0} /\ Weights \subseteq Int /\ current_ \in 0..(CounterSize - 1)
      /\ endpoints_ \in Seq(Endpoint) /\ w = H!Indices(endpoints_) /\ picks \in Seq(Nat) /\ Len(picks) = N
  BY <1>1, Zenon DEF H!SelectIndex, H!Advanced, LbInv, LbTypes, H!BalancerAssumption
<1>4. sh \in Seq(Int) /\ Len(sh) = N /\ Positive(sh)
  BY <1>1, <1>3, SharesPositive, ZenonT(30)
<1>5. ASSUME NEW f, IsSum(f, sh) PROVE Laid(w, f, N)
  BY <1>1, <1>3, <1>5, IndicesLaid, ZenonT(30)
<1>6. w \in Seq(Nat) /\ w[n] \in 1..N /\ N \in Nat /\ d \in Nat \ {0}
  <2>1. PICK f : IsSum(f, sh)
    BY <1>4, SumExists, Zenon
  <2>2. Laid(w, f, N)
    BY <1>5, <2>1, Zenon
  <2>3. w \in Seq(Nat)
    BY <2>2, Zenon DEF Laid
  <2>4. n \in 1..Len(w)
    BY <2>3
  <2> QED
    BY <1>1, <1>3, <2>2, <2>3, <2>4, SMTT(30) DEF Laid
<1>7. PICK k, o : k = w[n] /\ o = picks'
  BY Zenon
<1>8. /\ o \in Seq(Nat) /\ Len(o) = N
      /\ \A m \in 1..N : o[m] = IF m = k THEN picks[m] + 1 ELSE picks[m]
  BY <1>2, <1>3, <1>6, <1>7, SMTT(20)
<1>9. H!Total(o) = H!Total(picks) + 1 /\ H!Total(picks) \in Nat
  <2>1. picks \in Seq(Int) /\ o \in Seq(Int) /\ H!Total(picks) \in Nat
    BY <1>3, <1>8, PicksTotal, ZenonT(30)
  <2>2. k \in 1..Len(picks) /\ Len(o) = Len(picks)
        /\ \A m \in 1..Len(picks) : o[m] = IF m = k THEN picks[m] + 1 ELSE picks[m]
    BY <1>3, <1>6, <1>7, <1>8, ZenonT(30)
  <2> QED
    BY <2>1, <2>2, SumPlus, ZenonT(30)
<1>10. current_' \in 0..(CounterSize - 1)
  BY <1>3
<1>11. LbTypes'
  <2>1. H!Indices(endpoints_)' = H!Indices(endpoints_)
    BY <1>3, SameIndices, Zenon
  <2>2. DOMAIN idx' = Selectors /\ \A u \in Selectors : idx'[u] = k \/ idx'[u] = idx[u]
    BY <1>2, <1>7, Zenon DEF LbInv, LbTypes
  <2> QED
    BY <1>1, <1>3, <1>6, <1>7, <1>8, <1>10, <2>1, <2>2, Zenon DEF LbInv, LbTypes
<1>12. LbGone'
  BY <1>3, Zenon DEF LbInv, LbGone
<1>13. LbRounds'
  <2>1. SUFFICES ASSUME kind # "Random", NEW f, IsSum(f, Shares(endpoints_)') PROVE Rounds(f)'
    BY <1>3, Zenon DEF LbRounds
  <2>2. IsSum(f, sh)
    BY <1>1, <1>3, <2>1, SameIndices, ZenonT(30)
  <2>3. Rounds(f) /\ Laid(w, f, Len(sh))
    BY <1>1, <1>4, <1>5, <2>1, <2>2, ZenonT(30) DEF LbInv, LbRounds
  <2>4. PICK T : T = H!Total(picks)
    BY ZenonT(30)
  <2>5. SUFFICES ASSUME T + 1 <= CounterSize
                 PROVE  /\ T + 1 < CounterSize => current_' = T + 1
                        /\ \A i \in 1..N : Had(o, T + 1, d, f, i)
    BY <1>1, <1>3, <1>7, <1>9, <2>4, ZenonT(30) DEF Rounds
  <2>6. T \in Nat /\ T < CounterSize /\ T <= CounterSize
    BY <1>3, <1>9, <2>4, <2>5, SMTT(30)
  <2>7. current_ = T /\ \A i \in 1..N : Had(picks, T, d, f, i)
    BY <1>1, <2>3, <2>4, <2>6, ZenonT(30) DEF Rounds
  <2>8. T + 1 < CounterSize => current_' = T + 1
    <3>1. current_' = (T + 1) % CounterSize
      BY <1>3, <2>1, <2>7, ZenonT(30)
    <3>2. T + 1 < CounterSize => (T + 1) % CounterSize = T + 1
      <4>1. T + 1 \in Nat
        BY <2>6, SMTT(30)
      <4> QED
        BY <1>3, <4>1, SmallRemainder, ZenonT(30)
    <3> QED
      BY <3>1, <3>2, Zenon
  <2>9. n = (T % d) + 1
    BY <1>2, <2>1, <2>7, ZenonT(30)
  <2>10. ASSUME NEW i \in 1..N PROVE Had(o, T + 1, d, f, i)
    <3>1. o[i] = IF w[(T % d) + 1] = i THEN picks[i] + 1 ELSE picks[i]
      BY <1>7, <1>8, <2>9, ZenonT(30)
    <3>2. i \in 1..Len(sh) /\ Had(picks, T, d, f, i)
      BY <1>4, <2>7, Zenon
    <3> QED
      BY <1>1, <1>4, <1>6, <2>2, <2>3, <2>6, <3>1, <3>2, RoundStep, Zenon
  <2> QED
    BY <2>8, <2>10, Zenon
<1> QED
  BY <1>11, <1>12, <1>13, Zenon DEF LbInv

LEMMA LbInitially ==
  ASSUME H!BalancerAssumption, H!Init
  PROVE  LbInv
<1>1. /\ services_ = <<>> /\ endpoints_ = <<>> /\ weighted_indices_ = <<>> /\ current_ = 0 /\ picks = <<>>
      /\ gone = {} /\ idx = [t \in Selectors |-> NoEndpoint] /\ CounterSize \in Nat \ {0} /\ MaxEndpoints \in Nat
  BY Zenon DEF H!Init, H!BalancerAssumption
<1>2. <<>> \in Seq(Endpoint) /\ <<>> \in Seq(Nat) /\ <<>> \in Seq(Int) /\ Len(<<>>) = 0
  OBVIOUS
<1>3. H!Indices(<<>>) = <<>>
  BY <1>2, IndicesExist, Zenon
<1>4. current_ \in 0..(CounterSize - 1)
  BY <1>1, SMTT(30)
<1>5. LbTypes
  BY <1>1, <1>2, <1>3, <1>4, SMTT(30) DEF LbTypes
<1>6. H!Total(picks) = 0
  <2>1. picks \in Seq(Int) /\ \A n \in 1..Len(picks) : picks[n] = 0
    BY <1>1, <1>2, SMTT(30)
  <2> QED
    BY <2>1, SumZero, Zenon
<1>7. LbGone
  BY <1>1, Zenon DEF LbGone
<1>8. LbRounds
  BY <1>1, <1>2, <1>6, SMTT(30) DEF LbRounds, Rounds
<1> QED
  BY <1>5, <1>7, <1>8, Zenon DEF LbInv

LEMMA LbPreserved ==
  ASSUME H!BalancerAssumption, LbInv, [H!Next]_H!vars
  PROVE  LbInv'
<1>1. CASE H!update
  BY <1>1, UpdateStep, Zenon
<1>2. ASSUME NEW t \in Selectors, H!SelectIndex(t) PROVE LbInv'
  BY <1>2, SelectStep, Zenon
<1>3. ASSUME NEW t \in Selectors, H!SelectReturns(t) PROVE LbInv'
  BY <1>3, ReturnStep, ZenonT(30)
<1>4. ASSUME NEW h \in Hosts, H!deregister_service(h) PROVE LbInv'
  BY <1>4, DeregisterStep, Zenon
<1>5. ASSUME NEW h \in Hosts, NEW w \in Weights, H!register_service(h, w) PROVE LbInv'
  BY <1>5, RegisterStep, Zenon
<1>6. CASE UNCHANGED H!vars
  <2>1. UNCHANGED <<services_, kind, endpoints_, weighted_indices_, current_, idx, picks, gone, fresh, torn>>
    BY <1>6, Zenon DEF H!vars
  <2>2. LbTypes'
    BY <2>1, SameIndices, Zenon DEF LbInv, LbTypes
  <2>3. LbGone'
    BY <2>1, Zenon DEF LbInv, LbGone
  <2>4. LbRounds'
    BY <2>1, SameIndices, Zenon DEF LbInv, LbRounds, Rounds
  <2> QED
    BY <2>2, <2>3, <2>4, Zenon DEF LbInv
<1> QED
  BY <1>1, <1>2, <1>3, <1>4, <1>5, <1>6, ZenonT(30) DEF H!Next

\* What a portion of a round is at least and at most.
LEMMA PortionBounds ==
  ASSUME NEW r \in Nat, NEW a \in Int, NEW b \in Int, a <= b
  PROVE  Portion(r, a, b) \in Int /\ 0 <= Portion(r, a, b) /\ Portion(r, a, b) <= b - a
BY SMTT(30) DEF Portion

LEMMA LbBalanced ==
  ASSUME H!BalancerAssumption, LbInv
  PROVE  H!Balanced
<1>1. PICK sh, N, T, p : sh = Shares(endpoints_) /\ N = Len(endpoints_) /\ T = H!Total(picks) /\ p = picks
  BY Zenon
<1>2. /\ Weights \subseteq Int /\ endpoints_ \in Seq(Endpoint) /\ picks \in Seq(Nat) /\ Len(picks) = N
      /\ weighted_indices_ = H!Indices(endpoints_)
  BY <1>1, Zenon DEF LbInv, LbTypes, H!BalancerAssumption
<1>3. sh \in Seq(Int) /\ Len(sh) = N /\ Positive(sh) /\ N \in Nat
  BY <1>1, <1>2, SharesPositive, SMTT(30)
<1>4. T \in Nat
  BY <1>1, <1>2, PicksTotal, ZenonT(30)
<1>5. PICK f : IsSum(f, sh) /\ H!Total(sh) = f[N]
  BY <1>3, SumExists, Zenon
<1>6. PICK share : share = [i \in DOMAIN endpoints_ |->
                              IF kind = "Weighted" /\ endpoints_[i].weight > 0 THEN endpoints_[i].weight ELSE 1]
  BY Zenon
<1>7. share = sh
  <2>1. DOMAIN endpoints_ = 1..N /\ \A i \in 1..N : endpoints_[i].weight \in Int
    <3>1. \A e \in Endpoint : e.weight \in Int
      BY <1>2, Zenon DEF Endpoint
    <3>2. DOMAIN endpoints_ = 1..N /\ \A i \in 1..N : endpoints_[i] \in Endpoint
      BY <1>1, <1>2, SMTT(30)
    <3> QED
      BY <3>1, <3>2, Zenon
  <2>2. sh = [i \in 1..N |-> IF kind = "Weighted" /\ endpoints_[i].weight > 1 THEN endpoints_[i].weight ELSE 1]
    BY <1>1, <2>1, Zenon DEF Shares, H!Turns
  <2>3. \A i \in 1..N : share[i] = sh[i]
    BY <1>6, <2>1, <2>2, SMTT(30)
  <2> QED
    BY <1>6, <2>1, <2>2, <2>3, ZenonT(30)
<1>8. Len(weighted_indices_) = H!Total(share)
  BY <1>1, <1>2, <1>5, <1>7, IndicesLaid, ZenonT(30) DEF Laid
<1>9. SUFFICES ASSUME kind # "Random", T <= CounterSize, NEW i \in 1..N
               PROVE  picks[i] \in ((T \div H!Total(share)) * share[i])..(((T \div H!Total(share)) + 1) * share[i])
  <2>1. DOMAIN picks = 1..N
    BY <1>2
  <2> QED
    BY <1>1, <1>6, <2>1, Zenon DEF H!Balanced
<1>10. PICK d, q, r, a, b : d = f[N] /\ q = T \div d /\ r = T % d /\ a = f[i - 1] /\ b = f[i]
  BY Zenon
<1>11. i \in 0..N /\ i - 1 \in 0..N /\ N \in 0..N /\ 0 \in 0..N /\ 0 <= i - 1 /\ i <= N
  BY <1>3, SMTT(30)
<1>12. a \in Int /\ b \in Int /\ d \in Int /\ f[0] <= a /\ b <= d /\ b = a + sh[i] /\ sh[i] \in Int /\ sh[i] >= 1 /\ f[0] = 0
  <2>1. f[0] <= f[i - 1] /\ f[i] <= f[N] /\ f[i] \in Int /\ f[i - 1] \in Int /\ f[N] \in Int
    BY <1>3, <1>5, <1>11, SumRises, ZenonT(30)
  <2>2. f[0] = 0 /\ f[i] = f[i - 1] + sh[i] /\ sh[i] \in Int /\ sh[i] >= 1
    BY <1>3, <1>5, Zenon DEF IsSum, Positive
  <2> QED
    BY <1>10, <2>1, <2>2, ZenonT(30)
<1>13. d \in Nat \ {0}
  BY <1>12, SMTT(30)
<1>14. q \in Nat /\ r \in Nat
  <2>1. T % d \in 0..(d - 1) /\ T \div d \in Nat
    BY <1>4, <1>13, DivisionStep, ZenonT(30)
  <2> QED
    BY <1>10, <1>13, <2>1
<1>15. picks[i] = q * (b - a) + Portion(r, a, b)
  BY <1>1, <1>5, <1>7, <1>8, <1>9, <1>10, ZenonT(30) DEF LbInv, LbRounds, Rounds, Had
<1>16. Portion(r, a, b) \in Int /\ 0 <= Portion(r, a, b) /\ Portion(r, a, b) <= b - a
  <2>1. a <= b
    BY <1>12
  <2> QED
    BY <1>12, <1>14, <2>1, PortionBounds, Zenon
<1>17. PICK s, z : s = sh[i] /\ z = Portion(r, a, b)
  BY Zenon
<1>18. s \in Nat /\ z \in Int /\ 0 <= z /\ z <= s /\ picks[i] = q * s + z /\ b - a = s
  BY <1>12, <1>15, <1>16, <1>17, SMTT(30)
<1>19. q * s \in Int /\ (q + 1) * s = q * s + s
  BY <1>14, <1>18, SMTT(30)
<1>20. picks[i] \in (q * s)..((q + 1) * s)
  BY <1>18, <1>19
<1> QED
  BY <1>5, <1>7, <1>10, <1>17, <1>20, ZenonT(30)

LEMMA LbImplied ==
  ASSUME H!BalancerAssumption, LbInv
  PROVE  H!TypeOK /\ H!SelectsFairly
<1>1. H!TypeOK
  BY DEF LbInv, LbTypes, H!TypeOK
<1>2. H!Balanced
  BY LbBalanced, Zenon
<1>3. H!GoneIsNotSelected
  BY Zenon DEF LbInv, LbTypes, LbGone, H!GoneIsNotSelected
<1> QED
  BY <1>1, <1>2, <1>3, Zenon DEF H!SelectsFairly

\* For every set of endpoints, weights and threads and every size of the counter: until the
\* counter wraps or an update() meets a select(), each endpoint has been selected between q
\* and q + 1 times its turns after q full rounds, although the threads share only an atomic
\* counter; the index a thread computed is that of an endpoint, and a host that was
\* deregistered is not selected after the next update.
THEOREM BalancerSelectsFairly == H!Spec => []SelectsFairly
<1>1. H!Init => LbInv
  BY LbInitially, EndpointsAssumption, Zenon
<1>2. LbInv /\ [H!Next]_H!vars => LbInv'
  BY LbPreserved, EndpointsAssumption, Zenon
<1>3. LbInv => SelectsFairly
  BY LbImplied, EndpointsAssumption, Zenon DEF SelectsFairly
<1> QED
  BY <1>1, <1>2, <1>3, PTL DEF H!Spec
=============================================================================
