-------------------------- MODULE CoroutineProofs ---------------------------
(***************************************************************************)
(* What resumes coroutines.  The awaiters for any number of awaits of any  *)
(* kinds: until a callback uses an awaiter that is gone, a coroutine is    *)
(* only resumed by the await it is suspended in, and an await tells the    *)
(* truth.  The scheduler for any number of threads, clients and            *)
(* coroutines: a handle that is scheduled is in exactly one place.         *)
(***************************************************************************)
EXTENDS Awaiters, MCScheduler, TLAPS

States == {"running", "checking", "checked", "waiting"}
Words == Finished \cup {"none", "unset", "flying", "stored", "delivered", "timeout", "bad_optional_access"}
Awaiter == [done_ : BOOLEAN, result_ : Words, timeout_fired_ : BOOLEAN, exception_ : Words,
            ready_ : BOOLEAN, continuation_ : BOOLEAN]

\* What holds until a callback uses an awaiter that is gone.  The awaiter of an AsyncAwaiter
\* holds no continuation before await_suspend has run.
TypeInv ==
  /\ n \in 0..MaxAwaits /\ co \in States /\ (co # "running" => n > 0)
  /\ kinds \in [Awaits -> Kinds \cup {"none"}] /\ \A i \in Awaits : kinds[i] = "none" <=> i > n
  /\ aw \in [Awaits -> Awaiter] /\ \A i \in Awaits : kinds[i] = "none" => aw[i] = Fresh
  /\ ops \in [Awaits -> [Ops -> Words]] /\ outcome \in [Awaits -> Words]
  /\ ~misresumed
  /\ co \in {"checking", "checked"} => kinds[n] = "Async" /\ ~aw[n].continuation_

\* What the operations of an await of kind k can be; up says that its time was up.
OpsOf(k, o, up) ==
  /\ k = "none" => o.main = "none" /\ o.timer = "none" /\ o.nop = "none"
  /\ k \in {"Io", "Sleep", "WaitUntil"} =>
       o.main \in {"none", "flying", "ok", "fail", "delivered"} /\ o.timer = "none" /\ o.nop = "none"
  /\ k = "Async" => o.main \in {"flying", "stored", "delivered"} /\ o.timer = "none" /\ o.nop = "none"
  /\ k = "Timeout" => o.main = "none" /\ o.timer \in {"flying", "etime", "delivered"} /\ o.nop = "none"
  /\ k = "WithTimeout" => /\ o.main \in {"flying", "ok", "fail", "delivered"} /\ o.nop = "none"
                          /\ o.timer \in {"flying", "etime", "canceled", "delivered"}
                          /\ o.timer = "etime" => up
  /\ k \in {"TimedRecv", "TimedSend"} =>
       /\ o.main \in {"flying", "ok", "fail", "canceled", "delivered"}
       /\ o.timer \in {"flying", "etime", "canceled", "delivered"}
       /\ o.nop \in {"none", "flying", "ok", "delivered"} /\ (k = "TimedRecv" => o.nop = "none")
       /\ o.main = "flying" <=> o.timer = "flying"
       /\ o.main = "canceled" \/ o.timer = "etime" => up
       /\ o.timer = "canceled" => o.main \in {"ok", "fail", "delivered"}

Returned(i) == i < n \/ (i = n /\ co = "running")

\* An await that has returned leaves no completion that would resume the coroutine again.
NoneLeft(k, o) ==
  /\ k \in {"Io", "Timeout", "Sleep", "WaitUntil"} =>
       o.main \in {"none", "delivered"} /\ o.timer \in {"none", "delivered"} /\ o.nop \in {"none", "delivered"}
  /\ k = "TimedSend" => o.nop \in {"none", "delivered"}

\* An awaiter knows nothing but what the operations of its own await have brought, and one
\* that is kept after its await has returned lets no further callback through.
Told(i) ==
  kinds[i] # "TimedSend" =>
    /\ outcome[i] \in {"timeout", "canceled"} => i \in expired
    /\ outcome[i] \notin {"bad_optional_access", "unset"}
Untouched ==
  /\ aw[n] = Fresh /\ ops[n].main # "delivered" /\ ops[n].timer # "delivered"
  /\ kinds[n] = "WithTimeout" => ops[n].timer # "canceled"
Produced ==
  /\ aw[n].ready_ <=> ops[n].main # "flying"
  /\ ~aw[n].ready_ => aw[n].exception_ = "none"
  /\ aw[n].ready_ => aw[n].exception_ = "fail" \/ (aw[n].exception_ = "none" /\ aw[n].result_ = "ok")
Over(i) ==
  /\ kinds[i] = "Async" =>
       /\ ops[i].main \in {"stored", "delivered"}
       /\ ops[i].main = "stored" => ~aw[i].continuation_
  /\ kinds[i] \in {"TimedRecv", "WithTimeout"} => aw[i].done_

TruthInv ==
  /\ \A i \in Awaits : Told(i)
  /\ \A i \in Awaits : Returned(i) => Over(i)
  /\ co = "waiting" /\ kinds[n] \in {"TimedRecv", "WithTimeout"} => Untouched
  /\ co # "running" /\ kinds[n] = "Async" => Produced

OpsInv == \A i \in Awaits : /\ OpsOf(kinds[i], ops[i], i \in expired)
                            /\ Returned(i) => NoneLeft(kinds[i], ops[i])

Inv == TypeInv /\ OpsInv /\ TruthInv

-----------------------------------------------------------------------------
LEMMA FreshFields ==
  ASSUME NEW a, a = Fresh
  PROVE  /\ a \in Awaiter /\ a.done_ = FALSE /\ a.timeout_fired_ = FALSE
         /\ ~a.ready_ /\ ~a.continuation_ /\ a.result_ = "unset" /\ a.exception_ = "none"
<1>1. Fresh \in Awaiter
  BY Zenon DEF Fresh, Awaiter, Words
<1>2. /\ Fresh.done_ = FALSE /\ Fresh.timeout_fired_ = FALSE
      /\ ~Fresh.ready_ /\ ~Fresh.continuation_ /\ Fresh.result_ = "unset" /\ Fresh.exception_ = "none"
  BY Zenon DEF Fresh
<1> QED
  BY <1>1, <1>2, Zenon

LEMMA InvInit == Init => Inv
<1> SUFFICES ASSUME Init PROVE Inv
  BY Zenon
<1>1. TypeInv
  <2>1. n \in 0..MaxAwaits /\ \A i \in Awaits : i > n
    BY AwaitersAssumption DEF Init, Awaits
  <2>2. aw \in [Awaits -> Awaiter] /\ \A i \in Awaits : aw[i] = Fresh
    BY FreshFields, Zenon DEF Init
  <2>3. ops \in [Awaits -> [Ops -> Words]] /\ outcome \in [Awaits -> Words]
    BY Zenon DEF Init, Words
  <2>4. kinds \in [Awaits -> Kinds \cup {"none"}] /\ \A i \in Awaits : kinds[i] = "none"
    BY Zenon DEF Init
  <2> QED
    BY <2>1, <2>2, <2>3, <2>4, Zenon DEF Init, TypeInv, States
<1>2. OpsInv
  BY ZenonT(30) DEF Init, OpsInv, OpsOf, NoneLeft, Ops
<1>3. TruthInv
  BY Zenon DEF Init, TruthInv, Told, Over
<1> QED
  BY <1>1, <1>2, <1>3, Zenon DEF Inv

\* An operation of await i, of a kind the kernel or a thread completes, goes on.
LEMMA OpsChange ==
  ASSUME Inv, NEW i \in Awaits, NEW new \in [Ops -> Words], ops' = [ops EXCEPT ![i] = new],
         UNCHANGED <<n, co, kinds, aw, outcome, misresumed>>, expired \subseteq expired',
         kinds[i] # "Async", OpsOf(kinds[i], new, i \in expired'),
         Returned(i) => NoneLeft(kinds[i], new),
         kinds[i] \in {"TimedRecv", "WithTimeout"} /\ i = n /\ Untouched =>
           /\ new.main # "delivered" /\ new.timer # "delivered"
           /\ kinds[n] = "WithTimeout" => new.timer # "canceled"
  PROVE  Inv'
<1>1. /\ ops' \in [Awaits -> [Ops -> Words]] /\ ops'[i] = new
      /\ \A j \in Awaits : j # i => ops'[j] = ops[j]
  BY Zenon DEF Inv, TypeInv
<1>2. TypeInv'
  BY <1>1, Zenon DEF Inv, TypeInv
<1>3. OpsInv'
  <2> SUFFICES ASSUME NEW j \in Awaits
               PROVE  /\ OpsOf(kinds[j], ops'[j], j \in expired')
                      /\ Returned(j) => NoneLeft(kinds[j], ops'[j])
    BY Zenon DEF OpsInv, Returned
  <2>1. OpsOf(kinds[j], ops[j], j \in expired) /\ (Returned(j) => NoneLeft(kinds[j], ops[j]))
    BY Zenon DEF Inv, OpsInv
  <2>2. OpsOf(kinds[j], ops[j], j \in expired')
    BY <2>1, Zenon DEF OpsOf
  <2> QED
    BY <1>1, <2>1, <2>2, Zenon
<1>4. TruthInv'
  <2>1. n > 0 => n \in Awaits
    BY DEF Inv, TypeInv, Awaits
  <2>2. \A j \in Awaits : Told(j)'
    BY Zenon DEF Inv, TruthInv, Told
  <2>3. \A j \in Awaits : Returned(j)' => Over(j)'
    BY <1>1, Zenon DEF Inv, TruthInv, Returned, Over
  <2>4. co = "waiting" /\ kinds[n] \in {"TimedRecv", "WithTimeout"} => Untouched'
    <3> SUFFICES ASSUME co = "waiting", kinds[n] \in {"TimedRecv", "WithTimeout"} PROVE Untouched'
      BY Zenon
    <3>1. Untouched /\ n \in Awaits
      BY <2>1, Zenon DEF Inv, TruthInv, TypeInv
    <3>2. CASE i = n
      BY <1>1, <3>1, <3>2, Zenon DEF Untouched
    <3>3. CASE i # n
      BY <1>1, <3>1, <3>3, Zenon DEF Untouched
    <3> QED
      BY <3>2, <3>3, Zenon
  <2>5. co # "running" /\ kinds[n] = "Async" => Produced'
    <3> SUFFICES ASSUME co # "running", kinds[n] = "Async" PROVE Produced'
      BY Zenon
    <3>1. Produced /\ n \in Awaits /\ n # i
      BY <2>1, Zenon DEF Inv, TruthInv, TypeInv
    <3> QED
      BY <1>1, <3>1, Zenon DEF Produced
  <2> QED
    BY <2>2, <2>3, <2>4, <2>5, Zenon DEF TruthInv
<1> QED
  BY <1>2, <1>3, <1>4, Zenon DEF Inv

-----------------------------------------------------------------------------
(* The kernel and the threads complete operations. *)

LEMMA CompletedOps ==
  ASSUME Inv, NEW i \in Awaits, NEW op \in Ops, NEW result \in {"ok", "fail", "etime"},
         Complete(i, op, result)
  PROVE  \E new \in [Ops -> Words] :
           /\ ops' = [ops EXCEPT ![i] = new] /\ new[op] = result
           /\ \A o \in Ops \ {op} :
                new[o] = IF Linked(i) /\ op # "nop" /\ o # "nop" THEN "canceled" ELSE ops[i][o]
<1> DEFINE new == [o \in Ops |-> CASE o = op -> result
                                   [] o # op /\ Linked(i) /\ op # "nop" /\ o # "nop" -> "canceled"
                                   [] OTHER -> ops[i][o]]
<1>1. ops[i] \in [Ops -> Words]
  BY Zenon DEF Inv, TypeInv
<1>2. new \in [Ops -> Words]
  BY <1>1, Zenon DEF Words, Finished
<1>3. ops' = [ops EXCEPT ![i] = new]
  BY Zenon DEF Complete
<1>4. new[op] = result
  BY Zenon
<1>5. \A o \in Ops \ {op} : new[o] = IF Linked(i) /\ op # "nop" /\ o # "nop" THEN "canceled" ELSE ops[i][o]
  BY Zenon
<1> QED
  BY <1>2, <1>3, <1>4, <1>5, Zenon

LEMMA InvMain ==
  ASSUME Inv, NEW i \in Awaits, MainCompletes(i)
  PROVE  Inv'
<1>1. PICK r \in {"ok", "fail"} : Complete(i, "main", r)
  BY Zenon DEF MainCompletes
<1>2. PICK new \in [Ops -> Words] :
        /\ ops' = [ops EXCEPT ![i] = new] /\ new["main"] = r
        /\ \A o \in Ops \ {"main"} : new[o] = IF Linked(i) /\ o # "nop" THEN "canceled" ELSE ops[i][o]
  BY <1>1, CompletedOps DEF Ops
<1>3. /\ ops[i].main = "flying" /\ new.main = r /\ new.nop = ops[i].nop
      /\ new.timer = IF Linked(i) THEN "canceled" ELSE ops[i].timer
  BY <1>1, <1>2 DEF Complete, Ops
<1>4. OpsOf(kinds[i], ops[i], i \in expired) /\ (Returned(i) => NoneLeft(kinds[i], ops[i]))
  BY Zenon DEF Inv, OpsInv
<1>5. OpsOf(kinds[i], new, i \in expired)
  BY <1>3, <1>4, Zenon DEF OpsOf, Linked, MainCompletes
<1>6. Returned(i) => NoneLeft(kinds[i], new)
  BY <1>3, <1>4, Zenon DEF NoneLeft
<1>7. kinds[i] # "Async" /\ UNCHANGED <<n, co, kinds, aw, outcome, misresumed, expired>>
  BY Zenon DEF MainCompletes, history
<1>8. kinds[i] \in {"TimedRecv", "WithTimeout"} /\ i = n /\ Untouched =>
           /\ new.main # "delivered" /\ new.timer # "delivered"
           /\ kinds[n] = "WithTimeout" => new.timer # "canceled"
  BY <1>3, Zenon DEF Untouched, Linked
<1> QED
  BY <1>2, <1>5, <1>6, <1>7, <1>8, OpsChange, Zenon

LEMMA InvNop ==
  ASSUME Inv, NEW i \in Awaits, NopCompletes(i)
  PROVE  Inv'
<1>1. PICK new \in [Ops -> Words] :
        /\ ops' = [ops EXCEPT ![i] = new] /\ new["nop"] = "ok"
        /\ \A o \in Ops \ {"nop"} : new[o] = ops[i][o]
  BY CompletedOps DEF Ops, NopCompletes
<1>2. ops[i].nop = "flying" /\ new.nop = "ok" /\ new.main = ops[i].main /\ new.timer = ops[i].timer
  BY <1>1, Zenon DEF Complete, NopCompletes, Ops
<1>3. OpsOf(kinds[i], ops[i], i \in expired) /\ (Returned(i) => NoneLeft(kinds[i], ops[i]))
  BY Zenon DEF Inv, OpsInv
<1>4. OpsOf(kinds[i], new, i \in expired) /\ kinds[i] \in {"none", "TimedSend"} \cup Kinds
  BY <1>2, <1>3, ZenonT(30) DEF OpsOf, Inv, TypeInv
<1>5. Returned(i) => NoneLeft(kinds[i], new)
  BY <1>2, <1>3, Zenon DEF NoneLeft
<1>6. kinds[i] # "Async" /\ UNCHANGED <<n, co, kinds, aw, outcome, misresumed, expired>>
  BY <1>2, <1>3, Zenon DEF NopCompletes, history, OpsOf
<1>7. kinds[i] \in {"TimedRecv", "WithTimeout"} /\ i = n /\ Untouched =>
           /\ new.main # "delivered" /\ new.timer # "delivered"
           /\ kinds[n] = "WithTimeout" => new.timer # "canceled"
  BY <1>2, Zenon DEF Untouched
<1> QED
  BY <1>1, <1>4, <1>5, <1>6, <1>7, OpsChange, Zenon

LEMMA InvTimer ==
  ASSUME Inv, NEW i \in Awaits, TimerExpires(i)
  PROVE  Inv'
<1>1. PICK new \in [Ops -> Words] :
        /\ ops' = [ops EXCEPT ![i] = new] /\ new["timer"] = "etime"
        /\ \A o \in Ops \ {"timer"} : new[o] = IF Linked(i) /\ o # "nop" THEN "canceled" ELSE ops[i][o]
  BY CompletedOps DEF Ops, TimerExpires
<1>2. /\ ops[i].timer = "flying" /\ new.timer = "etime" /\ new.nop = ops[i].nop
      /\ new.main = IF Linked(i) THEN "canceled" ELSE ops[i].main
  BY <1>1 DEF Complete, TimerExpires, Ops
<1>3. OpsOf(kinds[i], ops[i], i \in expired) /\ (Returned(i) => NoneLeft(kinds[i], ops[i]))
  BY Zenon DEF Inv, OpsInv
<1>4. expired' = expired \cup {i} /\ UNCHANGED <<n, co, kinds, aw, outcome, misresumed>>
  BY Zenon DEF TimerExpires
<1>5. OpsOf(kinds[i], new, i \in expired')
  BY <1>2, <1>3, <1>4, Zenon DEF OpsOf, Linked
<1>6. Returned(i) => NoneLeft(kinds[i], new)
  BY <1>2, <1>3, Zenon DEF NoneLeft
<1>7. kinds[i] # "Async"
  BY <1>2, <1>3, Zenon DEF OpsOf
<1>8. kinds[i] \in {"TimedRecv", "WithTimeout"} /\ i = n /\ Untouched =>
           /\ new.main # "delivered" /\ new.timer # "delivered"
           /\ kinds[n] = "WithTimeout" => new.timer # "canceled"
  BY <1>2, Zenon DEF Untouched, Linked
<1> QED
  BY <1>1, <1>4, <1>5, <1>6, <1>7, <1>8, OpsChange, Zenon

-----------------------------------------------------------------------------
(* The coroutine awaits. *)

LEMMA NextAwait ==
  ASSUME Inv, co = "running", n < MaxAwaits
  PROVE  /\ n \in Nat /\ n + 1 \in Awaits /\ n + 1 \in 0..MaxAwaits
         /\ kinds[n + 1] = "none"
         /\ ops[n + 1].main = "none" /\ ops[n + 1].timer = "none" /\ ops[n + 1].nop = "none"
         /\ \A j \in Awaits : j # n + 1 => (j > n <=> j > n + 1) /\ (Returned(j) <=> j < n + 1)
<1>1. n \in Nat /\ MaxAwaits \in Nat
  BY AwaitersAssumption DEF Inv, TypeInv
<1>2. n + 1 \in Awaits /\ n + 1 \in 0..MaxAwaits
  BY <1>1 DEF Awaits
<1>3. kinds[n + 1] = "none"
  BY <1>1, <1>2 DEF Inv, TypeInv
<1>4. OpsOf(kinds[n + 1], ops[n + 1], n + 1 \in expired)
  BY <1>2, Zenon DEF Inv, OpsInv
<1>5. ops[n + 1].main = "none" /\ ops[n + 1].timer = "none" /\ ops[n + 1].nop = "none"
  BY <1>3, <1>4, Zenon DEF OpsOf
<1>6. \A j \in Awaits : j # n + 1 => (j > n <=> j > n + 1) /\ (Returned(j) <=> j < n + 1)
  BY <1>1 DEF Awaits, Returned
<1> QED
  BY <1>1, <1>2, <1>3, <1>5, <1>6, Zenon

LEMMA InvAwait ==
  ASSUME Inv, NEW k \in UsedKinds, Await(k)
  PROVE  Inv'
<1> DEFINE new == [o \in Ops |-> IF o \in Submitted(k) THEN "flying" ELSE "none"]
<1> PICK m : m = n + 1
  BY Zenon
<1>0. /\ co = "running" /\ n < MaxAwaits /\ n' = m /\ kinds' = [kinds EXCEPT ![m] = k]
      /\ ops' = [ops EXCEPT ![m] = new] /\ co' = IF k = "Async" THEN "checking" ELSE "waiting"
      /\ UNCHANGED <<aw, outcome, expired, misresumed>>
  BY Zenon DEF Await, history
<1>1. /\ n \in Nat /\ m \in Awaits /\ m \in 0..MaxAwaits /\ kinds[m] = "none" /\ k \in Kinds /\ k # "none"
      /\ \A j \in Awaits : j # m => (j > n <=> j > m) /\ (Returned(j) <=> j < m)
  BY <1>0, NextAwait, AwaitersAssumption, Zenon DEF Kinds
<1>2. new \in [Ops -> Words]
  BY Zenon DEF Words
<1>3. /\ new.main = IF k = "Timeout" THEN "none" ELSE "flying"
      /\ new.timer = IF k \in {"Timeout", "TimedRecv", "TimedSend", "WithTimeout"} THEN "flying" ELSE "none"
      /\ new.nop = IF k = "TimedSend" THEN "flying" ELSE "none"
  BY <1>1, Zenon DEF Submitted, Ops, Kinds
<1> HIDE DEF new
<1>4. /\ kinds' \in [Awaits -> Kinds \cup {"none"}] /\ ops' \in [Awaits -> [Ops -> Words]]
      /\ kinds'[m] = k /\ ops'[m] = new
      /\ \A j \in Awaits : j # m => kinds'[j] = kinds[j] /\ ops'[j] = ops[j]
  BY <1>0, <1>1, <1>2, Zenon DEF Inv, TypeInv
<1>5. \A j \in Awaits : j # m => (Returned(j)' <=> Returned(j))
  BY <1>0, <1>1, Zenon DEF Returned
<1>6. ~Returned(m)'
  BY <1>0, <1>1 DEF Returned
<1>7. TypeInv'
  <2>1. ~aw'[m].continuation_
    <3>1. aw'[m] = Fresh
      BY <1>0, <1>1, Zenon DEF Inv, TypeInv
    <3> QED
      BY <3>1, FreshFields, Zenon
  <2>2. m > 0 /\ ~(m > m)
    BY <1>1
  <2>3. \A j \in Awaits : kinds'[j] = "none" <=> j > m
    BY <1>1, <1>4, <2>2, Zenon DEF Inv, TypeInv
  <2>4. \A j \in Awaits : kinds'[j] = "none" => aw'[j] = Fresh
    BY <1>0, <1>1, <1>4, Zenon DEF Inv, TypeInv
  <2> QED
    BY <1>0, <1>1, <1>4, <2>1, <2>2, <2>3, <2>4, Zenon DEF Inv, TypeInv, States
<1>8. OpsInv'
  <2>1. OpsOf(k, new, m \in expired)
    BY <1>1, <1>3, Zenon DEF OpsOf
  <2>2. \A j \in Awaits : j # m => /\ OpsOf(kinds[j], ops[j], j \in expired)
                                   /\ Returned(j) => NoneLeft(kinds[j], ops[j])
    BY Zenon DEF Inv, OpsInv
  <2> SUFFICES ASSUME NEW j \in Awaits
               PROVE  /\ OpsOf(kinds'[j], ops'[j], j \in expired')
                      /\ Returned(j)' => NoneLeft(kinds'[j], ops'[j])
    BY Zenon DEF OpsInv
  <2>3. CASE j = m
    BY <1>0, <1>4, <1>6, <2>1, <2>3, Zenon
  <2>4. CASE j # m
    BY <1>0, <1>4, <1>5, <2>2, <2>4, Zenon
  <2> QED
    BY <2>3, <2>4, Zenon
<1>9. TruthInv'
  <2>0. aw'[m] = Fresh
    BY <1>0, <1>1, Zenon DEF Inv, TypeInv
  <2>1. \A j \in Awaits : Told(j) /\ (Returned(j) => Over(j))
    BY Zenon DEF Inv, TruthInv
  <2>2. \A j \in Awaits : Told(j)'
    BY <1>0, <1>1, <1>4, <2>1, ZenonT(30) DEF Told
  <2>3. \A j \in Awaits : Returned(j)' => Over(j)'
    BY <1>0, <1>4, <1>5, <1>6, <2>1, Zenon DEF Over
  <2>4. kinds'[n'] \in {"TimedRecv", "WithTimeout"} => Untouched'
    BY <1>0, <1>3, <1>4, <2>0, ZenonT(30) DEF Untouched
  <2>5. kinds'[n'] = "Async" => Produced'
    <3>1. ~aw'[m].ready_ /\ aw'[m].exception_ = "none"
      BY <2>0, FreshFields, Zenon
    <3>2. k = "Async" => new.main = "flying"
      BY <1>3, Zenon
    <3>3. kinds'[n'] = k /\ ops'[n'].main = new.main /\ n' = m
      BY <1>0, <1>4, Zenon
    <3> QED
      BY <3>1, <3>2, <3>3, Zenon DEF Produced
  <2> QED
    BY <2>2, <2>3, <2>4, <2>5, Zenon DEF TruthInv
<1> QED
  BY <1>7, <1>8, <1>9, Zenon DEF Inv

LEMMA InvAwaitReady ==
  ASSUME Inv, NEW k \in UsedKinds, AwaitReady(k)
  PROVE  Inv'
<1> DEFINE m == n + 1
<1>0. /\ co = "running" /\ n < MaxAwaits /\ n' = m /\ kinds' = [kinds EXCEPT ![m] = k]
      /\ outcome' = [outcome EXCEPT ![m] = "ok"] /\ k \in {"Sleep", "WaitUntil"}
      /\ UNCHANGED <<co, aw, ops, expired, misresumed>>
  BY Zenon DEF AwaitReady, history
<1>1. /\ n \in Nat /\ m \in Awaits /\ m \in 0..MaxAwaits /\ kinds[m] = "none" /\ k \in Kinds /\ k # "none"
      /\ ops[m].main = "none" /\ ops[m].timer = "none" /\ ops[m].nop = "none"
      /\ \A j \in Awaits : j # m => (j > n <=> j > m) /\ (Returned(j) <=> j < m)
  BY <1>0, NextAwait, Zenon DEF Kinds
<1>2. /\ kinds' \in [Awaits -> Kinds \cup {"none"}] /\ outcome' \in [Awaits -> Words]
      /\ kinds'[m] = k /\ outcome'[m] = "ok"
      /\ \A j \in Awaits : j # m => kinds'[j] = kinds[j] /\ outcome'[j] = outcome[j]
  BY <1>0, <1>1, Zenon DEF Inv, TypeInv, Words, Finished
<1>3. \A j \in Awaits : j # m => (Returned(j)' <=> Returned(j))
  BY <1>0, <1>1, Zenon DEF Returned
<1>4. TypeInv'
  <2>1. ~(m > m)
    BY <1>1
  <2>2. \A j \in Awaits : kinds'[j] = "none" <=> j > m
    BY <1>1, <1>2, <2>1, ZenonT(30) DEF Inv, TypeInv
  <2>3. \A j \in Awaits : kinds'[j] = "none" => aw'[j] = Fresh
    BY <1>0, <1>1, <1>2, Zenon DEF Inv, TypeInv
  <2> QED
    BY <1>0, <1>1, <1>2, <2>2, <2>3, Zenon DEF Inv, TypeInv
<1>5. OpsInv'
  <2>1. OpsOf(k, ops[m], m \in expired) /\ NoneLeft(k, ops[m])
    BY <1>0, <1>1, Zenon DEF OpsOf, NoneLeft
  <2>2. \A j \in Awaits : j # m => /\ OpsOf(kinds[j], ops[j], j \in expired)
                                   /\ Returned(j) => NoneLeft(kinds[j], ops[j])
    BY Zenon DEF Inv, OpsInv
  <2> SUFFICES ASSUME NEW j \in Awaits
               PROVE  /\ OpsOf(kinds'[j], ops'[j], j \in expired')
                      /\ Returned(j)' => NoneLeft(kinds'[j], ops'[j])
    BY Zenon DEF OpsInv
  <2>3. CASE j = m
    BY <1>0, <1>2, <2>1, <2>3, Zenon
  <2>4. CASE j # m
    BY <1>0, <1>2, <1>3, <2>2, <2>4, Zenon
  <2> QED
    BY <2>3, <2>4, Zenon
<1>6. TruthInv'
  <2>1. \A j \in Awaits : Told(j) /\ (Returned(j) => Over(j))
    BY Zenon DEF Inv, TruthInv
  <2>2. \A j \in Awaits : Told(j)'
    BY <1>0, <1>1, <1>2, <2>1, ZenonT(30) DEF Told
  <2>3. \A j \in Awaits : Returned(j)' => Over(j)'
    BY <1>0, <1>1, <1>2, <1>3, <2>1, Zenon DEF Over
  <2> QED
    BY <1>0, <2>2, <2>3, Zenon DEF TruthInv
<1> QED
  BY <1>4, <1>5, <1>6, Zenon DEF Inv

-----------------------------------------------------------------------------
(* AsyncAwaiter. *)

LEMMA InvCheckReady ==
  ASSUME Inv, CheckReady
  PROVE  Inv'
<1>1. /\ co = "checking" /\ n \in Awaits /\ kinds[n] = "Async" /\ n \in Nat
      /\ UNCHANGED <<n, kinds, aw, ops, expired, misresumed>>
  BY DEF CheckReady, history, Inv, TypeInv, Awaits
<1>2. CASE ~aw[n].ready_ /\ co' = "checked" /\ UNCHANGED outcome
  <2>1. \A j \in Awaits : /\ (Returned(j)' <=> Returned(j)) /\ (Told(j)' <=> Told(j))
                          /\ Over(j)' <=> Over(j)
    BY <1>1, <1>2, Zenon DEF Returned, Told, Over
  <2>2. TypeInv'
    BY <1>1, <1>2, Zenon DEF Inv, TypeInv, States
  <2>3. OpsInv'
    BY <1>1, <2>1, Zenon DEF Inv, OpsInv
  <2>4. TruthInv'
    BY <1>1, <1>2, <2>1, Zenon DEF Inv, TruthInv, Produced
  <2> QED
    BY <2>2, <2>3, <2>4, Zenon DEF Inv
<1>3. CASE aw[n].ready_ /\ co' = "running" /\ outcome' = [outcome EXCEPT ![n] = AwaitResume("Async", aw[n])]
  <2>1. AwaitResume("Async", aw[n]) = IF aw[n].exception_ # "none" THEN aw[n].exception_ ELSE aw[n].result_
    BY Zenon DEF AwaitResume
  <2>2. /\ outcome' \in [Awaits -> Words] /\ outcome'[n] = AwaitResume("Async", aw[n])
        /\ \A j \in Awaits : j # n => outcome'[j] = outcome[j]
    <3>1. aw[n].exception_ \in Words /\ aw[n].result_ \in Words
      BY <1>1, Zenon DEF Inv, TypeInv, Awaiter
    <3>2. AwaitResume("Async", aw[n]) \in Words
      BY <2>1, <3>1, Zenon
    <3> QED
      BY <1>1, <1>3, <3>2, Zenon DEF Inv, TypeInv
  <2>3. TypeInv'
    BY <1>1, <1>3, <2>2, Zenon DEF Inv, TypeInv, States
  <2>4. \A j \in Awaits : j # n => (Returned(j)' <=> Returned(j))
    BY <1>1, <1>3, Zenon DEF Returned
  <2>5. OpsInv'
    <3> SUFFICES ASSUME NEW j \in Awaits, Returned(j)' PROVE NoneLeft(kinds[j], ops[j])
      BY <1>1, Zenon DEF Inv, OpsInv
    <3>1. CASE j = n
      BY <1>1, <3>1, Zenon DEF NoneLeft
    <3>2. CASE j # n
      BY <2>4, <3>2, Zenon DEF Inv, OpsInv
    <3> QED
      BY <3>1, <3>2, Zenon
  <2>6. TruthInv'
    <3>1. /\ \A j \in Awaits : Told(j) /\ (Returned(j) => Over(j))
          /\ Produced
      BY <1>1, Zenon DEF Inv, TruthInv
    <3>2. outcome'[n] \in {"ok", "fail"}
      BY <1>3, <2>1, <2>2, <3>1, Zenon DEF Produced
    <3>3. \A j \in Awaits : Told(j)'
      BY <1>1, <2>2, <3>1, <3>2, Zenon DEF Told
    <3>4. Over(n)
      <4>1. OpsOf(kinds[n], ops[n], n \in expired) /\ ~aw[n].continuation_
        BY <1>1, Zenon DEF Inv, OpsInv, TypeInv
      <4> QED
        BY <1>1, <1>3, <3>1, <4>1, Zenon DEF Produced, OpsOf, Over
    <3>5. \A j \in Awaits : Over(j)' <=> Over(j)
      BY <1>1, Zenon DEF Over
    <3> QED
      BY <1>3, <2>4, <3>1, <3>3, <3>4, <3>5, Zenon DEF TruthInv
  <2> QED
    BY <2>3, <2>5, <2>6, Zenon DEF Inv
<1> QED
  BY <1>2, <1>3, Zenon DEF CheckReady

LEMMA InvStoreContinuation ==
  ASSUME Inv, StoreContinuation
  PROVE  Inv'
<1>1. /\ co = "checked" /\ co' = "waiting" /\ kinds[n] = "Async" /\ n \in Awaits
      /\ aw \in [Awaits -> Awaiter] /\ aw' = [aw EXCEPT ![n] = [aw[n] EXCEPT !.continuation_ = TRUE]]
      /\ UNCHANGED <<n, kinds, ops, outcome, expired, misresumed>>
  <2>1. co = "checked" => n \in Awaits
    BY DEF Inv, TypeInv, Awaits
  <2> QED
    BY <2>1, Zenon DEF StoreContinuation, Inv, TypeInv
<1>2. /\ aw' \in [Awaits -> Awaiter] /\ aw'[n].ready_ = aw[n].ready_ /\ aw'[n].exception_ = aw[n].exception_
      /\ aw'[n].result_ = aw[n].result_ /\ \A j \in Awaits : j # n => aw'[j] = aw[j]
  <2>1. aw[n] \in Awaiter
    BY <1>1, Zenon
  <2>2. [aw[n] EXCEPT !.continuation_ = TRUE] \in Awaiter
    BY <2>1, Zenon DEF Awaiter
  <2>3. aw'[n] = [aw[n] EXCEPT !.continuation_ = TRUE]
    BY <1>1, Zenon
  <2> QED
    BY <1>1, <2>1, <2>2, <2>3, Zenon DEF Awaiter
<1>3. \A j \in Awaits : (Returned(j)' <=> Returned(j)) /\ (Told(j)' <=> Told(j))
  BY <1>1, Zenon DEF Returned, Told
<1>4. TypeInv'
  BY <1>1, <1>2, Zenon DEF Inv, TypeInv, States
<1>5. OpsInv'
  BY <1>1, <1>3, Zenon DEF Inv, OpsInv
<1>6. TruthInv'
  <2>1. \A j \in Awaits : Returned(j) => Over(j)'
    <3>1. ~Returned(n)
      BY <1>1 DEF Returned, Inv, TypeInv, Awaits
    <3> QED
      BY <1>1, <1>2, <3>1, Zenon DEF Inv, TruthInv, Over
  <2> QED
    BY <1>1, <1>2, <1>3, <2>1, Zenon DEF Inv, TruthInv, Produced
<1> QED
  BY <1>4, <1>5, <1>6, Zenon DEF Inv

\* Before it is delivered the main operation of an AsyncAwaiter is that of the current await.
LEMMA FlyingIsCurrent ==
  ASSUME Inv, NEW i \in Awaits, kinds[i] = "Async", ops[i].main = "flying"
  PROVE  i = n /\ co # "running"
<1>1. ~Returned(i)
  BY Zenon DEF Inv, TruthInv, Over
<1>2. i \in Int /\ n \in Int /\ ~(i > n)
  BY DEF Inv, TypeInv, Awaits
<1> QED
  BY <1>1, <1>2 DEF Returned

LEMMA InvSetResult ==
  ASSUME Inv, NEW i \in Awaits, SetResult(i)
  PROVE  Inv'
<1>1. /\ kinds[i] = "Async" /\ ops[i].main = "flying" /\ aw \in [Awaits -> Awaiter]
      /\ UNCHANGED <<n, co, kinds, outcome, expired, misresumed>>
  BY Zenon DEF SetResult, history, Inv, TypeInv
<1>2. /\ ops' \in [Awaits -> [Ops -> Words]] /\ \A j \in Awaits : j # i => ops'[j] = ops[j]
      /\ ops'[i].main = "stored" /\ ops'[i].timer = ops[i].timer /\ ops'[i].nop = ops[i].nop
  <2>1. ops \in [Awaits -> [Ops -> Words]] /\ ops' = [ops EXCEPT ![i] = [ops[i] EXCEPT !["main"] = "stored"]]
    BY Zenon DEF Inv, TypeInv, SetResult
  <2>2. [ops[i] EXCEPT !["main"] = "stored"] \in [Ops -> Words]
    BY <2>1, Zenon DEF Words
  <2> QED
    BY <2>1, <2>2, Zenon DEF Ops
<1>3. PICK a : /\ a \in {[aw[i] EXCEPT !.ready_ = TRUE, !.result_ = "ok"],
                         [aw[i] EXCEPT !.ready_ = TRUE, !.exception_ = "fail"]}
               /\ aw' = [aw EXCEPT ![i] = a]
  <2>1. \/ aw' = [aw EXCEPT ![i] = [aw[i] EXCEPT !.ready_ = TRUE, !.result_ = "ok"]]
        \/ aw' = [aw EXCEPT ![i] = [aw[i] EXCEPT !.ready_ = TRUE, !.exception_ = "fail"]]
    BY <1>1 DEF SetResult
  <2> QED
    BY <2>1, Zenon
<1>4. a \in Awaiter /\ a.continuation_ = aw[i].continuation_ /\ a.ready_
  <2>1. aw[i] \in Awaiter
    BY <1>1, Zenon
  <2> QED
    BY <1>3, <2>1, Zenon DEF Awaiter, Words, Finished
<1>5. aw' \in [Awaits -> Awaiter] /\ aw'[i] = a /\ \A j \in Awaits : j # i => aw'[j] = aw[j]
  BY <1>1, <1>3, <1>4, Zenon
<1>6. \A j \in Awaits : (Returned(j)' <=> Returned(j)) /\ (Told(j)' <=> Told(j))
  BY <1>1, Zenon DEF Returned, Told
<1>7. i = n /\ co # "running"
  BY <1>1, FlyingIsCurrent, Zenon
<1>8. TypeInv'
  BY <1>1, <1>2, <1>4, <1>5, <1>7, Zenon DEF Inv, TypeInv
<1>9. OpsInv'
  <2>1. OpsOf(kinds[i], ops'[i], i \in expired) /\ NoneLeft(kinds[i], ops'[i])
    <3>1. OpsOf(kinds[i], ops[i], i \in expired)
      BY Zenon DEF Inv, OpsInv
    <3> QED
      BY <1>1, <1>2, <3>1, Zenon DEF OpsOf, NoneLeft
  <2>2. \A j \in Awaits : /\ OpsOf(kinds[j], ops[j], j \in expired)
                          /\ Returned(j) => NoneLeft(kinds[j], ops[j])
    BY Zenon DEF Inv, OpsInv
  <2> SUFFICES ASSUME NEW j \in Awaits
               PROVE  OpsOf(kinds[j], ops'[j], j \in expired) /\ (Returned(j) => NoneLeft(kinds[j], ops'[j]))
    BY <1>1, <1>6, Zenon DEF OpsInv
  <2>3. CASE j = i
    BY <2>1, <2>3, Zenon
  <2>4. CASE j # i
    BY <1>2, <2>2, <2>4, Zenon
  <2> QED
    BY <2>3, <2>4, Zenon
<1>10. TruthInv'
  <2>1. /\ \A j \in Awaits : Told(j) /\ (Returned(j) => Over(j))
        /\ Produced
    BY <1>1, <1>7, Zenon DEF Inv, TruthInv
  <2>2. ~Returned(i)
    BY <1>7 DEF Returned, Awaits
  <2>3. \A j \in Awaits : Returned(j) => Over(j)'
    BY <1>1, <1>2, <1>5, <2>1, <2>2, Zenon DEF Over
  <2>4. a.exception_ = "fail" \/ (a.exception_ = "none" /\ a.result_ = "ok")
    <3>1. aw[i] \in Awaiter /\ aw[i].exception_ = "none"
      BY <1>1, <1>7, <2>1, Zenon DEF Produced
    <3> QED
      BY <1>3, <3>1, Zenon DEF Awaiter
  <2>5. Produced'
    BY <1>1, <1>2, <1>4, <1>5, <1>7, <2>4, Zenon DEF Produced
  <2> QED
    BY <1>1, <1>6, <1>7, <2>1, <2>3, <2>5, Zenon DEF TruthInv
<1> QED
  BY <1>8, <1>9, <1>10, Zenon DEF Inv

LEMMA MarkDelivered ==
  ASSUME Inv, NEW i \in Awaits, NEW op \in Ops
  PROVE  /\ Delivered(i, op) \in [Awaits -> [Ops -> Words]]
         /\ \A j \in Awaits : j # i => Delivered(i, op)[j] = ops[j]
         /\ Delivered(i, op)[i][op] = "delivered"
         /\ \A o \in Ops : o # op => Delivered(i, op)[i][o] = ops[i][o]
<1>1. ops \in [Awaits -> [Ops -> Words]] /\ Delivered(i, op) = [ops EXCEPT ![i] = [ops[i] EXCEPT ![op] = "delivered"]]
  BY Zenon DEF Inv, TypeInv, Delivered
<1>2. [ops[i] EXCEPT ![op] = "delivered"] \in [Ops -> Words]
  BY <1>1, Zenon DEF Words
<1> QED
  BY <1>1, <1>2, Zenon

LEMMA InvResumeContinuation ==
  ASSUME Inv, NEW i \in Awaits, ResumeContinuation(i), ~late'
  PROVE  Inv'
<1>1. /\ kinds[i] = "Async" /\ ops[i].main = "stored" /\ ops' = Delivered(i, "main")
      /\ UNCHANGED <<n, kinds, aw, expired>> /\ Alive(i)
  BY Zenon DEF ResumeContinuation
<1>2. /\ ops' \in [Awaits -> [Ops -> Words]] /\ \A j \in Awaits : j # i => ops'[j] = ops[j]
      /\ ops'[i].main = "delivered" /\ ops'[i].timer = ops[i].timer /\ ops'[i].nop = ops[i].nop
  BY <1>1, MarkDelivered, ZenonT(30) DEF Ops
<1>3. OpsOf(kinds[i], ops'[i], i \in expired) /\ NoneLeft(kinds[i], ops'[i])
  <2>1. OpsOf(kinds[i], ops[i], i \in expired)
    BY Zenon DEF Inv, OpsInv
  <2> QED
    BY <1>1, <1>2, <2>1, Zenon DEF OpsOf, NoneLeft
<1>4. \A j \in Awaits : j # i => /\ OpsOf(kinds[j], ops'[j], j \in expired)
                                 /\ Returned(j) => NoneLeft(kinds[j], ops'[j])
  BY <1>2, Zenon DEF Inv, OpsInv
<1>5. i <= n /\ n \in Awaits /\ i \in Int /\ n \in Int
  BY <1>1, AwaitersAssumption DEF Inv, TypeInv, Awaits
<1>6. \A j \in Awaits : Told(j) /\ (Returned(j) => Over(j))
  BY Zenon DEF Inv, TruthInv
<1>7. CASE aw[i].continuation_ /\ Resume(i)
  <2>0. i = n /\ co # "running"
    <3>1. ~Returned(i)
      BY <1>1, <1>6, <1>7, Zenon DEF Over
    <3> QED
      BY <1>5, <3>1 DEF Returned
  <2>1. co = "waiting"
    BY <1>7, <2>0, Zenon DEF Inv, TypeInv, States
  <2>2. co' = "running" /\ ~misresumed' /\ outcome' = [outcome EXCEPT ![n] = AwaitResume("Async", aw[n])]
    BY <1>1, <1>7, <2>0, <2>1, Zenon DEF Resume, Inv, TypeInv
  <2>3. AwaitResume("Async", aw[n]) = IF aw[n].exception_ # "none" THEN aw[n].exception_ ELSE aw[n].result_
    BY Zenon DEF AwaitResume
  <2>4. /\ outcome' \in [Awaits -> Words] /\ outcome'[n] = AwaitResume("Async", aw[n])
        /\ \A j \in Awaits : j # n => outcome'[j] = outcome[j]
    <3>1. aw[n].exception_ \in Words /\ aw[n].result_ \in Words
      BY <1>5, Zenon DEF Inv, TypeInv, Awaiter
    <3>2. AwaitResume("Async", aw[n]) \in Words
      BY <2>3, <3>1, Zenon
    <3> QED
      BY <1>5, <2>2, <3>2, Zenon DEF Inv, TypeInv
  <2>5. TypeInv'
    BY <1>1, <1>2, <2>2, <2>4, Zenon DEF Inv, TypeInv, States
  <2>6. \A j \in Awaits : j # n => (Returned(j)' <=> Returned(j))
    BY <1>1, <2>2, Zenon DEF Returned
  <2>7. OpsInv'
    <3> SUFFICES ASSUME NEW j \in Awaits
                 PROVE  OpsOf(kinds[j], ops'[j], j \in expired) /\ (Returned(j)' => NoneLeft(kinds[j], ops'[j]))
      BY <1>1, Zenon DEF OpsInv
    <3>1. CASE j = i
      BY <1>3, <3>1, Zenon
    <3>2. CASE j # i
      BY <1>4, <2>0, <2>6, <3>2, Zenon
    <3> QED
      BY <3>1, <3>2, Zenon
  <2>8. TruthInv'
    <3>1. Produced
      BY <1>1, <2>0, Zenon DEF Inv, TruthInv
    <3>2. outcome'[n] \in {"ok", "fail"}
      BY <1>1, <2>0, <2>3, <2>4, <3>1, ZenonT(30) DEF Produced
    <3>3. \A j \in Awaits : Told(j)'
      BY <1>1, <1>6, <2>4, <3>2, Zenon DEF Told
    <3>4. Over(n)'
      BY <1>1, <1>2, <2>0, Zenon DEF Over
    <3>5. \A j \in Awaits : j # n => (Over(j)' <=> Over(j))
      BY <1>1, <1>2, <2>0, Zenon DEF Over
    <3> QED
      BY <1>1, <1>6, <2>2, <2>6, <3>3, <3>4, <3>5, Zenon DEF TruthInv
  <2> QED
    BY <2>5, <2>7, <2>8, Zenon DEF Inv
<1>8. CASE UNCHANGED <<co, outcome, misresumed>>
  <2>1. \A j \in Awaits : (Returned(j)' <=> Returned(j)) /\ (Told(j)' <=> Told(j))
    BY <1>1, <1>8, Zenon DEF Returned, Told
  <2>2. TypeInv'
    BY <1>1, <1>2, <1>8, Zenon DEF Inv, TypeInv
  <2>3. OpsInv'
    <3> SUFFICES ASSUME NEW j \in Awaits
                 PROVE  OpsOf(kinds[j], ops'[j], j \in expired) /\ (Returned(j) => NoneLeft(kinds[j], ops'[j]))
      BY <1>1, <2>1, Zenon DEF OpsInv
    <3>1. CASE j = i
      BY <1>3, <3>1, Zenon
    <3>2. CASE j # i
      BY <1>4, <3>2, Zenon
    <3> QED
      BY <3>1, <3>2, Zenon
  <2>4. TruthInv'
    <3>1. \A j \in Awaits : Over(j) => Over(j)'
      BY <1>1, <1>2, ZenonT(30) DEF Over
    <3>2. co # "running" /\ kinds[n] = "Async" => Produced'
      <4> SUFFICES ASSUME Produced PROVE Produced'
        BY Zenon DEF Inv, TruthInv
      <4> QED
        BY <1>1, <1>2, <1>5, Zenon DEF Produced
    <3>3. co = "waiting" /\ kinds[n] \in {"TimedRecv", "WithTimeout"} => Untouched'
      <4> SUFFICES ASSUME Untouched, kinds[n] \in {"TimedRecv", "WithTimeout"} PROVE Untouched'
        BY Zenon DEF Inv, TruthInv
      <4>1. ops'[n] = ops[n]
        BY <1>1, <1>2, <1>5, Zenon
      <4> QED
        BY <1>1, <4>1, Zenon DEF Untouched
    <3> QED
      BY <1>1, <1>6, <1>8, <2>1, <3>1, <3>2, <3>3, Zenon DEF TruthInv
  <2> QED
    BY <2>2, <2>3, <2>4, Zenon DEF Inv
<1> QED
  BY <1>1, <1>7, <1>8, Zenon DEF ResumeContinuation

-----------------------------------------------------------------------------
(* The callbacks of completed operations. *)

LEMMA CallbackTypes ==
  ASSUME NEW k \in Kinds, NEW op \in Ops, NEW result \in Words, NEW a \in Awaiter
  PROVE  CallbackAw(k, op, result, a) \in Awaiter /\ AwaitResume(k, a) \in Words
<1>1. a.result_ \in Words /\ a.exception_ \in Words
  BY Zenon DEF Awaiter
<1>2. AwaitResume(k, a) \in Words
  BY <1>1, ZenonT(30) DEF AwaitResume, Words
<1>3. \A b \in BOOLEAN, c \in BOOLEAN, r \in Words, e \in Words :
        /\ [a EXCEPT !.result_ = r, !.done_ = b] \in Awaiter /\ [a EXCEPT !.timeout_fired_ = c, !.done_ = b] \in Awaiter
        /\ [a EXCEPT !.done_ = b, !.result_ = r] \in Awaiter /\ [a EXCEPT !.done_ = b, !.exception_ = e] \in Awaiter
        /\ [a EXCEPT !.done_ = b] \in Awaiter /\ [a EXCEPT !.result_ = r] \in Awaiter
  BY Zenon DEF Awaiter
<1>4. "timeout" \in Words /\ a.done_ \in BOOLEAN
  BY Zenon DEF Words, Awaiter
<1>5. CallbackAw(k, op, result, a) \in Awaiter
  BY <1>3, <1>4, Zenon DEF CallbackAw
<1> QED
  BY <1>2, <1>5, Zenon

\* A delivered operation cannot be delivered again, and the rest stays as it was.
LEMMA DeliveredOps ==
  ASSUME Inv, NEW i \in Awaits, NEW op \in Ops, Deliverable(i, op)
  PROVE  /\ kinds[i] \in Kinds \ {"Async"} /\ i <= n /\ n \in Awaits
         /\ OpsOf(kinds[i], Delivered(i, op)[i], i \in expired)
         /\ NoneLeft(kinds[i], ops[i]) => NoneLeft(kinds[i], Delivered(i, op)[i])
<1>1. kinds[i] # "Async" /\ ops[i][op] \in Finished
  BY Zenon DEF Deliverable
<1>2. OpsOf(kinds[i], ops[i], i \in expired)
  BY Zenon DEF Inv, OpsInv
<1>3. kinds[i] # "none"
  BY <1>1, <1>2, Zenon DEF OpsOf, Ops, Finished
<1>4. kinds[i] \in Kinds \ {"Async"} /\ i <= n /\ n \in Awaits
  BY <1>1, <1>3, AwaitersAssumption, SMTT(30) DEF Inv, TypeInv, Awaits
<1> DEFINE new == Delivered(i, op)[i]
<1>5. /\ new[op] = "delivered" /\ \A o \in Ops : o # op => new[o] = ops[i][o]
  BY MarkDelivered, Zenon
<1> HIDE DEF new
<1>6. CASE op = "main"
  <2>1. new.main = "delivered" /\ new.timer = ops[i].timer /\ new.nop = ops[i].nop /\ ops[i].main \in Finished
    BY <1>1, <1>5, <1>6, ZenonT(30) DEF Ops
  <2> QED
    BY <1>2, <1>4, <2>1, ZenonT(30) DEF OpsOf, NoneLeft, Finished, new, Kinds
<1>7. CASE op = "timer"
  <2>1. new.timer = "delivered" /\ new.main = ops[i].main /\ new.nop = ops[i].nop /\ ops[i].timer \in Finished
    BY <1>1, <1>5, <1>7, ZenonT(30) DEF Ops
  <2> QED
    BY <1>2, <1>4, <2>1, ZenonT(30) DEF OpsOf, NoneLeft, Finished, new, Kinds
<1>8. CASE op = "nop"
  <2>1. new.nop = "delivered" /\ new.main = ops[i].main /\ new.timer = ops[i].timer /\ ops[i].nop \in Finished
    BY <1>1, <1>5, <1>8, Zenon DEF Ops
  <2> QED
    BY <1>2, <1>4, <2>1, ZenonT(30) DEF OpsOf, NoneLeft, Finished, new, Kinds
<1> QED
  BY <1>6, <1>7, <1>8, Zenon DEF Ops

LEMMA AllDelivered ==
  ASSUME Inv, NEW i \in Awaits, NEW op \in Ops, Deliverable(i, op)
  PROVE  /\ Delivered(i, op) \in [Awaits -> [Ops -> Words]]
         /\ \A j \in Awaits : /\ OpsOf(kinds[j], Delivered(i, op)[j], j \in expired)
                              /\ Returned(j) => NoneLeft(kinds[j], Delivered(i, op)[j])
<1>1. \A j \in Awaits : OpsOf(kinds[j], ops[j], j \in expired) /\ (Returned(j) => NoneLeft(kinds[j], ops[j]))
  BY Zenon DEF Inv, OpsInv
<1>2. \A j \in Awaits : j # i => Delivered(i, op)[j] = ops[j]
  BY MarkDelivered, Zenon
<1>3. /\ OpsOf(kinds[i], Delivered(i, op)[i], i \in expired)
      /\ NoneLeft(kinds[i], ops[i]) => NoneLeft(kinds[i], Delivered(i, op)[i])
  BY DeliveredOps, Zenon
<1> SUFFICES ASSUME NEW j \in Awaits
             PROVE  /\ OpsOf(kinds[j], Delivered(i, op)[j], j \in expired)
                    /\ Returned(j) => NoneLeft(kinds[j], Delivered(i, op)[j])
  BY MarkDelivered, Zenon
<1>4. CASE j = i
  BY <1>1, <1>3, <1>4, Zenon
<1>5. CASE j # i
  BY <1>1, <1>2, <1>5, Zenon
<1> QED
  BY <1>4, <1>5, Zenon

\* The completion that resumes the current await is its last one, or leaves only such as
\* will find done_ set.
LEMMA LastOne ==
  ASSUME Inv, NEW op \in Ops, n \in Awaits, Deliverable(n, op), Resumes(kinds[n], op, aw[n])
  PROVE  NoneLeft(kinds[n], Delivered(n, op)[n])
<1>1. ops[n][op] \in Finished /\ OpsOf(kinds[n], ops[n], n \in expired)
  BY Zenon DEF Deliverable, Inv, OpsInv
<1> DEFINE new == Delivered(n, op)[n]
<1>2. /\ new[op] = "delivered" /\ \A o \in Ops : o # op => new[o] = ops[n][o]
  BY MarkDelivered, Zenon
<1> HIDE DEF new
<1>3. CASE kinds[n] \in {"Io", "Sleep", "WaitUntil"}
  <2>1. op = "main"
    BY <1>1, <1>3, Zenon DEF OpsOf, Ops, Finished
  <2> QED
    BY <1>1, <1>2, <1>3, <2>1, Zenon DEF OpsOf, NoneLeft, Ops, new
<1>4. CASE kinds[n] = "Timeout"
  <2>1. op = "timer"
    BY <1>1, <1>4, Zenon DEF OpsOf, Ops, Finished
  <2> QED
    BY <1>1, <1>2, <1>4, <2>1, Zenon DEF OpsOf, NoneLeft, Ops, new
<1>5. CASE kinds[n] = "TimedSend"
  <2>1. op = "nop"
    BY <1>5, Zenon DEF Resumes
  <2> QED
    BY <1>2, <1>5, <2>1, Zenon DEF NoneLeft, new
<1> QED
  BY <1>3, <1>4, <1>5, Zenon DEF NoneLeft

\* cancel_timeout() of the awaiter at hand.
LEMMA Canceled ==
  ASSUME Inv, NEW i \in Awaits, NEW op \in Ops, Deliverable(i, op),
         NEW after \in CancelTimeout(i, kinds[i], op, Delivered(i, op))
  PROVE  /\ after \in [Awaits -> [Ops -> Words]]
         /\ \A j \in Awaits : /\ OpsOf(kinds[j], after[j], j \in expired)
                              /\ NoneLeft(kinds[j], Delivered(i, op)[j]) => NoneLeft(kinds[j], after[j])
                              /\ j # i => after[j] = ops[j]
<1> DEFINE pending == Delivered(i, op)
<1>1. pending \in [Awaits -> [Ops -> Words]] /\ \A j \in Awaits : j # i => pending[j] = ops[j]
  BY MarkDelivered, Zenon
<1>2. \A j \in Awaits : OpsOf(kinds[j], pending[j], j \in expired)
  BY AllDelivered, Zenon
<1> HIDE DEF pending
<1>3. CASE after = pending
  BY <1>1, <1>2, <1>3, Zenon DEF pending
<1>4. CASE kinds[i] = "WithTimeout" /\ after = [pending EXCEPT ![i] = [pending[i] EXCEPT !["timer"] = "canceled"]]
  <2>1. [pending[i] EXCEPT !["timer"] = "canceled"] \in [Ops -> Words]
    BY <1>1, Zenon DEF Words, Finished
  <2>2. /\ after \in [Awaits -> [Ops -> Words]] /\ \A j \in Awaits : j # i => after[j] = pending[j]
        /\ after[i].timer = "canceled" /\ after[i].main = pending[i].main /\ after[i].nop = pending[i].nop
    BY <1>1, <1>4, <2>1, ZenonT(30) DEF Ops
  <2>3. OpsOf(kinds[i], after[i], i \in expired) /\ NoneLeft(kinds[i], after[i])
    BY <1>2, <1>4, <2>2, ZenonT(30) DEF OpsOf, NoneLeft
  <2> QED
    BY <1>1, <1>2, <2>2, <2>3, Zenon DEF pending
<1>5. after = pending \/ (/\ kinds[i] = "WithTimeout"
                          /\ after = [pending EXCEPT ![i] = [pending[i] EXCEPT !["timer"] = "canceled"]])
  BY Zenon DEF CancelTimeout, pending
<1> QED
  BY <1>3, <1>4, <1>5, Zenon

\* What is left of an await that has returned: a callback that finds done_ set, or one of
\* TimedSend that resumes nothing.
LEMMA Leftover ==
  ASSUME Inv, NEW i \in Awaits, NEW op \in Ops, Deliverable(i, op), Returned(i)
  PROVE  kinds[i] \in {"TimedRecv", "WithTimeout"} \/ (kinds[i] = "TimedSend" /\ op # "nop")
<1>1. ops[i][op] \in Finished /\ NoneLeft(kinds[i], ops[i])
  BY ZenonT(30) DEF Deliverable, Inv, OpsInv
<1>2. kinds[i] \in Kinds \ {"Async"}
  BY DeliveredOps, ZenonT(30)
<1>3. ops[i][op] \notin {"none", "delivered"} /\ op \in {"main", "timer", "nop"}
  BY <1>1, Zenon DEF Ops, Finished
<1>4. kinds[i] \notin {"Io", "Timeout", "Sleep", "WaitUntil"}
  BY <1>1, <1>3, Zenon DEF NoneLeft
<1>5. kinds[i] = "TimedSend" => op # "nop"
  BY <1>1, <1>3, Zenon DEF NoneLeft
<1> QED
  BY <1>2, <1>4, <1>5, Zenon DEF Kinds

\* On an awaiter that exists, the callback that resumes is one of the await the coroutine
\* is suspended in: an awaiter that is kept after its await has returned has done_ set.
LEMMA WhoResumes ==
  ASSUME Inv, NEW i \in Awaits, NEW op \in Ops, Deliverable(i, op)
  PROVE  /\ Resumes(kinds[i], op, aw[i]) => i = n /\ co = "waiting"
         /\ ~Resumes(kinds[i], op, aw[i]) => Returned(i) \/ kinds[i] = "TimedSend"
<1>1. kinds[i] \in Kinds \ {"Async"} /\ i <= n /\ n \in Awaits /\ n \in Int /\ i \in Int
  BY DeliveredOps DEF Awaits
<1>2. CASE Returned(i)
  <2>1. Over(i)
    BY <1>2, Zenon DEF Inv, TruthInv
  <2>2. kinds[i] \in {"TimedRecv", "WithTimeout"} \/ (kinds[i] = "TimedSend" /\ op # "nop")
    BY <1>2, Leftover, Zenon
  <2>3. ~Resumes(kinds[i], op, aw[i])
    BY <2>1, <2>2, Zenon DEF Over, Resumes
  <2> QED
    BY <1>2, <2>3, Zenon
<1>3. CASE ~Returned(i)
  <2>1. i = n /\ co # "running"
    BY <1>1, <1>3 DEF Returned
  <2>2. co = "waiting"
    BY <1>1, <2>1, Zenon DEF Inv, TypeInv, States
  <2>3. kinds[i] \in {"TimedRecv", "WithTimeout"} => ~aw[i].done_
    BY <2>1, <2>2, FreshFields, Zenon DEF Inv, TruthInv, Untouched
  <2>4. ~Resumes(kinds[i], op, aw[i]) => kinds[i] = "TimedSend"
    BY <1>1, <2>3, Zenon DEF Resumes, Kinds
  <2> QED
    BY <2>1, <2>2, <2>4, Zenon
<1> QED
  BY <1>2, <1>3, Zenon

\* The awaiter after a callback of its await; done_ is never reset.
LEMMA CallbackAwaiter ==
  ASSUME Inv, NEW i \in Awaits, NEW op \in Ops, Deliverable(i, op), Callback(i, op)
  PROVE  /\ aw' \in [Awaits -> Awaiter] /\ \A j \in Awaits : j # i => aw'[j] = aw[j]
         /\ aw'[i] = CallbackAw(kinds[i], op, ops[i][op], aw[i])
         /\ AwaitResume(kinds[i], aw'[i]) \in Words
         /\ kinds[i] \in {"TimedRecv", "WithTimeout"} => aw'[i].done_
<1> DEFINE a == CallbackAw(kinds[i], op, ops[i][op], aw[i])
<1>1. /\ kinds[i] \in Kinds \ {"Async"} /\ aw \in [Awaits -> Awaiter] /\ aw[i] \in Awaiter
      /\ ops[i][op] \in Words /\ aw' = [aw EXCEPT ![i] = a]
  BY DeliveredOps, Zenon DEF Inv, TypeInv, Callback
<1>2. a \in Awaiter
  BY <1>1, CallbackTypes, Zenon
<1>3. AwaitResume(kinds[i], a) \in Words
  BY <1>1, <1>2, CallbackTypes, Zenon
<1>4. kinds[i] \in {"TimedRecv", "WithTimeout"} => a.done_
  <2> SUFFICES ASSUME kinds[i] \in {"TimedRecv", "WithTimeout"} PROVE a.done_
    BY Zenon
  <2>1. op \in {"main", "timer"}
    <3>1. OpsOf(kinds[i], ops[i], i \in expired) /\ ops[i][op] \in Finished
      BY Zenon DEF Inv, OpsInv, Deliverable
    <3> QED
      BY <3>1, Zenon DEF OpsOf, Ops, Finished
  <2>2. CASE kinds[i] = "TimedRecv"
    BY <1>1, <2>1, <2>2, ZenonT(30) DEF CallbackAw, Awaiter
  <2>3. CASE kinds[i] = "WithTimeout"
    BY <1>1, <2>1, <2>3, ZenonT(30) DEF CallbackAw, Awaiter
  <2> QED
    BY <2>2, <2>3, Zenon
<1> HIDE DEF a
<1>5. aw' \in [Awaits -> Awaiter] /\ aw'[i] = a /\ \A j \in Awaits : j # i => aw'[j] = aw[j]
  BY <1>1, <1>2, Zenon
<1> QED
  BY <1>3, <1>4, <1>5, Zenon DEF a

\* What an await returns when no other callback has touched its awaiter.
LEMMA Answer ==
  ASSUME Inv, NEW op \in Ops, n \in Awaits, co = "waiting", Deliverable(n, op),
         kinds[n] # "TimedSend",
         NEW answer, answer = AwaitResume(kinds[n], CallbackAw(kinds[n], op, ops[n][op], aw[n]))
  PROVE  /\ answer \in {"timeout", "canceled"} => n \in expired
         /\ answer \notin {"bad_optional_access", "unset"}
<1>1. /\ kinds[n] \in Kinds \ {"Async"} /\ OpsOf(kinds[n], ops[n], n \in expired)
      /\ ops[n][op] \in Finished /\ aw[n] \in Awaiter
  BY DeliveredOps, Zenon DEF Deliverable, Inv, OpsInv, TypeInv
<1>2. CASE kinds[n] \in {"Io", "Sleep", "WaitUntil", "Timeout"}
  <2>1. answer = ops[n][op]
    BY <1>1, <1>2, Zenon DEF CallbackAw, AwaitResume, Awaiter
  <2>2. ops[n][op] \in {"ok", "fail", "etime"}
    BY <1>1, <1>2, Zenon DEF OpsOf, Ops, Finished
  <2> QED
    BY <2>1, <2>2, Zenon
<1>3. CASE kinds[n] = "TimedRecv"
  <2>1. Untouched /\ aw[n].timeout_fired_ = FALSE
    BY <1>3, FreshFields, Zenon DEF Inv, TruthInv, Untouched
  <2>2. CASE op = "main"
    <3>1. PICK a : a = [aw[n] EXCEPT !.result_ = ops[n].main, !.done_ = TRUE]
      BY Zenon
    <3>2. a.timeout_fired_ = FALSE /\ a.result_ = ops[n].main
      BY <1>1, <2>1, <3>1, Zenon DEF Awaiter
    <3>3. CallbackAw("TimedRecv", "main", ops[n].main, aw[n]) = a
      BY <3>1, Zenon DEF CallbackAw
    <3>4. AwaitResume("TimedRecv", a) = ops[n].main
      BY <3>2, Zenon DEF AwaitResume
    <3>5. answer = ops[n].main
      BY <1>3, <2>2, <3>3, <3>4, Zenon
    <3> QED
      BY <1>1, <1>3, <2>2, <3>5, Zenon DEF OpsOf, Finished
  <2>3. CASE op = "timer"
    <3>1. answer = "timeout"
      BY <1>1, <1>3, <2>1, <2>3, ZenonT(30) DEF CallbackAw, AwaitResume, Awaiter
    <3>2. ops[n].timer = "etime"
      BY <1>1, <1>3, <2>1, <2>3, Zenon DEF OpsOf, Finished, Untouched, Deliverable, Linked
    <3> QED
      BY <1>1, <1>3, <3>1, <3>2, Zenon DEF OpsOf
  <2> QED
    BY <1>1, <1>3, <2>2, <2>3, Zenon DEF Ops, OpsOf, Finished
<1>4. CASE kinds[n] = "WithTimeout"
  <2>1. Untouched /\ aw[n].done_ = FALSE /\ aw[n].exception_ = "none"
    BY <1>4, FreshFields, Zenon DEF Inv, TruthInv, Untouched
  <2>2. CASE op = "main"
    <3>1. ops[n].main \in {"ok", "fail"}
      BY <1>1, <1>4, <2>2, Zenon DEF OpsOf, Finished
    <3>2. PICK a : a = IF ops[n].main = "ok" THEN [aw[n] EXCEPT !.done_ = TRUE, !.result_ = ops[n].main]
                                             ELSE [aw[n] EXCEPT !.done_ = TRUE, !.exception_ = ops[n].main]
      BY Zenon
    <3>3. CallbackAw("WithTimeout", "main", ops[n].main, aw[n]) = a
      BY <2>1, <3>2, Zenon DEF CallbackAw
    <3>4. (a.exception_ = "none" /\ a.result_ = "ok") \/ a.exception_ = "fail"
      BY <1>1, <2>1, <3>1, <3>2, Zenon DEF Awaiter
    <3>5. AwaitResume("WithTimeout", a) \in {"ok", "fail"}
      BY <3>4, Zenon DEF AwaitResume
    <3> QED
      BY <1>4, <2>2, <3>3, <3>5, Zenon
  <2>3. CASE op = "timer"
    <3>1. ops[n].timer = "etime"
      BY <1>1, <1>4, <2>1, <2>3, Zenon DEF OpsOf, Finished, Untouched
    <3>2. answer = "timeout"
      BY <1>1, <1>4, <2>1, <2>3, <3>1, ZenonT(30) DEF CallbackAw, AwaitResume, Awaiter
    <3> QED
      BY <1>1, <1>4, <3>1, <3>2, ZenonT(30) DEF OpsOf
  <2> QED
    BY <1>1, <1>4, <2>2, <2>3, ZenonT(30) DEF Ops, OpsOf, Finished
<1> QED
  BY <1>1, <1>2, <1>3, <1>4, Zenon DEF Kinds

\* A callback that resumes nothing.
LEMMA InvDeliverQuiet ==
  ASSUME Inv, NEW i \in Awaits, NEW op \in Ops, Deliver(i, op), ~Resumes(kinds[i], op, aw[i])
  PROVE  Inv'
<1>1. /\ Deliverable(i, op) /\ Callback(i, op) /\ ops' = Delivered(i, op)
      /\ UNCHANGED <<n, co, kinds, outcome, expired, misresumed>>
  BY Zenon DEF Deliver, Callback
<1>2. /\ kinds[i] \in Kinds \ {"Async"} /\ n \in Awaits
      /\ Returned(i) \/ kinds[i] = "TimedSend"
  BY <1>1, DeliveredOps, WhoResumes, Zenon
<1>3. /\ aw' \in [Awaits -> Awaiter] /\ \A j \in Awaits : j # i => aw'[j] = aw[j]
      /\ kinds[i] \in {"TimedRecv", "WithTimeout"} => aw'[i].done_
  BY <1>1, CallbackAwaiter, Zenon
<1>4. /\ ops' \in [Awaits -> [Ops -> Words]]
      /\ \A j \in Awaits : /\ OpsOf(kinds[j], ops'[j], j \in expired)
                           /\ Returned(j) => NoneLeft(kinds[j], ops'[j])
                           /\ j # i => ops'[j] = ops[j]
  <2>1. \A j \in Awaits : j # i => ops'[j] = ops[j]
    BY <1>1, MarkDelivered, Zenon
  <2> QED
    BY <1>1, <2>1, AllDelivered, Zenon
<1>5. \A j \in Awaits : (Returned(j)' <=> Returned(j)) /\ (Told(j)' <=> Told(j))
  BY <1>1, Zenon DEF Returned, Told
<1>6. TypeInv'
  <2>1. \A j \in Awaits : kinds[j] = "none" => aw'[j] = Fresh
    BY <1>2, <1>3, Zenon DEF Inv, TypeInv, Kinds
  <2>2. co \in {"checking", "checked"} => kinds[n] = "Async" /\ ~aw'[n].continuation_
    BY <1>2, <1>3, Zenon DEF Inv, TypeInv
  <2> QED
    BY <1>1, <1>3, <1>4, <2>1, <2>2, Zenon DEF Inv, TypeInv
<1>7. OpsInv'
  BY <1>1, <1>4, <1>5, Zenon DEF OpsInv
<1>8. TruthInv'
  <2>1. \A j \in Awaits : Told(j) /\ (Returned(j) => Over(j))
    BY Zenon DEF Inv, TruthInv
  <2>2. \A j \in Awaits : Over(j) => Over(j)'
    BY <1>1, <1>2, <1>3, <1>4, Zenon DEF Over
  <2>3. co = "waiting" /\ kinds[n] \in {"TimedRecv", "WithTimeout"} => Untouched'
    <3> SUFFICES ASSUME co = "waiting", kinds[n] \in {"TimedRecv", "WithTimeout"}, Untouched PROVE Untouched'
      BY Zenon DEF Inv, TruthInv
    <3>1. i # n
      BY <1>2 DEF Returned, Awaits
    <3>2. aw'[n] = aw[n] /\ ops'[n] = ops[n]
      BY <1>2, <1>3, <1>4, <3>1, Zenon
    <3> QED
      BY <1>1, <3>2, Zenon DEF Untouched
  <2>4. co # "running" /\ kinds[n] = "Async" => Produced'
    <3> SUFFICES ASSUME kinds[n] = "Async", Produced PROVE Produced'
      BY Zenon DEF Inv, TruthInv
    <3>1. aw'[n] = aw[n] /\ ops'[n] = ops[n]
      BY <1>2, <1>3, <1>4, Zenon
    <3> QED
      BY <1>1, <3>1, Zenon DEF Produced
  <2> QED
    BY <1>1, <1>5, <2>1, <2>2, <2>3, <2>4, Zenon DEF TruthInv
<1> QED
  BY <1>6, <1>7, <1>8, Zenon DEF Inv

\* The callback that resumes the coroutine.
LEMMA InvDeliverResumes ==
  ASSUME Inv, NEW i \in Awaits, NEW op \in Ops, Deliver(i, op), Resumes(kinds[i], op, aw[i])
  PROVE  Inv'
<1>1. /\ Deliverable(n, op) /\ Callback(n, op) /\ UNCHANGED <<n, kinds, expired>>
      /\ i = n /\ co = "waiting" /\ n \in Awaits /\ Resumes(kinds[n], op, aw[n])
  BY WhoResumes, Zenon DEF Deliver
<1>2. kinds[n] \in Kinds \ {"Async"}
  BY <1>1, DeliveredOps, Zenon
<1> DEFINE answer == AwaitResume(kinds[n], CallbackAw(kinds[n], op, ops[n][op], aw[n]))
<1>3. /\ aw' \in [Awaits -> Awaiter] /\ \A j \in Awaits : j # n => aw'[j] = aw[j]
      /\ aw'[n] = CallbackAw(kinds[n], op, ops[n][op], aw[n])
      /\ answer \in Words
      /\ kinds[n] \in {"TimedRecv", "WithTimeout"} => aw'[n].done_
  BY <1>1, CallbackAwaiter, Zenon
<1>4. /\ co' = "running" /\ ~misresumed' /\ outcome' = [outcome EXCEPT ![n] = answer]
      /\ ops' \in CancelTimeout(n, kinds[n], op, Delivered(n, op))
  BY <1>1, <1>3, ZenonT(30) DEF Callback, Resume, Inv, TypeInv
<1>5. kinds[n] # "TimedSend" => /\ answer \in {"timeout", "canceled"} => n \in expired
                                /\ answer \notin {"bad_optional_access", "unset"}
  BY <1>1, Answer, Zenon
<1> HIDE DEF answer
<1>6. /\ outcome' \in [Awaits -> Words] /\ outcome'[n] = answer
      /\ \A j \in Awaits : j # n => outcome'[j] = outcome[j]
  BY <1>1, <1>3, <1>4, Zenon DEF Inv, TypeInv
<1>7. /\ ops' \in [Awaits -> [Ops -> Words]]
      /\ \A j \in Awaits : /\ OpsOf(kinds[j], ops'[j], j \in expired)
                           /\ NoneLeft(kinds[j], Delivered(n, op)[j]) => NoneLeft(kinds[j], ops'[j])
                           /\ j # n => ops'[j] = ops[j]
  BY <1>1, <1>4, Canceled, Zenon
<1>8. \A j \in Awaits : j # n => (Returned(j)' <=> Returned(j))
  BY <1>1, <1>4, Zenon DEF Returned
<1>9. TypeInv'
  <2>1. \A j \in Awaits : kinds[j] = "none" => aw'[j] = Fresh
    BY <1>2, <1>3, Zenon DEF Inv, TypeInv, Kinds
  <2> QED
    BY <1>1, <1>3, <1>4, <1>6, <1>7, <2>1, Zenon DEF Inv, TypeInv, States
<1>10. OpsInv'
  <2>1. NoneLeft(kinds[n], Delivered(n, op)[n])
    BY <1>1, LastOne, Zenon
  <2>2. \A j \in Awaits : Returned(j) => NoneLeft(kinds[j], ops[j])
    BY Zenon DEF Inv, OpsInv
  <2> QED
    BY <1>1, <1>7, <1>8, <2>1, <2>2, Zenon DEF OpsInv
<1>11. TruthInv'
  <2>1. \A j \in Awaits : Told(j) /\ (Returned(j) => Over(j))
    BY Zenon DEF Inv, TruthInv
  <2>2. \A j \in Awaits : Told(j)'
    BY <1>1, <1>5, <1>6, <2>1, Zenon DEF Told
  <2>3. Over(n)'
    BY <1>1, <1>2, <1>3, Zenon DEF Over
  <2>4. \A j \in Awaits : j # n => (Over(j)' <=> Over(j))
    BY <1>1, <1>3, <1>7, Zenon DEF Over
  <2> QED
    BY <1>1, <1>4, <1>8, <2>1, <2>2, <2>3, <2>4, Zenon DEF TruthInv
<1> QED
  BY <1>9, <1>10, <1>11, Zenon DEF Inv

-----------------------------------------------------------------------------
\* Once late, always late.
LEMMA LateStays == [Next]_vars /\ late => late'
<1> SUFFICES ASSUME [Next]_vars, late PROVE late'
  BY Zenon
<1>1. CASE UNCHANGED vars
  BY <1>1, Zenon DEF vars
<1>2. ASSUME NEW k \in UsedKinds, Await(k) \/ AwaitReady(k) PROVE late'
  BY <1>2, Zenon DEF Await, AwaitReady
<1>3. ASSUME NEW i \in Awaits, MainCompletes(i) \/ NopCompletes(i) \/ TimerExpires(i) PROVE late'
  BY <1>3, Zenon DEF MainCompletes, NopCompletes, TimerExpires
<1>4. CASE Reap
  BY <1>4, Zenon DEF Reap, Deliver, DeliverLate
<1>5. CASE Produce
  BY <1>5, Zenon DEF Produce, SetResult, ResumeContinuation
<1>6. CASE AwaitTests
  BY <1>6, Zenon DEF AwaitTests, CheckReady, StoreContinuation
<1> QED
  BY <1>1, <1>2, <1>3, <1>4, <1>5, <1>6, Zenon DEF Next

LEMMA InvNext == Inv /\ [Next]_vars /\ ~late' => Inv'
<1> SUFFICES ASSUME Inv, [Next]_vars, ~late' PROVE Inv'
  BY Zenon
<1>1. CASE UNCHANGED vars
  BY <1>1, Zenon DEF vars, Inv, TypeInv, OpsInv, TruthInv, Returned, Told, Over, Untouched, Produced
<1>2. ASSUME NEW k \in UsedKinds, Await(k) \/ AwaitReady(k) PROVE Inv'
  BY <1>2, InvAwait, InvAwaitReady, Zenon
<1>3. ASSUME NEW i \in Awaits, MainCompletes(i) \/ NopCompletes(i) \/ TimerExpires(i) PROVE Inv'
  BY <1>3, InvMain, InvNop, InvTimer, Zenon
<1>4. CASE Reap
  <2>1. PICK i \in Awaits, op \in Ops : Deliver(i, op)
    BY <1>4, Zenon DEF Reap, DeliverLate
  <2> QED
    BY <2>1, InvDeliverQuiet, InvDeliverResumes, Zenon
<1>5. CASE Produce
  BY <1>5, InvSetResult, InvResumeContinuation, Zenon DEF Produce
<1>6. CASE AwaitTests
  BY <1>6, InvCheckReady, InvStoreContinuation, Zenon DEF AwaitTests
<1> QED
  BY <1>1, <1>2, <1>3, <1>4, <1>5, <1>6, Zenon DEF Next

\* Until a callback uses an awaiter that is gone, for any sequence of awaits, any choice of
\* awaiters that outlive them and any order of completions: resume() is only called on the
\* coroutine while it is suspended in the await the callback belongs to, because done_ lets
\* one callback of each await through and an awaiter that is kept has it set; an await that
\* reports a timeout or a cancelled operation was out of time; and none but TimedSend
\* reports a result it has not got.
THEOREM AwaitsTruthful == Spec => []Truthful
<1>1. Inv => Truthful
  BY Zenon DEF Inv, TypeInv, TruthInv, Told, Truthful
<1>2. late => Truthful
  BY Zenon DEF Truthful
<1> QED
  BY <1>1, <1>2, InvInit, InvNext, LateStays, PTL DEF Spec

-----------------------------------------------------------------------------
(* The scheduler. *)

Pcs == {"out", "scan", "push", "notify", "loop", "pop", "steal", "run",
        "wait", "test", "block", "blocked", "woken", "exit"}

\* A thread has a handle from schedule()'s entry, a pop or a steal on, until it
\* is pushed or finished; a loop over the queues is at one of them.
PcInv ==
  \A p \in W!Procs : /\ pc[p] \in {"scan", "push", "run"} <=> task[p] # None
                     /\ pc[p] \in {"scan", "test"} => loop_i[p] \in W!Workers
                     /\ pc[p] \notin {"scan", "test", "steal"} => loop_i[p] = 0

Typed ==
  /\ local_queues_ \in [W!Workers -> Seq(Coros)]
  /\ running_ \in BOOLEAN
  /\ cv_mutex_ \in W!Workers \cup {None}
  /\ pc \in [W!Procs -> Pcs]
  /\ task \in [W!Procs -> Coros \cup {None}]
  /\ loop_i \in [W!Procs -> 0 .. thread_count_]
  /\ min_idx \in [W!Procs -> W!Workers]
  /\ min_size \in [W!Procs -> Nat]
  /\ stopping \in {"no", "stored", "joining", "joined"}
  /\ life \in [Coros -> {"new", "live", "done"}]
  /\ yields \in 0 .. MaxYields
  /\ PcInv

LEMMA TypedIsTypeOK == ASSUME W!SchedulerAssumption PROVE Typed => W!TypeOK
BY Zenon DEF Typed, W!TypeOK, Pcs

LEMMA Names ==
  ASSUME W!SchedulerAssumption
  PROVE  /\ thread_count_ \in Nat \ {0} /\ 0 \in W!Workers /\ MaxYields \in Nat /\ None \notin Coros
         /\ \A w \in W!Workers : w \in W!Procs /\ w \in 0 .. thread_count_
         /\ \A p \in Clients : p \in W!Procs
BY DEF W!SchedulerAssumption, W!Workers, W!Procs

LEMMA TypeInit == ASSUME W!SchedulerAssumption PROVE W!Init => Typed
<1> SUFFICES ASSUME W!Init PROVE Typed
  BY Zenon
<1>1. running_ \in BOOLEAN
  BY Zenon DEF W!Init
<1>2. local_queues_ \in [W!Workers -> Seq(Coros)] /\ cv_mutex_ \in W!Workers \cup {None}
      /\ stopping \in {"no", "stored", "joining", "joined"}
      /\ life \in [Coros -> {"new", "live", "done"}] /\ yields \in 0 .. MaxYields
  BY Names DEF W!Init
<1>3. pc \in [W!Procs -> Pcs] /\ task \in [W!Procs -> Coros \cup {None}]
  BY Zenon DEF W!Init, Pcs
<1>4. loop_i \in [W!Procs -> 0 .. thread_count_] /\ min_idx \in [W!Procs -> W!Workers]
      /\ min_size \in [W!Procs -> Nat]
  BY Names, Zenon DEF W!Init
<1>5. PcInv
  BY Names, Zenon DEF W!Init, PcInv
<1> QED
  BY <1>1, <1>2, <1>3, <1>4, <1>5, Zenon DEF Typed

-----------------------------------------------------------------------------
(* Type correctness *)

\* Steps of a thread that only move it, from a place without a handle to
\* another, and may change its loop counter and the mutex.
LEMMA TypeMove ==
  ASSUME W!SchedulerAssumption, Typed, NEW p \in W!Procs, NEW q \in Pcs, NEW k \in 0 .. thread_count_,
         pc[p] \notin {"scan", "push", "run"}, q \notin {"scan", "push", "run"},
         q = "test" => k \in W!Workers, q \notin {"test", "steal"} => k = 0,
         pc' = [pc EXCEPT ![p] = q], loop_i' = [loop_i EXCEPT ![p] = k],
         cv_mutex_' \in W!Workers \cup {None},
         UNCHANGED <<local_queues_, running_, task, min_idx, min_size, stopping, life, yields>>
  PROVE  Typed'
<1>1. pc' \in [W!Procs -> Pcs] /\ loop_i' \in [W!Procs -> 0 .. thread_count_]
  BY Zenon DEF Typed
<1>2. PcInv'
  BY Zenon DEF Typed, PcInv
<1> QED
  BY <1>1, <1>2, Zenon DEF Typed

LEMMA TypeScan ==
  ASSUME W!SchedulerAssumption, Typed, NEW p \in W!Procs, W!Scan(p)
  PROVE  Typed'
<1>1. loop_i[p] \in W!Workers /\ local_queues_[loop_i[p]] \in Seq(Coros) /\ task[p] # None
  BY Zenon DEF W!Scan, Typed, PcInv
<1>2. min_idx' \in [W!Procs -> W!Workers] /\ min_size' \in [W!Procs -> Nat]
  <2>1. PICK m, size : m = loop_i[p] /\ size = Len(local_queues_[loop_i[p]])
    BY Zenon
  <2>2. m \in W!Workers /\ size \in Nat
    BY <1>1, <2>1
  <2>3. \/ min_idx' = [min_idx EXCEPT ![p] = m] /\ min_size' = [min_size EXCEPT ![p] = size]
        \/ UNCHANGED <<min_idx, min_size>>
    BY <2>1, Zenon DEF W!Scan
  <2> QED
    BY <2>2, <2>3, ZenonT(30) DEF Typed
<1>3. CASE loop_i[p] + 1 < thread_count_
  <2>1. loop_i[p] + 1 \in W!Workers /\ loop_i[p] + 1 \in 0 .. thread_count_
    BY <1>1, <1>3, Names DEF W!Workers
  <2>2. loop_i' = [loop_i EXCEPT ![p] = loop_i[p] + 1] /\ UNCHANGED <<pc, task>>
    BY <1>3, Zenon DEF W!Scan
  <2>3. loop_i' \in [W!Procs -> 0 .. thread_count_] /\ pc' \in [W!Procs -> Pcs]
    BY <2>1, <2>2, Zenon DEF Typed
  <2>4. PcInv'
    BY <2>1, <2>2, Zenon DEF W!Scan, Typed, PcInv
  <2> QED
    BY <1>2, <2>3, <2>4, Zenon DEF W!Scan, Typed
<1>4. CASE ~(loop_i[p] + 1 < thread_count_)
  <2>1. loop_i' = [loop_i EXCEPT ![p] = 0] /\ pc' = [pc EXCEPT ![p] = "push"] /\ task' = task
    BY <1>4, Zenon DEF W!Scan
  <2>2. loop_i' \in [W!Procs -> 0 .. thread_count_] /\ pc' \in [W!Procs -> Pcs]
    BY <2>1, Names, Zenon DEF Typed, Pcs
  <2>3. PcInv'
    BY <1>1, <2>1, ZenonT(30) DEF Typed, PcInv
  <2> QED
    BY <1>2, <2>2, <2>3, Zenon DEF W!Scan, Typed
<1> QED
  BY <1>3, <1>4, Zenon

LEMMA TypePush ==
  ASSUME W!SchedulerAssumption, Typed, NEW p \in W!Procs, W!Push(p)
  PROVE  Typed'
<1>1. task[p] \in Coros /\ min_idx[p] \in W!Workers
  BY Zenon DEF W!Push, Typed, PcInv
<1>2. local_queues_' \in [W!Workers -> Seq(Coros)]
  BY <1>1, SMTT(30) DEF W!Push, Typed
<1>3. min_idx' \in [W!Procs -> W!Workers] /\ min_size' \in [W!Procs -> Nat]
  BY Names, Zenon DEF W!Push, Typed
<1>4. pc' \in [W!Procs -> Pcs] /\ task' \in [W!Procs -> Coros \cup {None}]
  BY Zenon DEF W!Push, Typed, Pcs
<1>5. PcInv'
  BY Zenon DEF W!Push, Typed, PcInv
<1> QED
  BY <1>2, <1>3, <1>4, <1>5, Zenon DEF W!Push, Typed

LEMMA TypeNotify ==
  ASSUME W!SchedulerAssumption, Typed, NEW p \in W!Procs, W!Notify(p)
  PROVE  Typed'
<1>1. \A q \in W!Procs : \/ pc'[q] = pc[q]
                         \/ /\ pc[q] \in {"notify", "blocked"}
                            /\ pc'[q] \in {"loop", "out", "woken"}
  BY Zenon DEF W!Notify, W!Return, W!Blocked, Typed
<1>2. pc' \in [W!Procs -> Pcs]
  <2>1. W!Return(p) \in [W!Procs -> Pcs]
    BY Zenon DEF W!Return, Typed, Pcs
  <2> QED
    BY <2>1, Zenon DEF W!Notify, Pcs
<1>3. PcInv'
  BY <1>1, Zenon DEF W!Notify, W!local, Typed, PcInv
<1> QED
  BY <1>2, <1>3, Zenon DEF W!Notify, W!local, Typed

LEMMA TypeEnter ==
  ASSUME W!SchedulerAssumption, Typed, NEW p \in W!Procs, NEW c \in Coros, NEW k \in W!ThreadIds, W!Enter(p, c, k),
         loop_i' = loop_i, loop_i[p] = 0
  PROVE  /\ task' \in [W!Procs -> Coros \cup {None}] /\ min_idx' \in [W!Procs -> W!Workers]
         /\ pc' \in [W!Procs -> Pcs] /\ PcInv'
<1>1. task' \in [W!Procs -> Coros \cup {None}] /\ min_idx' \in [W!Procs -> W!Workers]
  BY Zenon DEF W!Enter, Typed
<1>2. pc' \in [W!Procs -> Pcs]
  BY Zenon DEF W!Enter, Typed, Pcs
<1>3. PcInv'
  BY Names, ZenonT(60) DEF W!Enter, Typed, PcInv
<1> QED
  BY <1>1, <1>2, <1>3, Zenon

LEMMA TypeClientSchedules ==
  ASSUME W!SchedulerAssumption, Typed, NEW p \in Clients, NEW c \in Coros, NEW k \in W!ThreadIds, W!ClientSchedules(p, c, k)
  PROVE  Typed'
<1>1. p \in W!Procs /\ loop_i[p] = 0 /\ W!Enter(p, c, k) /\ loop_i' = loop_i
  BY Names, Zenon DEF W!ClientSchedules, Typed, PcInv
<1>2. task' \in [W!Procs -> Coros \cup {None}] /\ min_idx' \in [W!Procs -> W!Workers]
      /\ pc' \in [W!Procs -> Pcs] /\ PcInv'
  BY <1>1, TypeEnter, Zenon
<1>3. life' \in [Coros -> {"new", "live", "done"}]
  BY Zenon DEF W!ClientSchedules, Typed
<1> QED
  BY <1>2, <1>3, Zenon DEF W!ClientSchedules, Typed

LEMMA TypeYield ==
  ASSUME W!SchedulerAssumption, Typed, NEW w \in W!Workers, NEW k \in W!ThreadIds, W!Yield(w, k)
  PROVE  Typed'
<1>1. w \in W!Procs /\ loop_i[w] = 0 /\ task[w] \in Coros /\ W!Enter(w, task[w], k) /\ loop_i' = loop_i
  BY Names, Zenon DEF W!Yield, Typed, PcInv
<1>2. task' \in [W!Procs -> Coros \cup {None}] /\ min_idx' \in [W!Procs -> W!Workers]
      /\ pc' \in [W!Procs -> Pcs] /\ PcInv'
  BY <1>1, TypeEnter, Zenon
<1>3. yields' \in 0 .. MaxYields
  <2>1. MaxYields \in Nat /\ yields \in 0 .. MaxYields
    BY Names, Zenon DEF Typed
  <2>2. yields > 0 /\ yields' = yields - 1
    BY Zenon DEF W!Yield
  <2> QED
    BY <2>1, <2>2, SMTT(30)
<1> QED
  BY <1>2, <1>3, Zenon DEF W!Yield, Typed

LEMMA TypeFinish ==
  ASSUME W!SchedulerAssumption, Typed, NEW w \in W!Workers, W!Finish(w)
  PROVE  Typed'
<1>1. life' \in [Coros -> {"new", "live", "done"}] /\ task' \in [W!Procs -> Coros \cup {None}]
      /\ pc' \in [W!Procs -> Pcs]
  BY Zenon DEF W!Finish, Typed, Pcs
<1>2. PcInv'
  BY Names, Zenon DEF W!Finish, W!local, Typed, PcInv
<1> QED
  BY <1>1, <1>2, Zenon DEF W!Finish, W!local, Typed

\* A handle is taken out of queue v: w has it in hand.
LEMMA TypeTake ==
  ASSUME W!SchedulerAssumption, Typed, NEW w \in W!Workers, NEW v \in W!Workers, NEW c \in Coros, NEW rest \in Seq(Coros),
         task' = [task EXCEPT ![w] = c], pc' = [pc EXCEPT ![w] = "run"],
         local_queues_' = [local_queues_ EXCEPT ![v] = rest],
         loop_i' = [loop_i EXCEPT ![w] = 0],
         UNCHANGED <<running_, cv_mutex_, min_idx, min_size, stopping, life, yields>>
  PROVE  Typed'
<1>1. local_queues_' \in [W!Workers -> Seq(Coros)] /\ task' \in [W!Procs -> Coros \cup {None}]
  BY Zenon DEF Typed
<1>2. pc' \in [W!Procs -> Pcs] /\ loop_i' \in [W!Procs -> 0 .. thread_count_]
  BY Names, Zenon DEF Typed, Pcs
<1>3. PcInv'
  BY Names, Zenon DEF Typed, PcInv
<1> QED
  BY <1>1, <1>2, <1>3, Zenon DEF Typed

LEMMA PopCases ==
  ASSUME W!SchedulerAssumption, Typed, NEW w \in W!Workers, W!Pop(w), local_queues_[w] # <<>>
  PROVE  LET q == local_queues_[w] IN
         /\ q \in Seq(Coros) /\ Len(q) \in Nat \ {0} /\ q[Len(q)] \in Coros
         /\ SubSeq(q, 1, Len(q) - 1) \in Seq(Coros)
         /\ Len(SubSeq(q, 1, Len(q) - 1)) = Len(q) - 1
         /\ \A e \in 1 .. Len(q) - 1 : SubSeq(q, 1, Len(q) - 1)[e] = q[e]
         /\ task' = [task EXCEPT ![w] = q[Len(q)]]
         /\ local_queues_' = [local_queues_ EXCEPT ![w] = SubSeq(q, 1, Len(q) - 1)]
         /\ pc' = [pc EXCEPT ![w] = "run"]
         /\ loop_i' = [loop_i EXCEPT ![w] = 0]
         /\ pc[w] = "pop"
         /\ UNCHANGED <<running_, cv_mutex_, min_idx, min_size, stopping, life, yields>>
<1> DEFINE q == local_queues_[w]
<1>1. q \in Seq(Coros) /\ q # <<>>
  BY Zenon DEF Typed
<1>2. loop_i[w] = 0 /\ loop_i \in [W!Procs -> 0 .. thread_count_] /\ w \in W!Procs
  BY Names, Zenon DEF W!Pop, Typed, PcInv
<1>3. loop_i' = [loop_i EXCEPT ![w] = 0]
  BY <1>2, Zenon DEF W!Pop, W!local
<1>4. Len(q) \in Nat \ {0} /\ q[Len(q)] \in Coros
  BY <1>1
<1>5. SubSeq(q, 1, Len(q) - 1) \in Seq(Coros) /\ Len(SubSeq(q, 1, Len(q) - 1)) = Len(q) - 1
      /\ \A e \in 1 .. Len(q) - 1 : SubSeq(q, 1, Len(q) - 1)[e] = q[e]
  BY <1>1, <1>4
<1> QED
  BY <1>1, <1>3, <1>4, <1>5, Zenon DEF W!Pop, W!local

LEMMA TypePop ==
  ASSUME W!SchedulerAssumption, Typed, NEW w \in W!Workers, W!Pop(w)
  PROVE  Typed'
<1>1. CASE local_queues_[w] = <<>>
  <2>1. loop_i' = [loop_i EXCEPT ![w] = 0] /\ w \in W!Procs
    BY <1>1, Names, Zenon DEF W!Pop, W!local, Typed, PcInv
  <2> QED
    BY <1>1, <2>1, Names, TypeMove, Zenon DEF W!Pop, W!local, Typed, Pcs
<1>2. CASE local_queues_[w] # <<>>
  <2> DEFINE q == local_queues_[w]
             c == q[Len(q)]
             rest == SubSeq(q, 1, Len(q) - 1)
  <2>1. /\ c \in Coros /\ rest \in Seq(Coros)
        /\ task' = [task EXCEPT ![w] = c] /\ pc' = [pc EXCEPT ![w] = "run"]
        /\ local_queues_' = [local_queues_ EXCEPT ![w] = rest] /\ loop_i' = [loop_i EXCEPT ![w] = 0]
        /\ UNCHANGED <<running_, cv_mutex_, min_idx, min_size, stopping, life, yields>>
    BY <1>2, PopCases, Zenon
  <2> HIDE DEF c, rest
  <2> QED
    BY <2>1, TypeTake, Zenon
<1> QED
  BY <1>1, <1>2, Zenon

LEMMA StealCases ==
  ASSUME W!SchedulerAssumption, Typed, NEW w \in W!Workers, W!Steal(w), loop_i[w] # thread_count_,
         ~(loop_i[w] = w \/ local_queues_[loop_i[w]] = <<>>)
  PROVE  LET v == loop_i[w]  q == local_queues_[loop_i[w]] IN
         /\ v \in W!Workers /\ q \in Seq(Coros) /\ Len(q) \in Nat \ {0}
         /\ Head(q) \in Coros /\ Head(q) = q[1]
         /\ Tail(q) \in Seq(Coros) /\ Len(Tail(q)) = Len(q) - 1
         /\ \A e \in 1 .. Len(q) - 1 : Tail(q)[e] = q[e + 1]
         /\ task' = [task EXCEPT ![w] = Head(q)]
         /\ local_queues_' = [local_queues_ EXCEPT ![v] = Tail(q)]
         /\ pc' = [pc EXCEPT ![w] = "run"]
         /\ loop_i' = [loop_i EXCEPT ![w] = 0]
         /\ pc[w] = "steal"
         /\ UNCHANGED <<running_, cv_mutex_, min_idx, min_size, stopping, life, yields>>
<1> DEFINE q == local_queues_[loop_i[w]]
<1>1. loop_i[w] \in W!Workers
  <2>1. loop_i[w] \in 0 .. thread_count_
    BY Names, Zenon DEF Typed
  <2> QED
    BY <2>1, Names, SMTT(30) DEF W!Workers
<1>2. q \in Seq(Coros) /\ q # <<>>
  BY <1>1, Zenon DEF Typed
<1>3. Len(q) \in Nat \ {0} /\ Head(q) \in Coros /\ Head(q) = q[1] /\ Tail(q) \in Seq(Coros)
      /\ Len(Tail(q)) = Len(q) - 1 /\ \A e \in 1 .. Len(q) - 1 : Tail(q)[e] = q[e + 1]
  BY <1>2
<1> QED
  BY <1>1, <1>2, <1>3, Zenon DEF W!Steal

LEMMA TypeSteal ==
  ASSUME W!SchedulerAssumption, Typed, NEW w \in W!Workers, W!Steal(w)
  PROVE  Typed'
<1>1. CASE loop_i[w] = thread_count_
  BY <1>1, Names, TypeMove, Zenon DEF W!Steal, Typed, Pcs
<1>2. CASE loop_i[w] # thread_count_ /\ (loop_i[w] = w \/ local_queues_[loop_i[w]] = <<>>)
  <2>0. loop_i[w] \in 0 .. thread_count_ /\ w \in W!Procs
    BY Names, Zenon DEF Typed
  <2>1. loop_i[w] + 1 \in 0 .. thread_count_ /\ loop_i' = [loop_i EXCEPT ![w] = loop_i[w] + 1]
    BY <1>2, <2>0, Names, SMTT(30) DEF W!Steal
  <2>2. pc' = [pc EXCEPT ![w] = "steal"] /\ pc[w] = "steal"
    BY <1>2, ZenonT(30) DEF W!Steal, Typed
  <2> QED
    BY <1>2, <2>0, <2>1, <2>2, TypeMove, ZenonT(60) DEF W!Steal, Typed, Pcs
<1>3. CASE loop_i[w] # thread_count_ /\ ~(loop_i[w] = w \/ local_queues_[loop_i[w]] = <<>>)
  <2> DEFINE v == loop_i[w]
             c == Head(local_queues_[v])
             rest == Tail(local_queues_[v])
  <2>1. /\ v \in W!Workers /\ c \in Coros /\ rest \in Seq(Coros)
        /\ task' = [task EXCEPT ![w] = c] /\ pc' = [pc EXCEPT ![w] = "run"]
        /\ local_queues_' = [local_queues_ EXCEPT ![v] = rest] /\ loop_i' = [loop_i EXCEPT ![w] = 0]
        /\ UNCHANGED <<running_, cv_mutex_, min_idx, min_size, stopping, life, yields>>
    BY <1>3, StealCases, Zenon
  <2> HIDE DEF v, c, rest
  <2> QED
    BY <2>1, TypeTake, Zenon
<1> QED
  BY <1>1, <1>2, <1>3, Zenon

LEMMA TypeTest ==
  ASSUME W!SchedulerAssumption, Typed, NEW w \in W!Workers, W!Test(w)
  PROVE  Typed'
<1> DEFINE holds == (loop_i[w] = 0 /\ ~running_) \/ local_queues_[loop_i[w]] # <<>>
           next == IF holds THEN "loop"
                   ELSE IF loop_i[w] + 1 < thread_count_ THEN "test" ELSE "block"
           k == IF next = "test" THEN loop_i[w] + 1 ELSE 0
<1>1. pc[w] = "test" /\ loop_i[w] \in W!Workers /\ w \in W!Procs
  BY Names, Zenon DEF W!Test, Typed, PcInv
<1>2. pc' = [pc EXCEPT ![w] = next] /\ loop_i' = [loop_i EXCEPT ![w] = k]
      /\ cv_mutex_' \in W!Workers \cup {None}
      /\ UNCHANGED <<local_queues_, running_, task, min_idx, min_size, stopping, life, yields>>
  BY Zenon DEF W!Test
<1> HIDE DEF holds
<1>3. next \in {"loop", "test", "block"} /\ (next = "test" => loop_i[w] + 1 < thread_count_)
  BY Zenon
<1> HIDE DEF next
<1>4. k \in 0 .. thread_count_ /\ (next = "test" => k \in W!Workers) /\ (next # "test" => k = 0)
  BY <1>1, <1>3, Names DEF W!Workers
<1> HIDE DEF k
<1>5. next \in Pcs /\ next \notin {"scan", "push", "run", "steal"}
  BY <1>3, Zenon DEF Pcs
<1> QED
  BY <1>1, <1>2, <1>4, <1>5, TypeMove, Zenon

LEMMA TypeWaiting ==
  ASSUME W!SchedulerAssumption, Typed, NEW w \in W!Workers,
         W!Loop(w) \/ W!Lock(w) \/ W!Block(w) \/ W!Timeout(w) \/ W!SpuriousWakeup(w)
  PROVE  Typed'
<1>1. w \in W!Procs /\ 0 \in W!Workers /\ 0 \in 0 .. thread_count_
  BY Names, Zenon
<1>2. pc[w] \in {"loop", "wait", "woken", "block", "blocked"}
  BY Zenon DEF W!Loop, W!Lock, W!Block, W!Timeout, W!SpuriousWakeup
<1>3. loop_i[w] = 0 /\ loop_i \in [W!Procs -> 0 .. thread_count_]
  BY <1>1, <1>2, Zenon DEF Typed, PcInv
<1>4. loop_i' = [loop_i EXCEPT ![w] = 0]
  BY <1>3, Zenon DEF W!Loop, W!Lock, W!Block, W!Timeout, W!SpuriousWakeup, W!local
<1>5. PICK q \in {"pop", "exit", "test", "blocked", "loop", "woken"} : pc' = [pc EXCEPT ![w] = q]
  BY Zenon DEF W!Loop, W!Lock, W!Block, W!Timeout, W!SpuriousWakeup
<1>6. cv_mutex_' \in W!Workers \cup {None}
      /\ UNCHANGED <<local_queues_, running_, task, min_idx, min_size, stopping, life, yields>>
  BY Zenon DEF W!Loop, W!Lock, W!Block, W!Timeout, W!SpuriousWakeup, W!local, Typed
<1>7. q \in Pcs /\ q \notin {"scan", "push", "run", "steal"}
  BY Zenon DEF Pcs
<1> QED
  BY <1>1, <1>2, <1>4, <1>5, <1>6, <1>7, TypeMove, Zenon

LEMMA TypeStop == ASSUME W!SchedulerAssumption, Typed, W!StopNext PROVE Typed'
<1>1. CASE W!StopStore
  <2>1. running_' \in BOOLEAN
    BY <1>1, Zenon DEF W!StopStore
  <2>2. UNCHANGED <<local_queues_, cv_mutex_, pc, task, loop_i, min_idx, min_size, life, yields>>
        /\ stopping' = "stored"
    BY <1>1, Zenon DEF W!StopStore, W!local
  <2> QED
    BY <2>1, <2>2, Zenon DEF Typed, PcInv
<1>2. CASE W!StopNotify
  <2>1. pc' \in [W!Procs -> Pcs]
    BY <1>2, Zenon DEF W!StopNotify, Typed, Pcs
  <2>2. PcInv'
    BY <1>2, Zenon DEF W!StopNotify, W!Blocked, W!local, Typed, PcInv
  <2> QED
    BY <1>2, <2>1, <2>2, Zenon DEF W!StopNotify, W!local, Typed
<1>3. CASE W!StopJoin
  BY <1>3, Zenon DEF W!StopJoin, W!local, Typed, PcInv
<1> QED
  BY <1>1, <1>2, <1>3, Zenon DEF W!StopNext

LEMMA TypeNext == ASSUME W!SchedulerAssumption PROVE Typed /\ [W!Next]_W!vars => Typed'
<1> SUFFICES ASSUME Typed, [W!Next]_W!vars PROVE Typed'
  BY Zenon
<1>1. CASE \E p \in W!Procs : W!ScheduleStep(p)
  BY <1>1, TypeScan, TypePush, TypeNotify, Zenon DEF W!ScheduleStep
<1>2. CASE \E p \in Clients, c \in Coros, k \in W!ThreadIds : W!ClientSchedules(p, c, k)
  BY <1>2, TypeClientSchedules, Zenon
<1>3. CASE \E w \in W!Workers : W!WorkerStep(w) \/ W!SpuriousWakeup(w)
  BY <1>3, TypePop, TypeSteal, TypeFinish, TypeYield, TypeTest, TypeWaiting, Zenon DEF W!WorkerStep
<1>4. CASE W!StopNext
  BY <1>4, TypeStop, Zenon
<1>5. CASE UNCHANGED W!vars
  BY <1>5, Zenon DEF W!vars, Typed, PcInv
<1> QED
  BY <1>1, <1>2, <1>3, <1>4, <1>5, Zenon DEF W!Next, W!WorkNext

-----------------------------------------------------------------------------
(* A handle is in one place *)

Held(p, c) == task[p] = c
Queued(w, e, c) == e \in 1 .. Len(local_queues_[w]) /\ local_queues_[w][e] = c

\* OnePlace for c, place by place.
One(c) ==
  /\ life[c] = "live" <=> \/ \E p \in W!Procs : Held(p, c)
                          \/ \E w \in W!Workers, e \in Nat : Queued(w, e, c)
  /\ \A p, q \in W!Procs : Held(p, c) /\ Held(q, c) => p = q
  /\ \A p \in W!Procs, w \in W!Workers, e \in Nat : ~(Held(p, c) /\ Queued(w, e, c))
  /\ \A v, w \in W!Workers, m, e \in Nat : Queued(v, m, c) /\ Queued(w, e, c) => v = w /\ m = e

LEMMA OneIsOnePlace ==
  ASSUME W!SchedulerAssumption, Typed, \A c \in Coros : One(c)
  PROVE  W!OnePlace
<1> SUFFICES ASSUME NEW c \in Coros
             PROVE  IF life[c] = "live" THEN \E x \in W!Places(c) : W!Places(c) = {x} ELSE W!Places(c) = {}
  BY Zenon DEF W!OnePlace
<1>1. \A x : x \in W!Places(c) <=> \/ \E p \in W!Procs : Held(p, c) /\ x = <<p, 0>>
                                   \/ \E w \in W!Workers, e \in Nat : Queued(w, e, c) /\ x = <<w, e>>
  <2>1. \A w \in W!Workers, e \in Nat : e \in W!Positions(c, w) <=> Queued(w, e, c)
    <3> SUFFICES ASSUME NEW w \in W!Workers, NEW e \in Nat PROVE e \in W!Positions(c, w) <=> Queued(w, e, c)
      BY Zenon
    <3>1. local_queues_[w] \in Seq(Coros)
      BY Zenon DEF Typed
    <3> QED
      BY <3>1 DEF W!Positions, Queued
  <2>2. \A w \in W!Workers : W!Positions(c, w) \subseteq Nat
    <3> SUFFICES ASSUME NEW w \in W!Workers PROVE W!Positions(c, w) \subseteq Nat
      BY Zenon
    <3>1. local_queues_[w] \in Seq(Coros)
      BY Zenon DEF Typed
    <3> QED
      BY <3>1 DEF W!Positions
  <2>3. \A x : x \in W!Places(c) <=> \/ \E p \in W!Procs : Held(p, c) /\ x = <<p, 0>>
                                     \/ \E w \in W!Workers : \E e \in W!Positions(c, w) : x = <<w, e>>
    <3> DEFINE Hands == {<<p, 0>> : p \in {q \in W!Procs : task[q] = c}}
               Row(w) == {<<w, e>> : e \in W!Positions(c, w)}
    <3>1. \A x : x \in Hands <=> \E p \in W!Procs : Held(p, c) /\ x = <<p, 0>>
      BY Zenon DEF Held
    <3>2. \A w \in W!Workers : \A x : x \in Row(w) <=> \E e \in W!Positions(c, w) : x = <<w, e>>
      BY Zenon
    <3> HIDE DEF Row
    <3>3. \A x : x \in UNION {Row(w) : w \in W!Workers} <=> \E w \in W!Workers : x \in Row(w)
      BY Zenon
    <3>4. W!Places(c) = Hands \cup UNION {Row(w) : w \in W!Workers}
      BY Zenon DEF W!Places, Row
    <3> HIDE DEF Hands
    <3> QED
      BY <3>1, <3>2, <3>3, <3>4, SMTT(30)
  <2> QED
    BY <2>1, <2>2, <2>3, ZenonT(30)
<1>2. CASE life[c] # "live"
  <2>1. \A x : x \notin W!Places(c)
    BY <1>1, <1>2, Zenon DEF One
  <2> QED
    BY <1>2, <2>1, Zenon
<1>3. CASE life[c] = "live"
  <2>1. ASSUME NEW p \in W!Procs, Held(p, c) PROVE \E x \in W!Places(c) : W!Places(c) = {x}
    <3>1. <<p, 0>> \in W!Places(c)
      BY <1>1, <2>1, Zenon
    <3>2. \A x \in W!Places(c) : x = <<p, 0>>
      BY <1>1, <2>1, ZenonT(30) DEF One
    <3> QED
      BY <3>1, <3>2, Zenon
  <2>2. ASSUME NEW w \in W!Workers, NEW e \in Nat, Queued(w, e, c)
        PROVE  \E x \in W!Places(c) : W!Places(c) = {x}
    <3>1. <<w, e>> \in W!Places(c)
      BY <1>1, <2>2, Zenon
    <3>2. \A x \in W!Places(c) : x = <<w, e>>
      BY <1>1, <2>2 DEF One
    <3> QED
      BY <3>1, <3>2, Zenon
  <2>3. (\E p \in W!Procs : Held(p, c)) \/ \E w \in W!Workers, e \in Nat : Queued(w, e, c)
    BY <1>3, Zenon DEF One
  <2> QED
    BY <1>3, <2>1, <2>2, <2>3, Zenon
<1> QED
  BY <1>2, <1>3, Zenon

\* A step after which c is where it was.
LEMMA OneSame ==
  ASSUME W!SchedulerAssumption, NEW c, One(c), life'[c] = life[c],
         \A p \in W!Procs : Held(p, c)' <=> Held(p, c),
         \A w \in W!Workers, e \in Nat : Queued(w, e, c)' <=> Queued(w, e, c)
  PROVE  One(c)'
BY ZenonT(30) DEF One

LEMMA Predecessor == \A e \in Nat : e # 0 => \E m \in Nat : e = m + 1
<1> SUFFICES ASSUME NEW e \in Nat, e # 0 PROVE \E m \in Nat : e = m + 1
  BY Zenon
<1> WITNESS e - 1 \in Nat
<1> QED
  OBVIOUS

LEMMA Successor == \A m, e \in Nat : m + 1 \in Nat /\ (m + 1 = e + 1 => m = e)
OBVIOUS

\* A step after which c is one place further to the front of queue v.
LEMMA OneShifted ==
  ASSUME W!SchedulerAssumption, NEW c, NEW v \in W!Workers, One(c), life'[c] = life[c],
         \A p \in W!Procs : Held(p, c)' <=> Held(p, c),
         \A w \in W!Workers \ {v}, e \in Nat : Queued(w, e, c)' <=> Queued(w, e, c),
         \A e \in Nat : Queued(v, e, c)' <=> Queued(v, e + 1, c),
         ~Queued(v, 0, c)
  PROVE  One(c)'
<1>1. ASSUME NEW e \in Nat, Queued(v, e, c) PROVE \E m \in Nat : e = m + 1 /\ Queued(v, m, c)'
  <2>1. PICK m \in Nat : e = m + 1
    <3>1. e # 0
      BY <1>1, Zenon
    <3> QED
      BY <3>1, Predecessor, Zenon
  <2>2. Queued(v, m + 1, c)
    BY <1>1, <2>1, Zenon
  <2> QED
    BY <2>1, <2>2, Zenon
<1>2. \A m \in Nat : Queued(v, m, c)' => m + 1 \in Nat /\ Queued(v, m + 1, c)
  BY Successor, Zenon
<1>3. (\E w \in W!Workers, e \in Nat : Queued(w, e, c)') <=> \E w \in W!Workers, e \in Nat : Queued(w, e, c)
  <2>1. ASSUME NEW w \in W!Workers, NEW e \in Nat, Queued(w, e, c)'
        PROVE  \E u \in W!Workers, m \in Nat : Queued(u, m, c)
    BY <1>2, <2>1, ZenonT(30)
  <2>2. ASSUME NEW w \in W!Workers, NEW e \in Nat, Queued(w, e, c)
        PROVE  \E u \in W!Workers, m \in Nat : Queued(u, m, c)'
    BY <1>1, <2>2, ZenonT(30)
  <2> QED
    BY <2>1, <2>2, Zenon
<1>4. ASSUME NEW p \in W!Procs, NEW w \in W!Workers, NEW e \in Nat PROVE ~(Held(p, c)' /\ Queued(w, e, c)')
  <2>1. Queued(w, e, c)' => \E m \in Nat : Queued(w, m, c)
    <3>1. Queued(v, e, c)' => \E m \in Nat : Queued(v, m, c)
      BY <1>2, Zenon
    <3>2. CASE w = v
      BY <3>1, <3>2, Zenon
    <3>3. CASE w # v
      BY <3>3, Zenon
    <3> QED
      BY <3>2, <3>3, Zenon
  <2> QED
    BY <2>1, Zenon DEF One
<1>5. ASSUME NEW u \in W!Workers, NEW w \in W!Workers, NEW m \in Nat, NEW e \in Nat,
             Queued(u, m, c)', Queued(w, e, c)'
      PROVE  u = w /\ m = e
  <2>1. /\ u = v => m + 1 \in Nat /\ Queued(u, m + 1, c)
        /\ u # v => Queued(u, m, c)
    <3>1. Queued(v, m, c)' => m + 1 \in Nat /\ Queued(v, m + 1, c)
      BY <1>2, Zenon
    <3>2. u # v => (Queued(u, m, c)' <=> Queued(u, m, c))
      BY Zenon
    <3> QED
      BY <1>5, <3>1, <3>2, Zenon
  <2>2. /\ w = v => e + 1 \in Nat /\ Queued(w, e + 1, c)
        /\ w # v => Queued(w, e, c)
    <3>1. Queued(v, e, c)' => e + 1 \in Nat /\ Queued(v, e + 1, c)
      BY <1>2, Zenon
    <3>2. w # v => (Queued(w, e, c)' <=> Queued(w, e, c))
      BY Zenon
    <3> QED
      BY <1>5, <3>1, <3>2, Zenon
  <2>3. u = w
    BY <2>1, <2>2, ZenonT(60) DEF One
  <2>4. m = e \/ m + 1 = e + 1
    BY <2>1, <2>2, <2>3, Zenon DEF One
  <2> QED
    BY <2>3, <2>4, Successor, ZenonT(30)
<1>6. /\ (life'[c] = "live" <=> life[c] = "live")
      /\ \A p \in W!Procs : Held(p, c)' <=> Held(p, c)
  BY Zenon
<1> QED
  BY <1>3, <1>4, <1>5, <1>6, ZenonT(30) DEF One

\* A step after which c is in the hand of h only.
LEMMA OneHeld ==
  ASSUME W!SchedulerAssumption, NEW c, NEW h \in W!Procs, life'[c] = "live", Held(h, c)',
         \A p \in W!Procs : Held(p, c)' => p = h,
         \A w \in W!Workers, e \in Nat : ~Queued(w, e, c)'
  PROVE  One(c)'
BY Zenon DEF One

\* A step after which c is at one position of one queue only.
LEMMA OneQueued ==
  ASSUME W!SchedulerAssumption, NEW c, NEW v \in W!Workers, NEW k \in Nat, life'[c] = "live", Queued(v, k, c)',
         \A p \in W!Procs : ~Held(p, c)',
         \A w \in W!Workers, e \in Nat : Queued(w, e, c)' => w = v /\ e = k
  PROVE  One(c)'
BY Zenon DEF One

\* A step after which c is nowhere.
LEMMA OneNowhere ==
  ASSUME W!SchedulerAssumption, NEW c, life'[c] # "live",
         \A p \in W!Procs : ~Held(p, c)',
         \A w \in W!Workers, e \in Nat : ~Queued(w, e, c)'
  PROVE  One(c)'
BY Zenon DEF One

-----------------------------------------------------------------------------
LEMMA OnePush ==
  ASSUME W!SchedulerAssumption, Typed, NEW p \in W!Procs, W!Push(p), NEW c \in Coros, One(c)
  PROVE  One(c)'
<1>1. PICK x \in Coros, v \in W!Workers : x = task[p] /\ v = min_idx[p]
  BY Names, ZenonT(30) DEF W!Push, Typed, PcInv
<1>2. local_queues_[v] \in Seq(Coros) /\ None \notin Coros
  BY Names, Zenon DEF Typed
<1>3. PICK k \in Nat \ {0} : k = Len(local_queues_[v]) + 1
  BY <1>2
<1>4. local_queues_' = [local_queues_ EXCEPT ![v] = Append(local_queues_[v], x)]
      /\ task' = [task EXCEPT ![p] = None] /\ life' = life
  BY <1>1, Zenon DEF W!Push
<1>5. Len(local_queues_'[v]) = k /\ local_queues_'[v][k] = x
      /\ \A e \in 1 .. Len(local_queues_[v]) : local_queues_'[v][e] = local_queues_[v][e]
  <2>1. local_queues_'[v] = Append(local_queues_[v], x)
    BY <1>2, <1>4, Zenon DEF Typed
  <2> QED
    BY <1>2, <1>3, <2>1, SMTT(30)
<1>6. \A q \in W!Procs : Held(q, c)' <=> Held(q, c) /\ q # p
  BY <1>2, <1>4, Zenon DEF Held, Typed
<1>7. \A w \in W!Workers \ {v}, e \in Nat : Queued(w, e, c)' <=> Queued(w, e, c)
  BY <1>4, Zenon DEF Queued, Typed
<1>8. ~Queued(v, k, c)
  BY <1>2, <1>3, SMTT(30) DEF Queued
<1>9. \A e \in Nat : Queued(v, e, c)' <=> Queued(v, e, c) \/ (e = k /\ c = x)
  <2>1. Len(local_queues_[v]) \in Nat /\ k = Len(local_queues_[v]) + 1
    BY <1>2, <1>3
  <2>2. \A e \in Nat : e \in 1 .. k <=> e \in 1 .. Len(local_queues_[v]) \/ e = k
    BY <2>1, SMTT(30)
  <2> QED
    BY <1>5, <2>2, <1>8, Zenon DEF Queued
<1>10. Held(p, c) <=> c = x
  BY <1>1, Zenon DEF Held
<1>11. CASE c # x
  BY <1>2, <1>4, <1>6, <1>7, <1>9, <1>10, <1>11, OneSame, ZenonT(30)
<1>12. CASE c = x
  <2>1. life[c] = "live" /\ (\A q \in W!Procs : Held(q, c) => q = p)
        /\ \A w \in W!Workers, e \in Nat : ~Queued(w, e, c)
    BY <1>10, <1>12, Zenon DEF One
  <2>2. life'[c] = "live" /\ Queued(v, k, c)' /\ \A q \in W!Procs : ~Held(q, c)'
    BY <1>4, <1>6, <1>9, <1>12, <2>1, ZenonT(30)
  <2>3. ASSUME NEW w \in W!Workers, NEW e \in Nat, Queued(w, e, c)' PROVE w = v /\ e = k
    BY <1>7, <1>9, <2>1, <2>3, Zenon
  <2> QED
    BY <2>2, <2>3, OneQueued, ZenonT(30)
<1> QED
  BY <1>11, <1>12, Zenon

LEMMA OnePop ==
  ASSUME W!SchedulerAssumption, Typed, NEW w \in W!Workers, W!Pop(w), NEW c \in Coros, One(c)
  PROVE  One(c)'
<1>1. CASE local_queues_[w] = <<>>
  BY <1>1, OneSame, Zenon DEF W!Pop, Held, Queued
<1>2. CASE local_queues_[w] # <<>>
  <2> DEFINE q == local_queues_[w]
             k == Len(q)
             x == q[k]
  <2>1. /\ k \in Nat \ {0} /\ x \in Coros /\ Len(local_queues_'[w]) = k - 1
        /\ \A e \in 1 .. k - 1 : local_queues_'[w][e] = q[e]
    <3>1. local_queues_'[w] = SubSeq(q, 1, Len(q) - 1)
      BY <1>2, PopCases, SMTT(30) DEF Typed
    <3> QED
      BY <1>2, <3>1, PopCases, ZenonT(30)
  <2>2. task' = [task EXCEPT ![w] = x] /\ life' = life /\ pc[w] = "pop"
        /\ \A v \in W!Workers \ {w} : local_queues_'[v] = local_queues_[v]
    <3>1. /\ task' = [task EXCEPT ![w] = x] /\ life' = life /\ pc[w] = "pop"
          /\ local_queues_' = [local_queues_ EXCEPT ![w] = SubSeq(q, 1, Len(q) - 1)]
      BY <1>2, PopCases, ZenonT(30)
    <3>2. DOMAIN local_queues_ = W!Workers
      BY Zenon DEF Typed
    <3> QED
      BY <3>1, <3>2, ZenonT(30)
  <2>3. w \in W!Procs /\ task[w] = None /\ None \notin Coros
    BY <2>2, Names, Zenon DEF Typed, PcInv
  <2>4. \A p \in W!Procs : Held(p, c)' <=> Held(p, c) \/ (p = w /\ c = x)
    BY <2>2, <2>3, ZenonT(30) DEF Held, Typed
  <2>5. \A v \in W!Workers \ {w}, e \in Nat : Queued(v, e, c)' <=> Queued(v, e, c)
    BY <2>2, Zenon DEF Queued
  <2>6. \A e \in Nat : Queued(w, e, c)' <=> Queued(w, e, c) /\ e # k
    BY <2>1, SMTT(30) DEF Queued
  <2>7. Queued(w, k, c) <=> c = x
    BY <2>1, SMTT(30) DEF Queued
  <2> HIDE DEF k, x
  <2>8. CASE c # x
    BY <2>1, <2>2, <2>4, <2>5, <2>6, <2>7, <2>8, OneSame, ZenonT(30)
  <2>9. CASE c = x
    <3>1. life[c] = "live" /\ (\A p \in W!Procs : ~Held(p, c))
          /\ \A v \in W!Workers, e \in Nat : Queued(v, e, c) => v = w /\ e = k
      BY <2>1, <2>7, <2>9, Zenon DEF One
    <3> QED
      BY <2>2, <2>3, <2>4, <2>5, <2>6, <2>9, <3>1, OneHeld, ZenonT(30)
  <2> QED
    BY <2>8, <2>9, Zenon
<1> QED
  BY <1>1, <1>2, ZenonT(30)

LEMMA OneSteal ==
  ASSUME W!SchedulerAssumption, Typed, NEW w \in W!Workers, W!Steal(w), NEW c \in Coros, One(c)
  PROVE  One(c)'
<1>1. CASE loop_i[w] = thread_count_ \/ loop_i[w] = w \/ local_queues_[loop_i[w]] = <<>>
  BY <1>1, OneSame, Zenon DEF W!Steal, Held, Queued
<1>2. CASE loop_i[w] # thread_count_ /\ ~(loop_i[w] = w \/ local_queues_[loop_i[w]] = <<>>)
  <2>1. PICK v \in W!Workers : v = loop_i[w]
    BY <1>2, StealCases, Zenon
  <2> DEFINE q == local_queues_[v]
             x == Head(q)
  <2>2. local_queues_' = [local_queues_ EXCEPT ![v] = Tail(q)]
    BY <1>2, <2>1, StealCases, Zenon
  <2>3. /\ Len(q) \in Nat \ {0} /\ x \in Coros /\ x = q[1] /\ Len(local_queues_'[v]) = Len(q) - 1
        /\ \A e \in 1 .. Len(q) - 1 : local_queues_'[v][e] = q[e + 1]
    <3>1. local_queues_'[v] = Tail(q)
      BY <2>2, Zenon DEF Typed
    <3> QED
      BY <1>2, <2>1, <3>1, StealCases, SMTT(30)
  <2>4. task' = [task EXCEPT ![w] = x] /\ life' = life /\ pc[w] = "steal"
        /\ \A u \in W!Workers \ {v} : local_queues_'[u] = local_queues_[u]
    BY <1>2, <2>1, <2>2, StealCases, ZenonT(30) DEF Typed
  <2>5. w \in W!Procs /\ task[w] = None /\ None \notin Coros
    BY <2>4, Names, ZenonT(30) DEF Typed, PcInv
  <2>6. \A p \in W!Procs : Held(p, c)' <=> Held(p, c) \/ (p = w /\ c = x)
    BY <2>4, <2>5, Zenon DEF Held, Typed
  <2>7. \A u \in W!Workers \ {v}, e \in Nat : Queued(u, e, c)' <=> Queued(u, e, c)
    BY <2>4, ZenonT(30) DEF Queued
  <2>8. \A e \in Nat \ {0} : Queued(v, e, c)' <=> Queued(v, e + 1, c)
    <3> SUFFICES ASSUME NEW e \in Nat \ {0} PROVE Queued(v, e, c)' <=> Queued(v, e + 1, c)
      BY Zenon
    <3>1. PICK size \in Nat \ {0} : size = Len(q)
      BY <2>3, Zenon
    <3>2. e \in 1 .. size - 1 <=> e + 1 \in 1 .. size
      OBVIOUS
    <3> QED
      BY <2>3, <3>1, <3>2, Zenon DEF Queued
  <2>9. (Queued(v, 1, c) <=> c = x) /\ ~Queued(v, 0, c) /\ ~Queued(v, 0, c)'
    BY <2>3, SMTT(30) DEF Queued
  <2> HIDE DEF x
  <2>10. CASE c # x
    <3>1. \A e \in Nat : Queued(v, e, c)' <=> Queued(v, e + 1, c)
      BY <2>8, <2>9, <2>10
    <3> QED
      BY <2>2, <2>4, <2>6, <2>7, <2>9, <2>10, <3>1, OneShifted, Zenon
  <2>11. CASE c = x
    <3>1. life[c] = "live" /\ (\A p \in W!Procs : ~Held(p, c))
          /\ \A u \in W!Workers, e \in Nat : Queued(u, e, c) => u = v /\ e = 1
      BY <2>2, <2>9, <2>11, Zenon DEF One
    <3>2. ASSUME NEW e \in Nat PROVE ~Queued(v, e, c)'
      <4>1. CASE e = 0
        BY <2>9, <4>1, Zenon
      <4>2. CASE e # 0
        <5>1. e + 1 \in Nat /\ e + 1 # 1 /\ e \in Nat \ {0}
          BY <4>2
        <5>2. ~Queued(v, e + 1, c)
          BY <3>1, <5>1, Zenon
        <5> QED
          BY <2>8, <5>1, <5>2, Zenon
      <4> QED
        BY <4>1, <4>2, Zenon
    <3> QED
      BY <2>4, <2>5, <2>6, <2>7, <2>11, <3>1, <3>2, OneHeld, ZenonT(30)
  <2> QED
    BY <2>10, <2>11, Zenon
<1> QED
  BY <1>1, <1>2, Zenon

LEMMA OneClientSchedules ==
  ASSUME W!SchedulerAssumption, Typed, NEW p \in Clients, NEW x \in Coros, NEW k \in W!ThreadIds, W!ClientSchedules(p, x, k),
         NEW c \in Coros, One(c)
  PROVE  One(c)'
<1>1. p \in W!Procs /\ task[p] = None /\ life[x] = "new" /\ None \notin Coros
  BY Names, Zenon DEF W!ClientSchedules, Typed, PcInv
<1>2. task' = [task EXCEPT ![p] = x] /\ life' = [life EXCEPT ![x] = "live"]
      /\ local_queues_' = local_queues_
  BY Zenon DEF W!ClientSchedules, W!Enter
<1>3. \A q \in W!Procs : Held(q, c)' <=> Held(q, c) \/ (q = p /\ c = x)
  BY <1>1, <1>2, Zenon DEF Held, Typed
<1>4. \A w \in W!Workers, e \in Nat : Queued(w, e, c)' <=> Queued(w, e, c)
  BY <1>2, ZenonT(30) DEF Queued
<1>5. CASE c # x
  <2>1. life'[c] = life[c]
    BY <1>2, <1>5, Zenon DEF Typed
  <2> QED
    BY <1>3, <1>4, <1>5, <2>1, OneSame, Zenon
<1>6. CASE c = x
  <2>1. life'[c] = "live"
    BY <1>2, <1>6, Zenon DEF Typed
  <2>2. (\A q \in W!Procs : ~Held(q, c)) /\ \A w \in W!Workers, e \in Nat : ~Queued(w, e, c)
    BY <1>1, <1>6, Zenon DEF One
  <2> QED
    BY <1>1, <1>3, <1>4, <1>6, <2>1, <2>2, OneHeld, Zenon
<1> QED
  BY <1>5, <1>6, Zenon

LEMMA OneFinish ==
  ASSUME W!SchedulerAssumption, Typed, NEW w \in W!Workers, W!Finish(w), NEW c \in Coros, One(c)
  PROVE  One(c)'
<1>1. PICK x \in Coros : x = task[w]
  BY Names, ZenonT(30) DEF W!Finish, Typed, PcInv
<1>2. w \in W!Procs /\ None \notin Coros
  BY Names, Zenon
<1>3. task' = [task EXCEPT ![w] = None] /\ life' = [life EXCEPT ![x] = "done"]
      /\ local_queues_' = local_queues_
  BY <1>1, Zenon DEF W!Finish
<1>4. \A q \in W!Procs : Held(q, c)' <=> Held(q, c) /\ q # w
  BY <1>2, <1>3, Zenon DEF Held, Typed
<1>5. \A v \in W!Workers, e \in Nat : Queued(v, e, c)' <=> Queued(v, e, c)
  BY <1>3, Zenon DEF Queued
<1>6. Held(w, c) <=> c = x
  BY <1>1, Zenon DEF Held
<1>7. CASE c # x
  <2>1. life'[c] = life[c]
    BY <1>3, <1>7, Zenon DEF Typed
  <2> QED
    BY <1>4, <1>5, <1>6, <1>7, <2>1, OneSame, Zenon
<1>8. CASE c = x
  <2>1. life'[c] = "done"
    BY <1>3, <1>8, Zenon DEF Typed
  <2>2. (\A q \in W!Procs : Held(q, c) => q = w) /\ \A v \in W!Workers, e \in Nat : ~Queued(v, e, c)
    BY <1>2, <1>6, <1>8, Zenon DEF One
  <2> QED
    BY <1>4, <1>5, <2>1, <2>2, OneNowhere, Zenon
<1> QED
  BY <1>7, <1>8, Zenon

\* Steps that move no handle; a yield keeps it in the worker's hand.
LEMMA OneKept ==
  ASSUME W!SchedulerAssumption, NEW c, One(c), UNCHANGED <<task, local_queues_, life>>
  PROVE  One(c)'
BY OneSame, ZenonT(30) DEF Held, Queued

LEMMA YieldKeeps ==
  ASSUME W!SchedulerAssumption, Typed, NEW w \in W!Workers, NEW k \in W!ThreadIds, W!Yield(w, k)
  PROVE  UNCHANGED <<task, local_queues_, life>>
BY Names, Zenon DEF W!Yield, W!Enter, Typed

LEMMA OneNext ==
  ASSUME W!SchedulerAssumption, Typed, [W!Next]_W!vars, NEW c \in Coros, One(c)
  PROVE  One(c)'
<1>1. CASE \E p \in W!Procs : W!ScheduleStep(p)
  BY <1>1, OnePush, OneKept, Zenon DEF W!ScheduleStep, W!Scan, W!Notify
<1>2. CASE \E p \in Clients, x \in Coros, k \in W!ThreadIds : W!ClientSchedules(p, x, k)
  BY <1>2, OneClientSchedules, Zenon
<1>3. ASSUME NEW w \in W!Workers, W!WorkerStep(w) \/ W!SpuriousWakeup(w) PROVE One(c)'
  <2>1. CASE W!Loop(w) \/ W!Lock(w) \/ W!Test(w) \/ W!Block(w) \/ W!Timeout(w) \/ W!SpuriousWakeup(w)
    <3>1. UNCHANGED <<task, local_queues_, life>>
      BY <2>1, Zenon DEF W!Loop, W!Lock, W!Test, W!Block, W!Timeout, W!SpuriousWakeup
    <3> QED
      BY <3>1, OneKept, ZenonT(30)
  <2>2. CASE \E k \in W!ThreadIds : W!Yield(w, k)
    BY <2>2, YieldKeeps, OneKept, Zenon
  <2> QED
    BY <1>3, <2>1, <2>2, OnePop, OneSteal, OneFinish, ZenonT(30) DEF W!WorkerStep
<1>4. CASE W!StopNext
  BY <1>4, OneKept, Zenon DEF W!StopNext, W!StopStore, W!StopNotify, W!StopJoin
<1>5. CASE UNCHANGED W!vars
  BY <1>5, OneKept, Zenon DEF W!vars
<1> QED
  BY <1>1, <1>2, <1>3, <1>4, <1>5, Zenon DEF W!Next, W!WorkNext

-----------------------------------------------------------------------------
SchedInv == Typed /\ \A c \in Coros : One(c)

LEMMA SchedInvInit == ASSUME W!SchedulerAssumption PROVE W!Init => SchedInv
<1> SUFFICES ASSUME W!Init PROVE SchedInv
  BY Zenon
<1>1. ASSUME NEW c \in Coros PROVE One(c)
  BY Names DEF W!Init, One, Held, Queued
<1> QED
  BY <1>1, TypeInit, Zenon DEF SchedInv

LEMMA SchedInvNext == ASSUME W!SchedulerAssumption PROVE SchedInv /\ [W!Next]_W!vars => SchedInv'
<1> SUFFICES ASSUME SchedInv, [W!Next]_W!vars PROVE SchedInv'
  BY Zenon
<1>1. Typed'
  BY TypeNext, Zenon DEF SchedInv
<1>2. ASSUME NEW c \in Coros PROVE One(c)'
  BY OneNext, Zenon DEF SchedInv
<1> QED
  BY <1>1, <1>2, Zenon DEF SchedInv

LEMMA SchedInvAlways == ASSUME W!SchedulerAssumption PROVE W!Spec => []SchedInv
BY SchedInvInit, SchedInvNext, PTL DEF W!Spec

\* The queue schedule() has chosen exists when it pushes, a worker that
\* steals or counts pending handles looks at an existing queue, whatever
\* thread_id a caller passes and however many threads there are.
THEOREM SchedulerTypeCorrect == W!Spec => []W!TypeOK
<1>1. SchedInv => W!TypeOK
  BY TypedIsTypeOK, ConstantsAssumption, Zenon DEF SchedInv
<1> QED
  BY <1>1, SchedInvAlways, ConstantsAssumption, PTL

\* No handle is lost, duplicated or resumed by two workers, whatever pops,
\* steals and reschedules interleave, for any number of threads, clients and
\* coroutines and any number of yields.
THEOREM HandleInOnePlace == W!Spec => []OnePlace
<1>1. SchedInv => OnePlace
  BY OneIsOnePlace, ConstantsAssumption, Zenon DEF SchedInv, OnePlace
<1> QED
  BY <1>1, SchedInvAlways, ConstantsAssumption, PTL
=============================================================================
