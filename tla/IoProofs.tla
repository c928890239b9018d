------------------------------ MODULE IoProofs ------------------------------
(***************************************************************************)
(* A ring for any table size, queue depth and number of operations: a      *)
(* completion runs its own callback, and none is dropped.  The event loop  *)
(* for any number of tasks, coroutines and timers: tasks leave the queue   *)
(* in the order of their pushes and run unless one before them threw;      *)
(* timers never fire early, and in order.                                  *)
(***************************************************************************)
EXTENDS MCIo, TLAPS

LEMMA ConcatAssociative ==
  ASSUME NEW S, NEW s \in Seq(S), NEW t \in Seq(S), NEW u \in Seq(S)
  PROVE  (s \o t) \o u = s \o (t \o u)
BY SMTT(30)

LEMMA AppendIsConcat ==
  ASSUME NEW S, NEW seq \in Seq(S), NEW elt \in S
  PROVE  Append(seq, elt) = seq \o <<elt>>
OBVIOUS

Elems(s) == {s[i] : i \in DOMAIN s}

\* Everything between a prepare_*() and the moment its CQE is marked seen.
Entries == Elems(sq) \cup inflight \cup Elems(cq)

\* What the table promises an entry: its slot is that of its operation, and, as
\* long as it is not lapped, the slot still holds the operation, because fewer
\* than kMaxCallbacks have been prepared after it.
Kept(e) ==
  e.op # 0 =>
    /\ e.user_data = SlotOf(e.op)
    /\ e.op < next_callback_id_
    /\ e.op \notin lapped => /\ next_callback_id_ <= e.op + kMaxCallbacks
                             /\ callbacks_[SlotOf(e.op)] = e.op

\* While a callback runs, its CQE is still the first of the queue.
CallbackInv ==
  pc = "callback" =>
    /\ cq # <<>>
    /\ Head(cq).op \in lapped \cup {0} \/ <<Head(cq).op, Head(cq).op>> \in ran

-----------------------------------------------------------------------------
\* Fewer than k apart, two numbers have different remainders.
LEMMA Apart ==
  ASSUME NEW k \in Nat \ {0}, NEW n \in Nat, NEW m \in Nat, n < m, m < n + k
  PROVE  n % k # m % k
<1> DEFINE q == n \div k  r == m \div k
<1>1. q \in Int /\ r \in Int /\ n % k \in Int /\ m % k \in Int
  OBVIOUS
<1>2. n = k * q + (n % k) /\ m = k * r + (m % k)
  OBVIOUS
<1> HIDE DEF q, r
<1> SUFFICES ASSUME n % k = m % k PROVE FALSE
  BY Zenon
<1>3. k * (r - q) = m - n
  BY <1>1, <1>2
<1>4. CASE r - q <= 0
  <2>1. k * (r - q) <= 0
    BY <1>1, <1>4
  <2> QED
    BY <2>1, <1>3
<1>5. CASE r - q >= 1
  <2>1. k * (r - q) >= k
    BY <1>1, <1>5
  <2> QED
    BY <2>1, <1>3
<1> QED
  BY <1>1, <1>4, <1>5

LEMMA SlotInTable == \A n \in Nat : SlotOf(n) \in Slots
BY SizesAssumption DEF SlotOf, Slots

LEMMA OutstandingEntries ==
  Outstanding = {e.op : e \in Entries} /\ Outstanding' = {e.op : e \in Entries'}
BY Zenon DEF Outstanding, Entries, Elems, SeqOps

-----------------------------------------------------------------------------
SqEntry == [op : Ops, user_data : Slots]
Entry0 == [op : 0 .. MaxOps, user_data : Slots \cup Messages]

LEMMA ElemsAppend ==
  \A s \in Seq(Entry0), e \in Entry0 : Elems(Append(s, e)) = Elems(s) \cup {e}
<1> SUFFICES ASSUME NEW s \in Seq(Entry0), NEW e \in Entry0
             PROVE  Elems(Append(s, e)) = Elems(s) \cup {e}
  BY Zenon
<1>1. DOMAIN s = 1 .. Len(s) /\ DOMAIN Append(s, e) = 1 .. Len(s) + 1
  OBVIOUS
<1>2. \A i \in 1 .. Len(s) : Append(s, e)[i] = s[i]
  OBVIOUS
<1>3. Append(s, e)[Len(s) + 1] = e
  OBVIOUS
<1>4. Len(s) \in Nat /\ \A i \in 1 .. Len(s) + 1 : i \in 1 .. Len(s) \/ i = Len(s) + 1
  OBVIOUS
<1> QED
  BY <1>1, <1>2, <1>3, <1>4 DEF Elems

LEMMA ElemsTail ==
  \A s \in Seq(Entry0) : s # <<>> => Elems(s) = Elems(Tail(s)) \cup {Head(s)}
<1> SUFFICES ASSUME NEW s \in Seq(Entry0), s # <<>>
             PROVE  Elems(s) = Elems(Tail(s)) \cup {Head(s)}
  BY Zenon
<1>1. Len(s) \in Nat \ {0} /\ DOMAIN s = 1 .. Len(s) /\ DOMAIN Tail(s) = 1 .. Len(s) - 1
  OBVIOUS
<1>2. \A i \in 1 .. Len(s) - 1 : Tail(s)[i] = s[i + 1]
  OBVIOUS
<1>3. Head(s) = s[1]
  OBVIOUS
<1>4. Elems(s) \subseteq Elems(Tail(s)) \cup {Head(s)}
  <2> SUFFICES ASSUME NEW i \in 1 .. Len(s) PROVE s[i] \in Elems(Tail(s)) \cup {Head(s)}
    BY <1>1, Zenon DEF Elems
  <2>1. CASE i = 1
    BY <2>1, <1>3, Zenon
  <2>2. CASE i # 1
    <3>1. i - 1 \in 1 .. Len(s) - 1 /\ (i - 1) + 1 = i
      BY <2>2, <1>1
    <3>2. Tail(s)[i - 1] = s[i]
      BY <3>1, <1>2, Zenon
    <3> QED
      BY <3>1, <3>2, <1>1, Zenon DEF Elems
  <2> QED
    BY <2>1, <2>2, Zenon
<1>5. Elems(Tail(s)) \cup {Head(s)} \subseteq Elems(s)
  <2>1. \A i \in 1 .. Len(s) - 1 : i + 1 \in 1 .. Len(s)
    BY <1>1
  <2>2. 1 \in 1 .. Len(s)
    BY <1>1
  <2> QED
    BY <1>1, <1>2, <1>3, <2>1, <2>2, Zenon DEF Elems
<1> QED
  BY <1>4, <1>5, Zenon

\* TypeOK with the sets of entries named.
Typed ==
  /\ next_callback_id_ \in 1 .. MaxOps + 1
  /\ callbacks_ \in [Slots -> 0 .. MaxOps]
  /\ sq \in Seq(SqEntry) /\ Len(sq) <= queue_depth
  /\ inflight \subseteq SqEntry
  /\ timers \in 0 .. MaxTimers
  /\ cq \in Seq(Entry0)
  /\ messages \subseteq Messages
  /\ pc \in {"app", "wait", "drain", "callback", "dead"}
  /\ fails \in 0 .. MaxFails
  /\ ran \subseteq (0 .. MaxOps) \X Ops
  /\ lapped \subseteq Ops

LEMMA TypedIsTypeOK == (TypeOK <=> Typed) /\ (TypeOK' <=> Typed')
BY Zenon DEF TypeOK, Typed, SqEntry, Entry0

LEMMA NewEntries ==
  /\ SqEntry \subseteq Entry0
  /\ \A n \in Ops : Entry(n, SlotOf(n)) \in SqEntry
  /\ Timer \in Entry0
  /\ \A id \in Messages : Entry(0, id) \in Entry0
<1>1. Ops \subseteq 0 .. MaxOps /\ Ops \subseteq Nat /\ 0 \in 0 .. MaxOps /\ 0 \in Slots
  BY SizesAssumption DEF Ops, Slots
<1>2. SqEntry \subseteq Entry0
  BY <1>1, Zenon DEF SqEntry, Entry0
<1>3. \A n \in Ops : Entry(n, SlotOf(n)) \in SqEntry
  BY <1>1, SlotInTable, Zenon DEF Entry, SqEntry
<1>4. Timer \in Entry0 /\ \A id \in Messages : Entry(0, id) \in Entry0
  BY <1>1, Zenon DEF Entry, Timer, Entry0
<1> QED
  BY <1>2, <1>3, <1>4, Zenon

LEMMA Fields ==
  /\ \A e \in Entry0 : e.op \in 0 .. MaxOps /\ e.user_data \in Nat
  /\ \A e \in SqEntry : e.op \in Ops
  /\ \A n, id : Entry(n, id).op = n /\ Entry(n, id).user_data = id
<1>1. Slots \subseteq Nat /\ Messages \subseteq Nat
  BY SizesAssumption DEF Slots
<1> QED
  BY <1>1, Zenon DEF Entry0, SqEntry, Entry

LEMMA SeqSubset == \A s \in Seq(SqEntry) : s \in Seq(Entry0) /\ Elems(s) \subseteq SqEntry
<1> SUFFICES ASSUME NEW s \in Seq(SqEntry) PROVE s \in Seq(Entry0) /\ Elems(s) \subseteq SqEntry
  BY Zenon
<1>1. Len(s) \in Nat /\ DOMAIN s = 1 .. Len(s) /\ \A i \in 1 .. Len(s) : s[i] \in SqEntry
  OBVIOUS
<1>2. \A i \in 1 .. Len(s) : s[i] \in Entry0
  BY <1>1, NewEntries, Zenon
<1>3. s \in Seq(Entry0)
  BY <1>1, <1>2
<1> QED
  BY <1>1, <1>3, Zenon DEF Elems

LEMMA EntriesTyped == Typed => Entries \subseteq Entry0 /\ Outstanding \subseteq 0 .. MaxOps
<1> SUFFICES ASSUME Typed PROVE Entries \subseteq Entry0 /\ Outstanding \subseteq 0 .. MaxOps
  BY Zenon
<1>1. Elems(sq) \subseteq Entry0 /\ inflight \subseteq Entry0
  BY SeqSubset, NewEntries, Zenon DEF Typed
<1>2. Elems(cq) \subseteq Entry0
  BY DEF Typed, Elems
<1>3. Entries \subseteq Entry0
  BY <1>1, <1>2, Zenon DEF Entries
<1> QED
  BY <1>3, OutstandingEntries, Fields, Zenon

-----------------------------------------------------------------------------
(* Type correctness *)

LEMMA TypeInit == Init => Typed
BY SizesAssumption DEF Init, Typed, Slots

LEMMA TypePrepare ==
  ASSUME Typed, NEW n \in Ops, Prepare(n)
  PROVE  /\ next_callback_id_' \in 1 .. MaxOps + 1
         /\ callbacks_' \in [Slots -> 0 .. MaxOps]
         /\ lapped' \subseteq Ops
<1>1. n \in 1 .. MaxOps /\ n \in 0 .. MaxOps /\ n \in Nat /\ MaxOps \in Nat
  BY SizesAssumption DEF Ops
<1>2. next_callback_id_' \in 1 .. MaxOps + 1
  BY <1>1 DEF Prepare, SetCallback
<1>3. callbacks_' \in [Slots -> 0 .. MaxOps]
  BY <1>1, SlotInTable, Zenon DEF Prepare, SetCallback, Typed
<1>4. \A m \in Outstanding : m > 0 => m \in Ops
  BY EntriesTyped, SizesAssumption DEF Ops
<1>5. lapped' \subseteq Ops
  BY <1>4, Zenon DEF Prepare, SetCallback, Typed
<1> QED
  BY <1>2, <1>3, <1>5, Zenon

LEMMA TypeNext ==
  ASSUME Typed, CallbackInv, [Next]_vars
  PROVE  Typed'
<1> USE SizesAssumption
<1>0. Elems(sq) \subseteq SqEntry /\ <<>> \in Seq(SqEntry) /\ Len(<<>>) <= queue_depth
  BY SeqSubset DEF Typed
<1>1. ASSUME NEW n \in Ops, Operate(n) PROVE Typed'
  <2>1. Prepare(n)
    BY <1>1, Zenon DEF Operate
  <2>2. inflight' = inflight \cup Elems(sq) \cup {Entry(n, SlotOf(n))}
    BY <1>1, Zenon DEF Operate, Elems
  <2>3. inflight' \subseteq SqEntry
    BY <2>2, <1>0, NewEntries, Zenon DEF Typed
  <2> QED
    BY <1>0, <1>1, <2>1, <2>3, TypePrepare, Zenon DEF Operate, Typed
<1>2. ASSUME NEW n \in Ops, OperateFails(n) PROVE Typed'
  <2>1. Prepare(n)
    BY <1>2, Zenon DEF OperateFails
  <2>2. Len(sq) < queue_depth
    BY <2>1, Zenon DEF Prepare
  <2>3. sq' \in Seq(SqEntry) /\ Len(sq') <= queue_depth
    BY <1>2, <2>2, NewEntries DEF OperateFails, Typed
  <2>4. fails' \in 0 .. MaxFails
    BY <1>2 DEF OperateFails, Typed
  <2> QED
    BY <1>2, <2>1, <2>3, <2>4, TypePrepare, Zenon DEF OperateFails, Typed
<1>3. CASE RunOnce
  <2>1. inflight' = inflight \cup Elems(sq) \/ inflight' = inflight
    BY <1>3, Zenon DEF RunOnce, Elems
  <2>2. inflight' \subseteq SqEntry
    BY <2>1, <1>0, Zenon DEF Typed
  <2>3. sq' \in Seq(SqEntry) /\ Len(sq') <= queue_depth
    BY <1>3, <1>0, Zenon DEF RunOnce, Typed
  <2>4. timers' \in 0 .. MaxTimers
    BY <1>3 DEF RunOnce, Typed
  <2> QED
    BY <1>3, <2>2, <2>3, <2>4, Zenon DEF RunOnce, Typed
<1>4. CASE RunOnceThrows
  BY <1>4 DEF RunOnceThrows, Typed
<1>5. CASE Reap
  <2>1. cq # <<>> /\ Head(cq) \in Entry0 /\ Tail(cq) \in Seq(Entry0)
    BY <1>5 DEF Reap, Typed
  <2>2. cq' \in Seq(Entry0)
    BY <1>5, <2>1, Zenon DEF Reap, Typed
  <2>3. ran' \subseteq (0 .. MaxOps) \X Ops
    <3> DEFINE e == Head(cq)
    <3>1. CASE /\ HasCallback(e.user_data) /\ callbacks_[e.user_data] # 0
               /\ ran' = ran \cup {<<e.op, callbacks_[e.user_data]>>}
      <4>1. e.user_data \in Nat /\ e.op \in 0 .. MaxOps
        BY <2>1, Fields, Zenon
      <4>2. e.user_data \in Slots
        BY <3>1, <4>1 DEF HasCallback, Slots
      <4>3. callbacks_[e.user_data] \in Ops
        BY <3>1, <4>2 DEF Typed, Ops
      <4> QED
        BY <3>1, <4>1, <4>3 DEF Typed
    <3>2. CASE ran' = ran
      BY <3>2, Zenon DEF Typed
    <3> QED
      BY <1>5, <3>1, <3>2, Zenon DEF Reap
  <2>4. pc' \in {"drain", "dead", "callback"}
    BY <1>5, Zenon DEF Reap
  <2> QED
    BY <1>5, <2>2, <2>3, <2>4, Zenon DEF Reap, Typed
<1>6. CASE CallbackReturns
  <2>1. cq # <<>>
    BY <1>6, Zenon DEF CallbackReturns, CallbackInv
  <2>2. Tail(cq) \in Seq(Entry0)
    BY <2>1 DEF Typed
  <2> QED
    BY <1>6, <2>2, Zenon DEF CallbackReturns, Typed
<1>7. CASE RunOnceReturns
  BY <1>7, Zenon DEF RunOnceReturns, Typed
<1>8. CASE TimerFires
  <2>1. cq' \in Seq(Entry0)
    BY <1>8, NewEntries DEF TimerFires, Typed
  <2> QED
    BY <1>8, <2>1 DEF TimerFires, Typed
<1>9. ASSUME NEW e \in inflight, Complete(e) PROVE Typed'
  <2>1. cq' \in Seq(Entry0)
    BY <1>9, NewEntries DEF Complete, Typed
  <2> QED
    BY <1>9, <2>1, Zenon DEF Complete, Typed
<1>10. ASSUME NEW id \in messages, MessageArrives(id) PROVE Typed'
  <2>1. cq' \in Seq(Entry0)
    BY <1>10, NewEntries DEF MessageArrives, Typed
  <2> QED
    BY <1>10, <2>1, Zenon DEF MessageArrives, Typed
<1>11. CASE UNCHANGED vars
  BY <1>11, Zenon DEF vars, Typed
<1> QED
  BY <1>1, <1>2, <1>3, <1>4, <1>5, <1>6, <1>7, <1>8, <1>9, <1>10, <1>11, Zenon DEF Next, Loop, Kernel

-----------------------------------------------------------------------------
(* The table *)

AllKept == \A e \in Entries : Kept(e)

LEMMA EntriesPrepare ==
  ASSUME Typed, NEW n \in Ops, Operate(n) \/ OperateFails(n)
  PROVE  Entries' = Entries \cup {Entry(n, SlotOf(n))}
<1>1. CASE Operate(n)
  <2>1. inflight' = inflight \cup Elems(sq) \cup {Entry(n, SlotOf(n))} /\ sq' = <<>> /\ cq' = cq
    BY <1>1, Zenon DEF Operate, Elems
  <2>2. Elems(sq') = {}
    BY <2>1 DEF Elems
  <2> QED
    BY <2>1, <2>2, Zenon DEF Entries
<1>2. CASE OperateFails(n)
  <2>1. sq' = Append(sq, Entry(n, SlotOf(n))) /\ inflight' = inflight /\ cq' = cq
    BY <1>2, Zenon DEF OperateFails
  <2>2. Elems(sq') = Elems(sq) \cup {Entry(n, SlotOf(n))}
    BY <2>1, ElemsAppend, SeqSubset, NewEntries, Zenon DEF Typed
  <2> QED
    BY <2>1, <2>2, Zenon DEF Entries
<1> QED
  BY <1>1, <1>2, Zenon

LEMMA EntriesArrive ==
  ASSUME Typed, NEW e \in Entry0, cq' = Append(cq, e), sq' = sq, inflight' \in {inflight \ {e}, inflight}
  PROVE  Entries' = Entries \cup {e}
<1>1. Elems(cq') = Elems(cq) \cup {e}
  BY ElemsAppend, Zenon DEF Typed
<1> QED
  BY <1>1, Zenon DEF Entries

LEMMA EntriesSeen ==
  ASSUME Typed, cq # <<>>, cq' = Tail(cq), UNCHANGED <<sq, inflight>>
  PROVE  Entries = Entries' \cup {Head(cq)}
<1>1. Elems(cq) = Elems(cq') \cup {Head(cq)}
  BY ElemsTail, Zenon DEF Typed
<1> QED
  BY <1>1, Zenon DEF Entries

LEMMA EntriesSubmit ==
  ASSUME RunOnce
  PROVE  Entries' = Entries
<1>1. cq' = cq
  BY Zenon DEF RunOnce
<1>2. CASE sq' = <<>> /\ inflight' = inflight \cup Elems(sq)
  <2>1. Elems(sq') = {}
    BY <1>2 DEF Elems
  <2> QED
    BY <1>1, <1>2, <2>1, Zenon DEF Entries
<1>3. CASE UNCHANGED <<sq, inflight>>
  BY <1>1, <1>3, Zenon DEF Entries
<1> QED
  BY <1>2, <1>3, Zenon DEF RunOnce, Elems

\* A prepare_*() laps the one operation that is kMaxCallbacks older, and no other
\* loses its slot.
LEMMA KeptPrepare ==
  ASSUME Typed, AllKept, NEW n \in Ops, Prepare(n),
         Entries' = Entries \cup {Entry(n, SlotOf(n))}
  PROVE  AllKept'
<1>1. n \in Nat /\ n = next_callback_id_ /\ next_callback_id_' = n + 1 /\ kMaxCallbacks \in Nat \ {0}
  BY SizesAssumption DEF Ops, Prepare, SetCallback
<1>2. callbacks_' = [callbacks_ EXCEPT ![SlotOf(n)] = n] /\ callbacks_ \in [Slots -> 0 .. MaxOps]
  BY Zenon DEF Prepare, SetCallback, Typed
<1>3. lapped' = lapped \cup {m \in Outstanding : m > 0 /\ m = n - kMaxCallbacks}
  BY Zenon DEF Prepare, SetCallback
<1>4. ASSUME NEW e \in Entries, e.op # 0 PROVE Kept(e)'
  <2>1. e.op \in Nat /\ e.op \in Outstanding /\ e.op > 0
    BY <1>4, EntriesTyped, OutstandingEntries, Fields, SizesAssumption
  <2>2. e.user_data = SlotOf(e.op) /\ e.op < n
    BY <1>1, <1>4, Zenon DEF AllKept, Kept
  <2>3. ASSUME e.op \notin lapped'
        PROVE  n + 1 <= e.op + kMaxCallbacks /\ callbacks_'[SlotOf(e.op)] = e.op
    <3>1. e.op \notin lapped /\ e.op # n - kMaxCallbacks
      BY <2>1, <2>3, <1>3, Zenon
    <3>2. n <= e.op + kMaxCallbacks /\ callbacks_[SlotOf(e.op)] = e.op
      BY <3>1, <1>1, <1>4, Zenon DEF AllKept, Kept
    <3>3. n < e.op + kMaxCallbacks
      BY <3>1, <3>2, <1>1, <2>1
    <3>4. SlotOf(e.op) # SlotOf(n)
      BY <3>3, <2>1, <2>2, <1>1, Apart, Zenon DEF SlotOf
    <3>5. callbacks_'[SlotOf(e.op)] = callbacks_[SlotOf(e.op)]
      BY <3>4, <1>2, <2>1, SlotInTable, Zenon
    <3> QED
      BY <3>2, <3>3, <3>5, <1>1, <2>1
  <2>4. e.op < n + 1
    BY <2>1, <2>2, <1>1
  <2> QED
    BY <1>1, <2>2, <2>3, <2>4, Zenon DEF Kept
<1>5. Kept(Entry(n, SlotOf(n)))'
  <2>1. SlotOf(n) \in Slots
    BY <1>1, SlotInTable, Zenon
  <2>2. callbacks_'[SlotOf(n)] = n
    BY <2>1, <1>2, Zenon
  <2>3. n < n + 1 /\ n + 1 <= n + kMaxCallbacks
    BY <1>1
  <2> QED
    BY <1>1, <2>2, <2>3, Fields DEF Kept
<1> QED
  BY <1>4, <1>5, Zenon DEF AllKept, Kept

\* Other steps add no entry but timeouts and messages, and leave the table alone.
LEMMA KeptSame ==
  ASSUME AllKept, UNCHANGED <<next_callback_id_, callbacks_, lapped>>,
         \A e \in Entries' : e \in Entries \/ e.op = 0
  PROVE  AllKept'
BY Zenon DEF AllKept, Kept

\* What is outstanding stays so, except the completion that is marked seen.
LEMMA DroppedSame ==
  ASSUME NoneDropped, UNCHANGED <<next_callback_id_, lapped>>, ran \subseteq ran',
         Entries \subseteq Entries'
  PROVE  NoneDropped'
<1>1. Outstanding \subseteq Outstanding'
  BY OutstandingEntries, Zenon
<1> QED
  BY <1>1, Zenon DEF NoneDropped

\* The first CQE stays the first while more arrive.
LEMMA CallbackSame ==
  ASSUME Typed, CallbackInv, pc' = pc, ran' = ran, lapped \subseteq lapped',
         cq' = cq \/ \E e \in Entry0 : cq' = Append(cq, e)
  PROVE  CallbackInv'
<1> SUFFICES ASSUME pc = "callback"
             PROVE  cq' # <<>> /\ Head(cq') = Head(cq)
  BY Zenon DEF CallbackInv
<1>1. cq # <<>> /\ cq \in Seq(Entry0)
  BY Zenon DEF CallbackInv, Typed
<1>2. ASSUME NEW e \in Entry0 PROVE Append(cq, e) # <<>> /\ Head(Append(cq, e)) = Head(cq)
  BY <1>1
<1> QED
  BY <1>1, <1>2

Inv == Typed /\ AllKept /\ CallbackInv /\ OwnCallback /\ NoneDropped

LEMMA InvInit == Init => Inv
<1> SUFFICES ASSUME Init PROVE Inv
  BY Zenon
<1>1. Entries = {}
  BY DEF Init, Entries, Elems
<1>2. CallbackInv /\ OwnCallback
  BY Zenon DEF Init, CallbackInv, OwnCallback
<1>3. NoneDropped
  BY SizesAssumption DEF Init, NoneDropped, Ops
<1> QED
  BY <1>1, <1>2, <1>3, TypeInit, Zenon DEF Inv, AllKept

LEMMA InvPrepare ==
  ASSUME Inv, NEW n \in Ops, Operate(n) \/ OperateFails(n)
  PROVE  AllKept' /\ CallbackInv' /\ OwnCallback' /\ NoneDropped'
<1> USE DEF Inv
<1>1. Prepare(n) /\ UNCHANGED <<cq, pc, ran>>
  BY Zenon DEF Operate, OperateFails
<1>2. lapped \subseteq lapped'
  BY <1>1, Zenon DEF Prepare, SetCallback
<1>3. Entries' = Entries \cup {Entry(n, SlotOf(n))}
  BY EntriesPrepare, Zenon
<1>4. AllKept'
  BY <1>1, <1>3, KeptPrepare, Zenon
<1>5. CallbackInv'
  BY <1>1, <1>2, CallbackSame, Zenon
<1>6. OwnCallback'
  BY <1>1, <1>2, Zenon DEF OwnCallback
<1>7. NoneDropped'
  <2>1. Outstanding' = Outstanding \cup {n}
    BY <1>3, OutstandingEntries, Fields
  <2>2. \A m \in Ops : m < next_callback_id_' => m = n \/ m < next_callback_id_
    BY <1>1, SizesAssumption DEF Prepare, SetCallback, Ops
  <2> QED
    BY <1>1, <1>2, <2>1, <2>2, Zenon DEF NoneDropped
<1> QED
  BY <1>4, <1>5, <1>6, <1>7, Zenon

LEMMA InvArrive ==
  ASSUME Inv, NEW e \in Entry0, cq' = Append(cq, e), inflight' \in {inflight \ {e}, inflight},
         e \in inflight \/ e.op = 0,
         UNCHANGED <<next_callback_id_, callbacks_, sq, pc, ran, lapped>>
  PROVE  AllKept' /\ CallbackInv' /\ OwnCallback' /\ NoneDropped'
<1> USE DEF Inv
<1>1. Entries' = Entries \cup {e}
  BY EntriesArrive, Zenon
<1>2. \A x \in Entries' : x \in Entries \/ x.op = 0
  BY <1>1, Zenon DEF Entries
<1>3. AllKept'
  BY <1>2, KeptSame, Zenon
<1>4. CallbackInv'
  BY CallbackSame, Zenon
<1>5. OwnCallback'
  BY Zenon DEF OwnCallback
<1>6. NoneDropped'
  BY <1>1, DroppedSame, Zenon
<1> QED
  BY <1>3, <1>4, <1>5, <1>6, Zenon

\* A CQE that is marked seen was without a callback, or its callback has run.
LEMMA InvSeen ==
  ASSUME Inv, cq # <<>>, cq' = Tail(cq), pc' = "drain",
         UNCHANGED <<next_callback_id_, callbacks_, sq, inflight, ran, lapped>>,
         \/ Head(cq).op \in lapped \cup {0} \/ <<Head(cq).op, Head(cq).op>> \in ran
         \/ SlotOf(Head(cq).op) = 0
  PROVE  AllKept' /\ CallbackInv' /\ OwnCallback' /\ NoneDropped'
<1> USE DEF Inv
<1>1. Entries = Entries' \cup {Head(cq)}
  BY EntriesSeen, Zenon
<1>2. AllKept'
  BY <1>1, KeptSame, Zenon
<1>3. CallbackInv' /\ OwnCallback'
  BY Zenon DEF CallbackInv, OwnCallback
<1>4. Outstanding = Outstanding' \cup {Head(cq).op}
  BY <1>1, OutstandingEntries, Zenon
<1>5. 0 \notin Ops
  BY SizesAssumption DEF Ops
<1>6. NoneDropped'
  BY <1>4, <1>5, Zenon DEF NoneDropped
<1> QED
  BY <1>2, <1>3, <1>6, Zenon

LEMMA InvReap ==
  ASSUME Inv, Reap
  PROVE  AllKept' /\ CallbackInv' /\ OwnCallback' /\ NoneDropped'
<1> USE DEF Inv
<1> DEFINE e == Head(cq)
<1>1. cq # <<>> /\ cq \in Seq(Entry0) /\ UNCHANGED <<next_callback_id_, callbacks_, sq, inflight, lapped>>
  BY Zenon DEF Reap, Typed
<1>2. e \in Entries /\ e \in Entry0
  <2>1. e \in Elems(cq)
    BY <1>1, ElemsTail, Zenon
  <2> QED
    BY <2>1, EntriesTyped, Zenon DEF Entries
<1>3. Kept(e) /\ e.op \in Nat /\ e.user_data \in Nat
  BY <1>2, Fields, SizesAssumption, SMTT(30) DEF AllKept
<1> HIDE DEF e
<1>4. CASE ~HasCallback(e.user_data) /\ cq' = Tail(cq) /\ pc' = "drain" /\ ran' = ran
  <2>1. e.op = 0 \/ SlotOf(e.op) = 0
    <3> SUFFICES ASSUME e.op # 0 PROVE SlotOf(e.op) = 0
      BY Zenon
    <3>1. e.user_data = SlotOf(e.op)
      BY <1>3, Zenon DEF Kept
    <3>2. SlotOf(e.op) \in Slots
      BY <1>3, SlotInTable, Zenon
    <3> QED
      BY <1>4, <3>1, <3>2, SizesAssumption DEF HasCallback, Slots
  <2> QED
    BY <1>1, <1>4, <2>1, InvSeen, Zenon DEF e
<1>5. CASE pc' = "dead" /\ UNCHANGED <<cq, ran>>
  <2>1. Entries' = Entries
    BY <1>1, <1>5, Zenon DEF Entries
  <2>2. AllKept'
    BY <1>1, <2>1, KeptSame, Zenon
  <2>3. CallbackInv' /\ OwnCallback'
    BY <1>1, <1>5, Zenon DEF CallbackInv, OwnCallback
  <2>4. NoneDropped'
    BY <1>1, <1>5, <2>1, DroppedSame, Zenon
  <2> QED
    BY <2>2, <2>3, <2>4, Zenon
<1>6. CASE /\ HasCallback(e.user_data) /\ pc' = "callback" /\ cq' = cq
           /\ ran' = ran \cup {<<e.op, callbacks_[e.user_data]>>}
  <2>1. Entries' = Entries
    BY <1>1, <1>6, Zenon DEF Entries
  <2>2. AllKept'
    BY <1>1, <2>1, KeptSame, Zenon
  <2>3. e.op \notin lapped \cup {0} => callbacks_[e.user_data] = e.op
    BY <1>3, Zenon DEF Kept
  <2>4. CallbackInv'
    BY <1>1, <1>6, <2>3, Zenon DEF CallbackInv, e
  <2>5. OwnCallback'
    BY <1>1, <1>6, <2>3 DEF OwnCallback
  <2>6. NoneDropped'
    BY <1>1, <1>6, <2>1, DroppedSame, Zenon
  <2> QED
    BY <2>2, <2>4, <2>5, <2>6, Zenon
<1> QED
  BY <1>4, <1>5, <1>6, Zenon DEF Reap, e

LEMMA InvNext == Inv /\ [Next]_vars => Inv'
<1> SUFFICES ASSUME Inv, [Next]_vars PROVE Inv'
  BY Zenon
<1>0. Typed'
  BY TypeNext, Zenon DEF Inv
<1> SUFFICES AllKept' /\ CallbackInv' /\ OwnCallback' /\ NoneDropped'
  BY <1>0, Zenon DEF Inv
<1>1. ASSUME NEW n \in Ops, Operate(n) \/ OperateFails(n)
      PROVE  AllKept' /\ CallbackInv' /\ OwnCallback' /\ NoneDropped'
  BY <1>1, InvPrepare, Zenon
<1>2. ASSUME Entries' = Entries, pc' # "callback",
             UNCHANGED <<next_callback_id_, callbacks_, ran, lapped>>
      PROVE  AllKept' /\ CallbackInv' /\ OwnCallback' /\ NoneDropped'
  <2>1. AllKept' /\ NoneDropped'
    BY <1>2, KeptSame, DroppedSame, Zenon DEF Inv
  <2>2. CallbackInv' /\ OwnCallback'
    BY <1>2, Zenon DEF Inv, CallbackInv, OwnCallback
  <2> QED
    BY <2>1, <2>2, Zenon
<1>3. CASE RunOnce
  BY <1>2, <1>3, EntriesSubmit, Zenon DEF RunOnce
<1>4. CASE RunOnceThrows
  BY <1>2, <1>4, Zenon DEF RunOnceThrows, Entries
<1>5. CASE Reap
  BY <1>5, InvReap, Zenon
<1>6. CASE CallbackReturns
  <2>1. cq # <<>> /\ (Head(cq).op \in lapped \cup {0} \/ <<Head(cq).op, Head(cq).op>> \in ran)
    BY <1>6, Zenon DEF Inv, CallbackInv, CallbackReturns
  <2> QED
    BY <1>6, <2>1, InvSeen, Zenon DEF CallbackReturns
<1>7. CASE RunOnceReturns
  BY <1>2, <1>7, Zenon DEF RunOnceReturns, Entries
<1>8. CASE TimerFires
  <2>1. Timer \in Entry0 /\ Timer.op = 0
    BY NewEntries, Fields, Zenon DEF Timer
  <2> QED
    BY <1>8, <2>1, InvArrive, Zenon DEF TimerFires
<1>9. ASSUME NEW x \in inflight, Complete(x)
      PROVE  AllKept' /\ CallbackInv' /\ OwnCallback' /\ NoneDropped'
  <2>1. x \in Entry0
    BY NewEntries, Zenon DEF Inv, Typed
  <2> QED
    BY <1>9, <2>1, InvArrive, Zenon DEF Complete
<1>10. ASSUME NEW id \in messages, MessageArrives(id)
       PROVE  AllKept' /\ CallbackInv' /\ OwnCallback' /\ NoneDropped'
  <2>1. Entry(0, id) \in Entry0 /\ Entry(0, id).op = 0
    BY NewEntries, Fields, Zenon DEF Inv, Typed
  <2> QED
    BY <1>10, <2>1, InvArrive, Zenon DEF MessageArrives
<1>11. CASE UNCHANGED vars
  <2>1. Entries' = Entries /\ UNCHANGED <<next_callback_id_, callbacks_, ran, lapped>>
    BY <1>11, Zenon DEF vars, Entries
  <2>2. AllKept' /\ NoneDropped'
    BY <2>1, KeptSame, DroppedSame, Zenon DEF Inv
  <2>3. CallbackInv' /\ OwnCallback'
    BY <1>11, Zenon DEF Inv, CallbackInv, OwnCallback, vars
  <2> QED
    BY <2>2, <2>3, Zenon
<1> QED
  BY <1>1, <1>3, <1>4, <1>5, <1>6, <1>7, <1>8, <1>9, <1>10, <1>11, Zenon DEF Next, Loop, Kernel

LEMMA Invariant == Spec => []Inv
BY InvInit, InvNext, PTL DEF Spec

-----------------------------------------------------------------------------
\* The ring's state keeps its types: user_data stays within the table (or is one a message
\* brought), the queue within its depth, for every table size and number of operations.
THEOREM TypeCorrect == Spec => []TypeOK
<1>1. Inv => TypeOK
  BY TypedIsTypeOK, Zenon DEF Inv
<1> QED
  BY <1>1, Invariant, PTL

\* A completion runs the callback set for its own operation, in every order of completions
\* and with callbacks that prepare more, unless kMaxCallbacks operations were prepared since.
THEOREM OwnCallbackRuns == Spec => []OwnCallback
<1>1. Inv => OwnCallback
  BY Zenon DEF Inv
<1> QED
  BY <1>1, Invariant, PTL

\* No completion is dropped: an operation whose slot is not 0 and that was not lapped is
\* outstanding or its callback has run, failing submit() calls included.
THEOREM NoCompletionDropped == Spec => []NoneDropped
<1>1. Inv => NoneDropped
  BY Zenon DEF Inv
<1> QED
  BY <1>1, Invariant, PTL

-----------------------------------------------------------------------------
(* The event loop. *)

Tasks == Posts \cup Coros

\* Each task of s is in R, or one before it is in T: it was run, or one before it threw.
Accounted(s, R, T) == \A i \in DOMAIN s : s[i] \in R \/ \E j \in 1..(i - 1) : s[j] \in T

\* Between two passes over the tasks the loop holds none.
TaskInv ==
  /\ pending_tasks_ \in Seq(Tasks) /\ tasks \in Seq(Tasks) /\ taken \in Seq(Tasks)
  /\ loop_pc # "tasks" => tasks = <<>>
  /\ posted = taken \o tasks \o pending_tasks_
  /\ Accounted(taken, loop_ran, thrown)

LEMMA TaskInvSays == TaskInv => L!TasksInOrder
BY Zenon DEF TaskInv, Accounted, L!TasksInOrder

LEMMA AccountedRun ==
  ASSUME NEW S, NEW s \in Seq(S), NEW x \in S, NEW R, NEW T, Accounted(s, R, T)
  PROVE  Accounted(Append(s, x), R \cup {x}, T)
<1>1. PICK a : a = Append(s, x)
  BY Zenon
<1>2. /\ DOMAIN a = 1..(Len(s) + 1) /\ DOMAIN s = 1..Len(s) /\ Len(s) \in Nat
      /\ a[Len(s) + 1] = x
      /\ \A i \in DOMAIN s : a[i] = s[i]
  BY <1>1
<1>3. ASSUME NEW i \in DOMAIN s, NEW j \in 1..(i - 1) PROVE a[j] = s[j]
  BY <1>2, <1>3
<1>4. ASSUME NEW i \in DOMAIN a PROVE i \in DOMAIN s \/ a[i] = x
  BY <1>2
<1>5. ASSUME NEW i \in DOMAIN a
      PROVE  a[i] \in R \cup {x} \/ \E j \in 1..(i - 1) : a[j] \in T
  BY <1>2, <1>3, <1>4, Zenon DEF Accounted
<1> QED
  BY <1>1, <1>5, Zenon DEF Accounted

LEMMA AccountedThrow ==
  ASSUME NEW S, NEW s \in Seq(S), NEW t \in Seq(S), t # <<>>, NEW R, NEW T, Accounted(s, R, T)
  PROVE  Accounted(s \o t, R \cup {Head(t)}, T \cup {Head(t)})
<1>1. PICK a, x, n : a = s \o t /\ x = Head(t) /\ n = Len(s) + 1
  BY Zenon
<1>2. /\ DOMAIN s = 1..Len(s) /\ Len(s) \in Nat /\ a[n] = x
      /\ DOMAIN a = 1..(Len(s) + Len(t)) /\ Len(t) \in Nat
      /\ \A i \in DOMAIN s : a[i] = s[i]
  BY <1>1
<1>3. ASSUME NEW i \in DOMAIN s, NEW j \in 1..(i - 1) PROVE a[j] = s[j]
  BY <1>2, <1>3
<1>4. ASSUME NEW i \in DOMAIN a PROVE i \in DOMAIN s \/ i = n \/ n \in 1..(i - 1)
  BY <1>1, <1>2
<1>5. ASSUME NEW i \in DOMAIN a
      PROVE  a[i] \in R \cup {x} \/ \E j \in 1..(i - 1) : a[j] \in T \cup {x}
  <2>1. CASE i \in DOMAIN s
    BY <1>2, <1>3, <2>1, Zenon DEF Accounted
  <2> QED
    BY <1>2, <1>4, <2>1, Zenon
<1> QED
  BY <1>1, <1>5, Zenon DEF Accounted

\* A push at the end of the queue is a push at the end of the sequence of all tasks.
LEMMA PushLast ==
  \A a, b, c \in Seq(Tasks), x \in Tasks : Append(a \o b \o c, x) = a \o b \o Append(c, x)
<1> SUFFICES ASSUME NEW a \in Seq(Tasks), NEW b \in Seq(Tasks), NEW c \in Seq(Tasks), NEW x \in Tasks
             PROVE  Append(a \o b \o c, x) = a \o b \o Append(c, x)
  BY Zenon
<1>1. a \o b \in Seq(Tasks) /\ <<x>> \in Seq(Tasks)
  OBVIOUS
<1>2. a \o b \o c \in Seq(Tasks)
  BY <1>1
<1>3. Append(a \o b \o c, x) = (a \o b \o c) \o <<x>>
  BY <1>2, AppendIsConcat, Zenon
<1>4. Append(c, x) = c \o <<x>>
  BY AppendIsConcat, Zenon
<1>5. ((a \o b) \o c) \o <<x>> = (a \o b) \o (c \o <<x>>)
  BY <1>1, ConcatAssociative, SMTT(30)
<1> QED
  BY <1>3, <1>4, <1>5, Zenon

\* Running the first task of the batch moves it to the end of those that ran.
LEMMA MoveHead ==
  ASSUME NEW S, NEW a \in Seq(S), NEW b \in Seq(S), NEW c \in Seq(S), b # <<>>
  PROVE  a \o b \o c = Append(a, Head(b)) \o Tail(b) \o c
<1>1. Head(b) \in S /\ Tail(b) \in Seq(S) /\ <<Head(b)>> \in Seq(S)
  OBVIOUS
<1>2. b = <<Head(b)>> \o Tail(b)
  OBVIOUS
<1>3. Append(a, Head(b)) = a \o <<Head(b)>>
  BY <1>1, AppendIsConcat, Zenon
<1>4. a \o (<<Head(b)>> \o Tail(b)) = (a \o <<Head(b)>>) \o Tail(b)
  BY <1>1, ConcatAssociative, SMTT(30)
<1> QED
  BY <1>2, <1>3, <1>4, Zenon

-----------------------------------------------------------------------------
LEMMA TaskInvInit == L!Init => TaskInv
BY DEF L!Init, TaskInv, Accounted

\* Steps that leave the tasks alone and are not at the batch.
LEMMA TaskInvKept ==
  ASSUME TaskInv, UNCHANGED <<pending_tasks_, tasks, taken, loop_ran, thrown, posted>>,
         tasks = <<>> \/ loop_pc' = "tasks"
  PROVE  TaskInv'
BY Zenon DEF TaskInv

LEMMA TaskInvPost ==
  ASSUME TaskInv, NEW t \in Tasks, L!post(t)
  PROVE  TaskInv'
<1>1. posted' = Append(taken \o tasks \o pending_tasks_, t)
  BY Zenon DEF TaskInv, L!post
<1>2. Append(taken \o tasks \o pending_tasks_, t) = taken \o tasks \o Append(pending_tasks_, t)
  <2>1. taken \in Seq(Tasks) /\ tasks \in Seq(Tasks) /\ pending_tasks_ \in Seq(Tasks)
    BY Zenon DEF TaskInv
  <2> QED
    BY <2>1, PushLast, ZenonT(60)
<1>3. pending_tasks_' = Append(pending_tasks_, t) /\ pending_tasks_' \in Seq(Tasks)
  BY DEF TaskInv, L!post
<1>4. posted' = taken \o tasks \o pending_tasks_'
  BY <1>1, <1>2, <1>3, Zenon
<1> QED
  BY <1>3, <1>4, Zenon DEF TaskInv, L!post, L!batches

LEMMA TaskInvTake ==
  ASSUME TaskInv, L!TakeTasks
  PROVE  TaskInv'
<1>1. tasks = <<>> /\ posted = taken \o tasks \o pending_tasks_
  BY Zenon DEF TaskInv, L!TakeTasks
<1>2. taken \o <<>> = taken /\ (taken \o pending_tasks_) \o <<>> = taken \o pending_tasks_
  BY DEF TaskInv
<1> QED
  BY <1>1, <1>2, Zenon DEF TaskInv, L!TakeTasks, L!history, L!batches

LEMMA TaskInvRun ==
  ASSUME TaskInv, L!RunTask
  PROVE  TaskInv'
<1>1. /\ tasks # <<>> /\ tasks' = Tail(tasks) /\ taken' = Append(taken, Head(tasks))
      /\ loop_ran' = loop_ran \cup {Head(tasks)} /\ thrown' = thrown
      /\ pending_tasks_' = pending_tasks_ /\ posted' = posted /\ loop_pc' = loop_pc /\ loop_pc = "tasks"
  BY Zenon DEF L!RunTask, L!shared
<1>2. /\ Head(tasks) \in Tasks /\ tasks' \in Seq(Tasks) /\ taken' \in Seq(Tasks)
  BY <1>1 DEF TaskInv
<1>3. taken \o tasks \o pending_tasks_ = Append(taken, Head(tasks)) \o Tail(tasks) \o pending_tasks_
  <2>1. taken \in Seq(Tasks) /\ tasks \in Seq(Tasks) /\ pending_tasks_ \in Seq(Tasks)
    BY Zenon DEF TaskInv
  <2>2. tasks # <<>>
    BY <1>1, Zenon
  <2> QED
    BY <2>1, <2>2, MoveHead
<1>4. posted' = taken' \o tasks' \o pending_tasks_'
  BY <1>1, <1>3, Zenon DEF TaskInv
<1>5. Accounted(taken', loop_ran', thrown')
  BY <1>1, <1>2, AccountedRun, Zenon DEF TaskInv
<1> QED
  BY <1>1, <1>2, <1>4, <1>5, Zenon DEF TaskInv

\* The tasks behind the one that throws leave the batch without having run.
LEMMA TaskInvThrow ==
  ASSUME TaskInv, L!TaskThrows
  PROVE  TaskInv'
<1>1. /\ tasks # <<>> /\ tasks' = <<>> /\ taken' = taken \o tasks
      /\ loop_ran' = loop_ran \cup {Head(tasks)} /\ thrown' = thrown \cup {Head(tasks)}
      /\ pending_tasks_' = pending_tasks_ /\ posted' = posted
  BY Zenon DEF L!TaskThrows, L!shared
<1>2. /\ tasks' \in Seq(Tasks) /\ taken' \in Seq(Tasks)
      /\ (taken \o tasks) \o <<>> = taken \o tasks
  BY <1>1 DEF TaskInv
<1>3. posted' = taken' \o tasks' \o pending_tasks_'
  BY <1>1, <1>2, Zenon DEF TaskInv
<1>4. Accounted(taken', loop_ran', thrown')
  BY <1>1, AccountedThrow, Zenon DEF TaskInv
<1> QED
  BY <1>1, <1>2, <1>3, <1>4, Zenon DEF TaskInv

LEMMA TaskInvNext == TaskInv /\ [L!Next]_(L!vars) => TaskInv'
<1> SUFFICES ASSUME TaskInv, [L!Next]_(L!vars) PROVE TaskInv'
  BY Zenon
<1>1. CASE UNCHANGED L!vars
  BY <1>1, TaskInvKept, Zenon DEF L!vars, L!shared, L!history, L!batches, TaskInv
<1>2. CASE L!Tick \/ L!stop
  BY <1>2, TaskInvKept, Zenon DEF L!Tick, L!stop, L!history, L!batches, TaskInv
<1>3. CASE L!run \/ L!ReadClock \/ L!LockTimers \/ L!TimersDone
  BY <1>3, TaskInvKept, Zenon
     DEF L!run, L!ReadClock, L!LockTimers, L!TimersDone, L!history, L!batches, L!shared, TaskInv
<1>4. ASSUME NEW x \in timers_, L!FireTimer(x) PROVE TaskInv'
  BY <1>4, TaskInvKept, Zenon DEF L!FireTimer, L!batches, TaskInv
<1>5. CASE L!TakeTasks
  BY <1>5, TaskInvTake, Zenon
<1>6. CASE L!RunTask \/ L!TaskThrows
  BY <1>6, TaskInvRun, TaskInvThrow, Zenon
<1>7. CASE \/ L!TasksDone \/ L!RingSubmits \/ L!RingThrows \/ L!RingBlocks
           \/ L!EarlierTimeout \/ L!RingReturns
  BY <1>7, TaskInvKept, Zenon
     DEF L!TasksDone, L!RingSubmits, L!RingThrows, L!RingBlocks, L!EarlierTimeout, L!RingReturns,
         L!history, L!batches, L!shared, TaskInv
<1>8. ASSUME NEW p \in Posts, L!post(p) PROVE TaskInv'
  BY <1>8, TaskInvPost, Zenon DEF Tasks
<1>9. ASSUME NEW c \in Coros, L!spawn(c) \/ L!RingCompletes(c) PROVE TaskInv'
  <2>1. CASE L!spawn(c)
    BY <2>1, TaskInvPost, Zenon DEF Tasks, L!spawn
  <2>2. CASE L!RingCompletes(c)
    BY <2>2, TaskInvKept, Zenon DEF L!RingCompletes, L!batches, L!shared, TaskInv
  <2> QED
    BY <1>9, <2>1, <2>2, Zenon
<1>10. ASSUME NEW t \in Timers, NEW d \in Delays, L!set_timer(t, d) PROVE TaskInv'
  BY <1>10, TaskInvKept, Zenon DEF L!set_timer, L!history, L!batches, TaskInv
<1>11. ASSUME NEW x \in setting, L!PushTimer(x) PROVE TaskInv'
  BY <1>11, TaskInvKept, Zenon DEF L!PushTimer, L!history, L!batches, TaskInv
<1>12. ASSUME NEW p, L!wakeup(p) PROVE TaskInv'
  BY <1>12, TaskInvKept, Zenon DEF L!wakeup, L!history, L!batches, TaskInv
<1> QED
  BY <1>1, <1>2, <1>3, <1>4, <1>5, <1>6, <1>7, <1>8, <1>9, <1>10, <1>11, <1>12, Zenon
     DEF L!Next, L!Loop

\* However threads post and spawn while the loop takes and runs batches without
\* tasks_mutex_, is stopped and run again, tasks leave the queue in the order of their
\* pushes, and one that has left was run unless an earlier one threw.
THEOREM EveryTaskInOrder == L!Spec => []L!TasksInOrder
BY TaskInvSays, TaskInvInit, TaskInvNext, PTL DEF L!Spec

-----------------------------------------------------------------------------
\* While the loop is in process_timers what has fired is not later than what is queued:
\* PushTimer waits for timers_mutex_.
TimerInv ==
  /\ timers_ \cup setting \subseteq Timers \X Nat /\ now \in Nat /\ seen \in Nat
  /\ pass \in Seq(Nat)
  /\ L!TimersLocked => \A i \in DOMAIN pass, x \in timers_ : pass[i] <= x[2]
  /\ loop_pc = "lock" => pass = <<>>
  /\ L!TimersOnTime

LEMMA TimerInvInit == L!Init => TimerInv
BY DEF L!Init, TimerInv, L!TimersOnTime, L!TimersLocked

\* Steps that neither fire nor queue a timer, outside process_timers or within it.
LEMMA TimerInvKept ==
  ASSUME TimerInv, UNCHANGED <<timers_, seen, pass>>,
         L!TimersLocked' => L!TimersLocked, loop_pc' = "lock" => loop_pc = "lock",
         now' \in Nat, setting' \subseteq Timers \X Nat
  PROVE  TimerInv'
BY Zenon DEF TimerInv, L!TimersOnTime

LEMMA TimerInvRead ==
  ASSUME TimerInv, L!ReadClock
  PROVE  TimerInv'
BY DEF TimerInv, L!TimersOnTime, L!TimersLocked, L!ReadClock, L!shared

LEMMA TimerInvLock ==
  ASSUME TimerInv, L!LockTimers
  PROVE  TimerInv'
<1>1. pass = <<>> /\ loop_pc' = "timers" /\ UNCHANGED <<timers_, setting, now, seen, pass>>
  BY Zenon DEF TimerInv, L!LockTimers, L!shared, L!history
<1>2. DOMAIN pass' = {}
  BY <1>1
<1> QED
  BY <1>1, <1>2, Zenon DEF TimerInv, L!TimersOnTime

LEMMA TimerInvPush ==
  ASSUME TimerInv, NEW x \in setting, L!PushTimer(x)
  PROVE  TimerInv'
BY Zenon DEF TimerInv, L!TimersOnTime, L!TimersLocked, L!PushTimer, L!history

\* The first of the queue is due and not later than the others.
LEMMA TimerInvFire ==
  ASSUME TimerInv, NEW x \in timers_, L!FireTimer(x)
  PROVE  TimerInv'
<1>1. /\ loop_pc = "timers" /\ x[2] \in Nat /\ x[2] <= seen
      /\ timers_' = timers_ \ {x} /\ pass' = Append(pass, x[2])
      /\ now' = now /\ seen' = seen /\ setting' = setting /\ loop_pc' # "lock"
  BY Zenon DEF TimerInv, L!FireTimer, L!Top, L!Due
<1>2. \A y \in timers_ : x[2] <= y[2]
  BY Zenon DEF L!FireTimer, L!Top
<1>3. \A i \in DOMAIN pass, y \in timers_ : pass[i] <= y[2]
  BY <1>1, Zenon DEF TimerInv, L!TimersLocked
<1>4. pass \in Seq(Nat)
  BY Zenon DEF TimerInv
<1>5. /\ pass' \in Seq(Nat) /\ DOMAIN pass' = 1..(Len(pass) + 1) /\ DOMAIN pass = 1..Len(pass)
      /\ \A i \in DOMAIN pass : pass'[i] = pass[i]
      /\ pass'[Len(pass) + 1] = x[2]
  BY <1>1, <1>4
<1>6. \A i \in DOMAIN pass', y \in timers_' : pass'[i] <= y[2]
  BY <1>1, <1>2, <1>3, <1>4, <1>5
<1>7. ASSUME NEW i \in DOMAIN pass' PROVE pass'[i] <= seen /\ (i > 1 => pass'[i - 1] <= pass'[i])
  <2>1. CASE i = Len(pass) + 1
    <3>1. pass'[i] <= seen
      BY <1>1, <1>5, <2>1, Zenon
    <3>2. i > 1 => i - 1 \in DOMAIN pass /\ pass'[i - 1] = pass[i - 1] /\ pass'[i] = x[2]
      BY <1>4, <1>5, <2>1, SMTT(60)
    <3> QED
      BY <1>3, <3>1, <3>2, Zenon
  <2>2. CASE i \in DOMAIN pass
    <3>1. i > 1 => i - 1 \in DOMAIN pass
      BY <1>4, <1>5, <2>2, SMTT(30)
    <3> QED
      BY <1>5, <2>2, <3>1, Zenon DEF TimerInv, L!TimersOnTime
  <2> QED
    BY <1>4, <1>5, <2>1, <2>2
<1> QED
  BY <1>1, <1>5, <1>6, <1>7, Zenon DEF TimerInv, L!TimersOnTime

LEMMA TimerInvNext == TimerInv /\ [L!Next]_(L!vars) => TimerInv'
<1> SUFFICES ASSUME TimerInv, [L!Next]_(L!vars) PROVE TimerInv'
  BY Zenon
<1>1. CASE UNCHANGED L!vars
  BY <1>1, TimerInvKept, Zenon DEF L!vars, L!shared, L!history, TimerInv, L!TimersLocked
<1>2. CASE L!Tick \/ L!stop \/ L!run
  <2>1. CASE L!Tick
    BY <2>1, TimerInvKept, SMTT(30) DEF L!Tick, L!history, TimerInv, L!TimersLocked
  <2>2. CASE L!stop \/ L!run
    BY <2>2, TimerInvKept, Zenon DEF L!stop, L!run, L!history, TimerInv, L!TimersLocked
  <2> QED
    BY <1>2, <2>1, <2>2, Zenon
<1>3. CASE L!ReadClock \/ L!LockTimers
  BY <1>3, TimerInvRead, TimerInvLock, Zenon
<1>4. ASSUME NEW x \in timers_, L!FireTimer(x) PROVE TimerInv'
  BY <1>4, TimerInvFire, Zenon
<1>5. CASE L!TimersDone \/ L!TakeTasks \/ L!RunTask \/ L!TaskThrows
  BY <1>5, TimerInvKept, Zenon
     DEF L!TimersDone, L!TakeTasks, L!RunTask, L!TaskThrows, L!history, L!shared, TimerInv, L!TimersLocked
<1>6. CASE \/ L!TasksDone \/ L!RingSubmits \/ L!RingThrows \/ L!RingBlocks
           \/ L!EarlierTimeout \/ L!RingReturns
  BY <1>6, TimerInvKept, Zenon
     DEF L!TasksDone, L!RingSubmits, L!RingThrows, L!RingBlocks, L!EarlierTimeout, L!RingReturns,
         L!history, L!shared, TimerInv, L!TimersLocked
<1>11. ASSUME NEW p, L!wakeup(p) PROVE TimerInv'
  BY <1>11, TimerInvKept, Zenon DEF L!wakeup, L!history, TimerInv, L!TimersLocked
<1>7. ASSUME NEW t, L!post(t) PROVE TimerInv'
  BY <1>7, TimerInvKept, Zenon DEF L!post, TimerInv, L!TimersLocked
<1>8. ASSUME NEW c \in Coros, L!RingCompletes(c) PROVE TimerInv'
  BY <1>8, TimerInvKept, Zenon DEF L!RingCompletes, L!shared, TimerInv, L!TimersLocked
<1>9. ASSUME NEW t \in Timers, NEW d \in Delays, L!set_timer(t, d) PROVE TimerInv'
  <2>1. now + d \in Nat
    BY LoopAssumption DEF L!EventLoopAssumption, TimerInv
  <2> QED
    BY <1>9, <2>1, TimerInvKept DEF L!set_timer, L!history, TimerInv, L!TimersLocked
<1>10. ASSUME NEW x \in setting, L!PushTimer(x) PROVE TimerInv'
  BY <1>10, TimerInvPush, Zenon
<1> QED
  BY <1>1, <1>2, <1>3, <1>4, <1>5, <1>6, <1>7, <1>8, <1>9, <1>10, <1>11, Zenon
     DEF L!Next, L!Loop, L!spawn

\* Whatever threads set timers while the loop runs, each with the clock it read before it
\* got timers_mutex_, no timer fires before its time and one pass of process_timers fires
\* them in the order of their times.
THEOREM EveryTimerOnTime == L!Spec => []L!TimersOnTime
<1>1. TimerInv => L!TimersOnTime
  BY Zenon DEF TimerInv
<1> QED
  BY <1>1, TimerInvInit, TimerInvNext, PTL DEF L!Spec

-----------------------------------------------------------------------------
\* The rest of the types: the loop never reads a time the clock has not reached, and only
\* a coroutine that was spawned has a frame to destroy or an operation in the ring.
LoopTypes ==
  /\ running_ \in BOOLEAN
  /\ loop_pc \in {"stopped", "now", "lock", "timers", "take", "tasks", "ring", "wait", "blocked", "locked"}
  /\ queued \in 0..LoopDepth
  /\ fired \subseteq Timers
  /\ now \in 0..MaxTime /\ seen \in 0..now
  /\ in_flight \subseteq Coros /\ destroyed \subseteq Coros

LEMMA LoopTypesInit == L!Init => LoopTypes
<1> SUFFICES ASSUME L!Init PROVE LoopTypes
  BY Zenon
<1>1. MaxTime \in Nat
  BY LoopAssumption, Zenon DEF L!EventLoopAssumption
<1>2. now \in 0..MaxTime /\ seen \in 0..now
  BY <1>1 DEF L!Init
<1>3. running_ \in BOOLEAN
  BY Zenon DEF L!Init
<1>4. queued \in 0..LoopDepth
  BY LoopAssumption DEF L!Init, L!EventLoopAssumption
<1> QED
  BY <1>2, <1>3, <1>4, Zenon DEF L!Init, LoopTypes

\* The queue of the ring holds no more than its depth.
LEMMA QueueBounded ==
  ASSUME LoopTypes
  PROVE  /\ L!Submits => queued' \in 0..LoopDepth
         /\ L!SubmitFails => queued' \in 0..LoopDepth
BY LoopAssumption DEF L!EventLoopAssumption, LoopTypes, L!Submits, L!SubmitFails, L!Full

LEMMA LoopTypesNext == LoopTypes /\ TaskInv /\ TimerInv /\ [L!Next]_(L!vars) => LoopTypes'
<1> SUFFICES ASSUME LoopTypes, TaskInv, TimerInv, [L!Next]_(L!vars) PROVE LoopTypes'
  BY Zenon
<1>1. CASE UNCHANGED L!vars
  BY <1>1, Zenon DEF L!vars, L!shared, L!frames, L!history, LoopTypes
<1>2. CASE L!Tick
  BY <1>2, LoopAssumption DEF L!Tick, L!frames, L!history, LoopTypes, L!EventLoopAssumption
<1>3. CASE L!stop \/ L!run
  BY <1>3, Zenon DEF L!stop, L!run, L!frames, L!history, LoopTypes
<1>4. CASE L!ReadClock
  BY <1>4, LoopAssumption DEF L!ReadClock, L!shared, L!frames, LoopTypes, L!EventLoopAssumption
<1>5. ASSUME NEW x \in timers_, L!FireTimer(x) PROVE LoopTypes'
  <2>1. x[1] \in Timers
    BY Zenon DEF TimerInv
  <2>2. loop_pc' \in {"timers", "stopped", "locked"}
    BY <1>5, Zenon DEF L!FireTimer
  <2> QED
    BY <1>5, <2>1, <2>2, Zenon DEF L!FireTimer, L!frames, LoopTypes
<1>6. CASE L!LockTimers \/ L!TimersDone \/ L!TakeTasks \/ L!TasksDone
  BY <1>6, Zenon
     DEF L!LockTimers, L!TimersDone, L!TakeTasks, L!TasksDone, L!frames, L!history, L!shared, LoopTypes
<1>12. CASE L!RingSubmits \/ L!RingThrows
  BY <1>12, QueueBounded, Zenon DEF L!RingSubmits, L!RingThrows, L!frames, L!history, L!shared, LoopTypes
<1>13. CASE L!RingBlocks \/ L!EarlierTimeout \/ L!RingReturns
  BY <1>13, Zenon
     DEF L!RingBlocks, L!EarlierTimeout, L!RingReturns, L!frames, L!history, L!shared, LoopTypes
<1>14. ASSUME NEW p, L!wakeup(p) PROVE LoopTypes'
  BY <1>14, QueueBounded, Zenon DEF L!wakeup, L!frames, L!history, LoopTypes
<1>7. CASE L!RunTask \/ L!TaskThrows
  <2>1. in_flight' \subseteq Coros /\ destroyed' \subseteq Coros
    BY <1>7, Zenon DEF L!RunTask, L!TaskThrows, LoopTypes
  <2>2. queued' \in 0..LoopDepth
    BY <1>7, QueueBounded, Zenon DEF L!RunTask, L!TaskThrows, LoopTypes
  <2> QED
    BY <1>7, <2>1, <2>2, Zenon DEF L!RunTask, L!TaskThrows, L!shared, LoopTypes
<1>8. ASSUME NEW t, L!post(t) PROVE LoopTypes'
  BY <1>8, Zenon DEF L!post, L!frames, LoopTypes
<1>9. ASSUME NEW c \in Coros, L!RingCompletes(c) PROVE LoopTypes'
  BY <1>9, Zenon DEF L!RingCompletes, L!shared, LoopTypes
<1>10. ASSUME NEW t \in Timers, NEW d \in Delays, L!set_timer(t, d) PROVE LoopTypes'
  BY <1>10, Zenon DEF L!set_timer, L!frames, L!history, LoopTypes
<1>11. ASSUME NEW x \in setting, L!PushTimer(x) PROVE LoopTypes'
  BY <1>11, Zenon DEF L!PushTimer, L!frames, L!history, LoopTypes
<1> QED
  BY <1>1, <1>2, <1>3, <1>4, <1>5, <1>6, <1>7, <1>8, <1>9, <1>10, <1>11, <1>12, <1>13, <1>14, Zenon
  DEF L!Next, L!Loop, L!spawn

\* What the queue and the batch hold are tasks.
LEMMA QueuedAreTasks == TaskInv => L!Set(pending_tasks_) \cup L!Set(tasks) \subseteq Posts \cup Coros
<1> SUFFICES ASSUME TaskInv, NEW s \in Seq(Tasks) PROVE L!Set(s) \subseteq Tasks
  BY Zenon DEF TaskInv, Tasks
<1> QED
  BY DEF L!Set

\* The loop's data has its types whatever interleaves with run(), tasks run in the order of
\* their pushes, none is lost but with the batch of one that throws, and no timer fires
\* early or out of order.
THEOREM LoopRunsInOrder == L!Spec => []LoopInOrder
<1>1. L!Init => LoopTypes /\ TaskInv /\ TimerInv
  BY LoopTypesInit, TaskInvInit, TimerInvInit, Zenon
<1>2. LoopTypes /\ TaskInv /\ TimerInv /\ [L!Next]_(L!vars) => (LoopTypes /\ TaskInv /\ TimerInv)'
  BY LoopTypesNext, TaskInvNext, TimerInvNext, Zenon
<1>3. LoopTypes /\ TaskInv /\ TimerInv => LoopInOrder
  BY QueuedAreTasks, TaskInvSays, Zenon DEF LoopTypes, TimerInv, LoopInOrder, L!TypeOK
<1> QED
  BY <1>1, <1>2, <1>3, PTL DEF L!Spec
=============================================================================
