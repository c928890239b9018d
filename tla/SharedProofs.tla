---------------------------- MODULE SharedProofs ----------------------------
(***************************************************************************)
(* What threads share.  TimingWheel, for any number of threads and slots   *)
(* and any delays.  ConnectionPool, for any number of users and threads    *)
(* and any limits: the invariant joins the counters to the users.  Balance *)
(* says what the counters count and adds the users that are past the limit *)
(* test and have not counted their connection yet; CallsHaveThreads bounds *)
(* how many of those there can be.                                         *)
(***************************************************************************)
EXTENDS TimingWheel, MCConnectionPool, TLAPS

-----------------------------------------------------------------------------
(* Facts about the arithmetic of ticks. *)

LEMMA SlotOf == \A n \in Nat : n % slots_ \in Slots
BY WheelAssumption DEF Slots

LEMMA TicksIsNat == \A d \in Delays : Ticks(d) \in 0 .. d + tick_ms_
<1> SUFFICES ASSUME NEW d \in Nat PROVE (d + tick_ms_ - 1) \div tick_ms_ \in 0 .. d + tick_ms_
  BY DelaysAssumption, Zenon DEF Ticks
<1> DEFINE m == d + tick_ms_ - 1
<1>1. m \in Nat
  BY WheelAssumption
<1>2. \A a \in Nat, b \in Nat \ {0} : a \div b \in 0 .. a
  OBVIOUS
<1>3. m \div tick_ms_ \in 0 .. m
  BY <1>1, <1>2, WheelAssumption, Zenon
<1> QED BY <1>3, WheelAssumption

LEMMA ExpireType ==
  ASSUME TypeOK, NEW d \in Delays
  PROVE  ExpireTick(d) \in 0 .. WordSize - 1
<1>1. Ticks(d) \in 0 .. d + tick_ms_ /\ d \in Nat
  BY TicksIsNat, DelaysAssumption, Zenon
<1>2. current_tick_ \in 0 .. MaxTick /\ MaxTick + d + tick_ms_ < WordSize
  BY BoundsAssumption, Zenon DEF TypeOK
<1> QED BY <1>1, <1>2, WheelAssumption, BoundsAssumption DEF ExpireTick

-----------------------------------------------------------------------------
(* The inductive invariant: types, the map agrees with the wheel. *)

LEMMA NoEntryNotEntry == NoEntry \notin Entries
BY DEF NoEntry, Entries, Ids

LEMMA InitType == Init => TypeOK
BY BoundsAssumption DEF Init, TypeOK

LEMMA AddReadType ==
  ASSUME TypeOK, NEW t \in Threads, NEW d \in Delays, AddRead(t, d)
  PROVE  TypeOK'
<1>1. [id |-> next_id_, expire_tick |-> ExpireTick(d)] \in Entries
  <2>1. next_id_ \in Ids
    BY BoundsAssumption DEF AddRead, TypeOK, Ids
  <2> QED BY <2>1, ExpireType, Zenon DEF Entries
<1>2. next_id_' \in 1 .. MaxTimers + 1
  BY BoundsAssumption DEF AddRead, TypeOK
<1> QED BY <1>1, <1>2, Zenon DEF AddRead, TypeOK

LEMMA AddInsertType ==
  ASSUME TypeOK, NEW t \in Threads, AddInsert(t)
  PROVE  TypeOK'
<1>1. adding[t] \in Entries
  BY Zenon DEF AddInsert, TypeOK
<1>2. adding[t].id \in Ids /\ adding[t].expire_tick \in Nat
  BY <1>1 DEF Entries
<1>3. adding[t].expire_tick % slots_ \in Slots
  BY <1>2, SlotOf, Zenon
<1> QED BY <1>1, <1>2, <1>3, Zenon DEF AddInsert, TypeOK

LEMMA CancelType ==
  ASSUME TypeOK, NEW t \in Threads, NEW id \in Ids, Cancel(t, id)
  PROVE  TypeOK'
<1>1. timer_slot_[id] \in Slots
  BY Zenon DEF Cancel, TypeOK
<1> QED BY <1>1, Zenon DEF Cancel, TypeOK

LEMMA CollectType ==
  ASSUME TypeOK, NEW t \in Threads, Collect(t)
  PROVE  TypeOK'
<1> DEFINE s == current_tick_ % slots_
           ids == {e.id : e \in Expired(s)}
<1>1. s \in Slots
  BY SlotOf DEF TypeOK
<1>2. ids \subseteq Ids /\ Expired(s) \subseteq Entries
  BY <1>1 DEF Expired, TypeOK, Entries
<1>3. current_tick_' \in 0 .. MaxTick
  BY BoundsAssumption DEF Collect, TypeOK
<1>4. wheels_' = [wheels_ EXCEPT ![s] = @ \ Expired(s)]
  BY Zenon DEF Collect
<1>5. wheels_' \in [Slots -> SUBSET Entries]
  BY <1>1, <1>4, Zenon DEF TypeOK
<1>6. /\ expired' = [expired EXCEPT ![t] = ids]
      /\ timer_slot_' = [id \in Ids |-> IF id \in ids THEN Absent ELSE timer_slot_[id]]
  BY Zenon DEF Collect
<1>7. expired' \in [Threads -> SUBSET Ids] /\ timer_slot_' \in [Ids -> Slots \cup {Absent}]
  BY <1>2, <1>6, Zenon DEF TypeOK
<1> QED BY <1>3, <1>5, <1>7, Zenon DEF Collect, TypeOK

LEMMA RunCallbackType ==
  ASSUME TypeOK, NEW t \in Threads, NEW id \in Ids, RunCallback(t, id)
  PROVE  TypeOK'
BY Zenon DEF RunCallback, TypeOK

LEMMA NextType == TypeOK /\ [Next]_vars => TypeOK'
<1> SUFFICES ASSUME TypeOK, [Next]_vars PROVE TypeOK'
  BY Zenon
<1>1. ASSUME NEW t \in Threads, Step(t) \/ Collect(t) PROVE TypeOK'
  BY <1>1, AddReadType, AddInsertType, CancelType, CollectType, RunCallbackType, Zenon DEF Step
<1>2. CASE UNCHANGED vars
  BY <1>2, Zenon DEF vars, TypeOK
<1> QED BY <1>1, <1>2, Zenon DEF Next

\* TypeOK: no interleaving takes current_tick_, the wheel, the map or the
\* expiry computed in size_t out of its range.
THEOREM TypeCorrect == Spec => []TypeOK
BY InitType, NextType, PTL DEF Spec

-----------------------------------------------------------------------------
(***************************************************************************)
(* Fates.  OneFate is not inductive by itself: cancel_timer and tick() act *)
(* on what timer_slot_ says, so the map must agree with the wheel, and     *)
(* Consistent in turn needs that a timer being added is nowhere else.      *)
(* FateInv says both, fate by fate.                                        *)
(***************************************************************************)
AddingInv ==
  \A t \in Threads : adding[t] # NoEntry =>
    /\ adding[t].id < next_id_
    /\ timer_slot_[adding[t].id] = Absent
    /\ adding[t].id \notin fired /\ adding[t].id \notin cancelled
    /\ \A u \in Threads : adding[t].id \notin expired[u]
    /\ \A u \in Threads : adding[u].id = adding[t].id => u = t

WaitingInv ==
  /\ \A id \in Ids : timer_slot_[id] # Absent =>
       /\ id < next_id_
       /\ id \notin fired /\ id \notin cancelled
       /\ \A u \in Threads : id \notin expired[u]
  /\ \A s \in Slots : \A e, f \in wheels_[s] : e.id = f.id => e = f

ExpiredInv ==
  \A t \in Threads : \A id \in expired[t] :
    /\ id < next_id_
    /\ id \notin fired /\ id \notin cancelled
    /\ \A u \in Threads : id \in expired[u] => u = t

DoneInv ==
  /\ \A id \in fired \cup cancelled : id < next_id_
  /\ fired \cap cancelled = {}

Covered ==
  \A id \in Ids : id < next_id_ =>
    \/ \E t \in Threads : adding[t].id = id
    \/ timer_slot_[id] # Absent
    \/ \E t \in Threads : id \in expired[t]
    \/ id \in fired \/ id \in cancelled

FateInv == Consistent /\ AddingInv /\ WaitingInv /\ ExpiredInv /\ DoneInv /\ Covered

LEMMA InitFate == Init => FateInv
<1> SUFFICES ASSUME Init PROVE FateInv
  BY Zenon
<1>1. Consistent
  BY DEF Init, Consistent, Slots, Absent
<1>2. AddingInv /\ ExpiredInv /\ DoneInv
  BY Zenon DEF Init, AddingInv, ExpiredInv, DoneInv
<1>3. WaitingInv /\ Covered
  BY DEF Init, WaitingInv, Covered, Ids
<1> QED BY <1>1, <1>2, <1>3, Zenon DEF FateInv

LEMMA AddReadFate ==
  ASSUME TypeOK, FateInv, NEW t \in Threads, NEW d \in Delays, AddRead(t, d)
  PROVE  FateInv'
<1> DEFINE e == [id |-> next_id_, expire_tick |-> ExpireTick(d)]
<1>1. /\ adding[t] = NoEntry /\ adding' = [adding EXCEPT ![t] = e]
      /\ next_id_' = next_id_ + 1
      /\ UNCHANGED <<wheels_, timer_slot_, expired, fired, cancelled>>
  BY Zenon DEF AddRead
<1>2. next_id_ \in Ids /\ e.id = next_id_ /\ e # NoEntry
  BY BoundsAssumption DEF AddRead, TypeOK, Ids, NoEntry
<1>3. \A id \in Ids : id < next_id_ => id < next_id_'
  BY <1>1 DEF TypeOK, Ids
<1>4. /\ timer_slot_[next_id_] = Absent /\ next_id_ \notin fired /\ next_id_ \notin cancelled
      /\ \A u \in Threads : next_id_ \notin expired[u]
      /\ \A u \in Threads : adding[u].id # next_id_
  <2>1. ~(next_id_ < next_id_)
    BY DEF TypeOK
  <2>2. \A u \in Threads : adding[u] = NoEntry => adding[u].id # next_id_
    BY <1>2 DEF NoEntry, Ids
  <2> QED BY <1>2, <2>1, <2>2, ZenonT(30)
          DEF FateInv, AddingInv, WaitingInv, ExpiredInv, DoneInv
<1>5. Consistent'
  BY <1>1, Zenon DEF FateInv, Consistent
<1>6. AddingInv'
  <2> SUFFICES ASSUME NEW u \in Threads, adding'[u] # NoEntry
               PROVE  /\ adding'[u].id < next_id_'
                      /\ timer_slot_[adding'[u].id] = Absent
                      /\ adding'[u].id \notin fired /\ adding'[u].id \notin cancelled
                      /\ \A v \in Threads : adding'[u].id \notin expired[v]
                      /\ \A v \in Threads : adding'[v].id = adding'[u].id => v = u
    BY <1>1, ZenonT(30) DEF AddingInv
  <2>1. CASE u = t
    <3>1. adding'[u] = e
      BY <1>1, <2>1, Zenon DEF TypeOK
    <3>2. next_id_ < next_id_'
      BY <1>1 DEF TypeOK
    <3> QED BY <1>1, <1>2, <1>4, <2>1, <3>1, <3>2, Zenon DEF TypeOK
  <2>2. CASE u # t
    <3>1. adding'[u] = adding[u] /\ adding[u] # NoEntry /\ adding[u].id \in Ids
      BY <1>1, <2>2, Zenon DEF TypeOK, Entries
    <3> QED BY <1>1, <1>2, <1>3, <1>4, <3>1, Zenon DEF FateInv, AddingInv, TypeOK
  <2> QED BY <2>1, <2>2, Zenon
<1>7. WaitingInv' /\ ExpiredInv' /\ DoneInv'
  BY <1>1, <1>3, Zenon DEF FateInv, WaitingInv, ExpiredInv, DoneInv, TypeOK
<1>8. Covered'
  <2> SUFFICES ASSUME NEW id \in Ids, id < next_id_'
               PROVE  \/ \E u \in Threads : adding'[u].id = id
                      \/ timer_slot_[id] # Absent
                      \/ \E u \in Threads : id \in expired[u]
                      \/ id \in fired \/ id \in cancelled
    BY <1>1, Zenon DEF Covered
  <2>1. CASE id = next_id_
    BY <1>1, <1>2, <2>1, Zenon DEF TypeOK
  <2>2. CASE id # next_id_
    <3>1. id < next_id_
      BY <1>1, <2>2 DEF TypeOK, Ids
    <3>2. adding[t].id # id
      BY <1>1 DEF NoEntry, Ids
    <3> QED BY <1>1, <3>1, <3>2, Zenon DEF FateInv, Covered, TypeOK
  <2> QED BY <2>1, <2>2, Zenon
<1> QED BY <1>5, <1>6, <1>7, <1>8, Zenon DEF FateInv

LEMMA AddInsertFate ==
  ASSUME TypeOK, FateInv, NEW t \in Threads, AddInsert(t)
  PROVE  FateInv'
<1> DEFINE e == adding[t]
           n == e.id
           slot == e.expire_tick % slots_
<1>1. /\ e # NoEntry
      /\ wheels_' = [wheels_ EXCEPT ![slot] = @ \cup {e}]
      /\ timer_slot_' = [timer_slot_ EXCEPT ![n] = slot]
      /\ adding' = [adding EXCEPT ![t] = NoEntry]
      /\ UNCHANGED <<next_id_, expired, fired, cancelled>>
  BY Zenon DEF AddInsert
<1>2. n \in Ids /\ e.expire_tick \in Nat
  BY <1>1 DEF TypeOK, Entries
<1>3. slot \in Slots /\ slot # Absent
  BY <1>2, SlotOf DEF Slots, Absent
<1>4. /\ n < next_id_ /\ timer_slot_[n] = Absent /\ n \notin fired /\ n \notin cancelled
      /\ \A u \in Threads : n \notin expired[u]
      /\ \A u \in Threads : adding[u].id = n => u = t
  BY <1>1, Zenon DEF FateInv, AddingInv
<1>5. \A s \in Slots : \A f \in wheels_[s] : f.id # n /\ f.id \in Ids
  BY <1>4, SMTT(60) DEF FateInv, Consistent, Slots, Absent, TypeOK, Entries
<1>6. Consistent'
  <2> SUFFICES ASSUME NEW s \in Slots
               PROVE  /\ \A f \in wheels_'[s] :
                           f.expire_tick % slots_ = s /\ timer_slot_'[f.id] = s
                      /\ \A id \in Ids : timer_slot_'[id] = s =>
                           \E f \in wheels_'[s] : f.id = id
    BY Zenon DEF Consistent
  <2>1. ASSUME NEW f \in wheels_'[s]
        PROVE  f.expire_tick % slots_ = s /\ timer_slot_'[f.id] = s
    <3>1. CASE f \in wheels_[s]
      BY <1>1, <1>5, <3>1, Zenon DEF FateInv, Consistent, TypeOK
    <3>2. CASE f \notin wheels_[s]
      BY <1>1, <1>2, <1>3, <2>1, <3>2, Zenon DEF TypeOK
    <3> QED BY <3>1, <3>2, Zenon
  <2>2. ASSUME NEW id \in Ids, timer_slot_'[id] = s
        PROVE  \E f \in wheels_'[s] : f.id = id
    <3>1. CASE id = n
      BY <1>1, <1>2, <1>3, <2>2, <3>1, Zenon DEF TypeOK
    <3>2. CASE id # n
      BY <1>1, <1>3, <2>2, <3>2 DEF TypeOK, FateInv, Consistent
    <3> QED BY <3>1, <3>2, Zenon
  <2> QED BY <2>1, <2>2, Zenon
<1>7. AddingInv'
  <2> SUFFICES ASSUME NEW u \in Threads, adding'[u] # NoEntry
               PROVE  /\ adding'[u].id < next_id_
                      /\ timer_slot_'[adding'[u].id] = Absent
                      /\ adding'[u].id \notin fired /\ adding'[u].id \notin cancelled
                      /\ \A v \in Threads : adding'[u].id \notin expired[v]
                      /\ \A v \in Threads : adding'[v].id = adding'[u].id => v = u
    BY <1>1, ZenonT(30) DEF AddingInv
  <2>1. /\ u # t /\ adding'[u] = adding[u] /\ adding[u] # NoEntry
        /\ adding[u].id \in Ids /\ adding[u].id # n
    BY <1>1, <1>4, Zenon DEF TypeOK, Entries
  <2>2. \A v \in Threads : adding'[v].id = adding[u].id => adding[v].id = adding[u].id
    BY <1>1, <2>1 DEF TypeOK, NoEntry, Ids
  <2> QED BY <1>1, <2>1, <2>2, ZenonT(30) DEF FateInv, AddingInv, TypeOK
<1>8. WaitingInv'
  <2>1. \A id \in Ids : timer_slot_'[id] # Absent =>
          /\ id < next_id_
          /\ id \notin fired /\ id \notin cancelled
          /\ \A u \in Threads : id \notin expired[u]
    BY <1>1, <1>4, ZenonT(60) DEF FateInv, WaitingInv, TypeOK
  <2>2. \A s \in Slots : \A f, g \in wheels_'[s] : f.id = g.id => f = g
    BY <1>1, <1>5, ZenonT(60) DEF FateInv, WaitingInv, TypeOK
  <2> QED BY <1>1, <2>1, <2>2, Zenon DEF WaitingInv
<1>9. ExpiredInv' /\ DoneInv'
  BY <1>1, Zenon DEF FateInv, ExpiredInv, DoneInv
<1>10. Covered'
  <2> SUFFICES ASSUME NEW id \in Ids, id < next_id_
               PROVE  \/ \E u \in Threads : adding'[u].id = id
                      \/ timer_slot_'[id] # Absent
                      \/ \E u \in Threads : id \in expired[u]
                      \/ id \in fired \/ id \in cancelled
    BY <1>1, Zenon DEF Covered
  <2>1. CASE id = n
    BY <1>1, <1>3, <2>1, Zenon DEF TypeOK
  <2>2. CASE id # n
    BY <1>1, <2>2, Zenon DEF FateInv, Covered, TypeOK
  <2> QED BY <2>1, <2>2, Zenon
<1> QED BY <1>6, <1>7, <1>8, <1>9, <1>10, Zenon DEF FateInv

LEMMA CancelFate ==
  ASSUME TypeOK, FateInv, NEW t \in Threads, NEW n \in Ids, Cancel(t, n)
  PROVE  FateInv'
<1> DEFINE slot == timer_slot_[n]
<1>1. /\ slot # Absent
      /\ wheels_' = [wheels_ EXCEPT ![slot] = {e \in @ : e.id # n}]
      /\ timer_slot_' = [timer_slot_ EXCEPT ![n] = Absent]
      /\ cancelled' = cancelled \cup {n}
      /\ UNCHANGED <<next_id_, adding, expired, fired>>
  BY Zenon DEF Cancel
<1>2. slot \in Slots
  BY <1>1, Zenon DEF TypeOK
<1>3. /\ n < next_id_ /\ n \notin fired /\ n \notin cancelled
      /\ \A u \in Threads : n \notin expired[u]
  BY <1>1, Zenon DEF FateInv, WaitingInv
<1>4. \A u \in Threads : adding[u].id # n
  BY <1>1 DEF FateInv, AddingInv, NoEntry, Ids
<1>5. Consistent'
  <2> SUFFICES ASSUME NEW s \in Slots
               PROVE  /\ \A f \in wheels_'[s] :
                           f.expire_tick % slots_ = s /\ timer_slot_'[f.id] = s
                      /\ \A id \in Ids : timer_slot_'[id] = s =>
                           \E f \in wheels_'[s] : f.id = id
    BY Zenon DEF Consistent
  <2>1. ASSUME NEW f \in wheels_'[s]
        PROVE  f.expire_tick % slots_ = s /\ timer_slot_'[f.id] = s
    <3>1. f \in wheels_[s] /\ f.id \in Ids
      BY <1>1, <2>1 DEF TypeOK, Entries
    <3>2. f.expire_tick % slots_ = s /\ timer_slot_[f.id] = s
      BY <3>1, Zenon DEF FateInv, Consistent
    <3>3. f.id # n
      BY <1>1, <1>2, <2>1, <3>2, Zenon DEF TypeOK
    <3> QED BY <1>1, <3>1, <3>2, <3>3, Zenon DEF TypeOK
  <2>2. ASSUME NEW id \in Ids, timer_slot_'[id] = s
        PROVE  \E f \in wheels_'[s] : f.id = id
    <3>1. id # n /\ timer_slot_[id] = s
      BY <1>1, <2>2 DEF TypeOK, Slots, Absent
    <3>2. PICK f \in wheels_[s] : f.id = id
      BY <3>1, Zenon DEF FateInv, Consistent
    <3> QED BY <1>1, <3>1, <3>2, Zenon DEF TypeOK
  <2> QED BY <2>1, <2>2, Zenon
<1>6. AddingInv'
  BY <1>1, <1>4, Zenon DEF FateInv, AddingInv, TypeOK, Entries
<1>7. WaitingInv'
  BY <1>1, ZenonT(30) DEF FateInv, WaitingInv, TypeOK
<1>8. ExpiredInv' /\ DoneInv'
  BY <1>1, <1>3 DEF FateInv, ExpiredInv, DoneInv
<1>9. Covered'
  BY <1>1, Zenon DEF FateInv, Covered, TypeOK
<1> QED BY <1>5, <1>6, <1>7, <1>8, <1>9, Zenon DEF FateInv

LEMMA RunCallbackFate ==
  ASSUME TypeOK, FateInv, NEW t \in Threads, NEW n \in Ids, RunCallback(t, n)
  PROVE  FateInv'
<1>1. /\ n \in expired[t]
      /\ expired' = [expired EXCEPT ![t] = @ \ {n}]
      /\ fired' = fired \cup {n}
      /\ UNCHANGED <<next_id_, wheels_, timer_slot_, adding, cancelled>>
  BY Zenon DEF RunCallback
<1>2. /\ n < next_id_ /\ n \notin cancelled /\ timer_slot_[n] = Absent
      /\ \A u \in Threads : n \in expired[u] => u = t
      /\ \A u \in Threads : adding[u] # NoEntry => adding[u].id # n
  BY <1>1 DEF FateInv, ExpiredInv, WaitingInv, AddingInv
<1>3. \A u \in Threads : expired'[u] = expired[u] \ {n}
  BY <1>1, <1>2, ZenonT(30) DEF TypeOK
<1>4. Consistent'
  BY <1>1, ZenonT(30) DEF FateInv, Consistent
<1>5. AddingInv' /\ WaitingInv'
  BY <1>1, <1>2, <1>3 DEF FateInv, AddingInv, WaitingInv
<1>6. ExpiredInv' /\ DoneInv'
  BY <1>1, <1>2, <1>3 DEF FateInv, ExpiredInv, DoneInv
<1>7. Covered'
  BY <1>1, <1>3, ZenonT(30) DEF FateInv, Covered
<1> QED BY <1>4, <1>5, <1>6, <1>7, Zenon DEF FateInv

LEMMA CollectFate ==
  ASSUME TypeOK, FateInv, NEW t \in Threads, Collect(t)
  PROVE  FateInv'
<1> DEFINE slot == current_tick_ % slots_
           ids == {e.id : e \in Expired(slot)}
<1>1. /\ expired[t] = {}
      /\ expired' = [expired EXCEPT ![t] = ids]
      /\ timer_slot_' = [id \in Ids |-> IF id \in ids THEN Absent ELSE timer_slot_[id]]
      /\ wheels_' = [wheels_ EXCEPT ![slot] = @ \ Expired(slot)]
      /\ UNCHANGED <<next_id_, adding, fired, cancelled>>
  BY Zenon DEF Collect
<1>2. slot \in Slots
  BY SlotOf DEF TypeOK
<1>3. \A id \in ids : id \in Ids /\ timer_slot_[id] = slot /\ slot # Absent
  <2>1. slot # Absent
    BY <1>2 DEF Slots, Absent
  <2> QED BY <1>2, <2>1 DEF Expired, FateInv, Consistent, TypeOK, Entries
<1>4. \A id \in ids :
        /\ id < next_id_ /\ id \notin fired /\ id \notin cancelled
        /\ \A u \in Threads : id \notin expired[u]
        /\ \A u \in Threads : adding[u] # NoEntry => adding[u].id # id
  BY <1>3, ZenonT(30) DEF FateInv, WaitingInv, AddingInv
<1>5. /\ expired'[t] = ids
      /\ \A u \in Threads \ {t} : expired'[u] = expired[u]
  BY <1>1, Zenon DEF TypeOK
<1>6. Consistent'
  <2> SUFFICES ASSUME NEW s \in Slots
               PROVE  /\ \A f \in wheels_'[s] :
                           f.expire_tick % slots_ = s /\ timer_slot_'[f.id] = s
                      /\ \A id \in Ids : timer_slot_'[id] = s =>
                           \E f \in wheels_'[s] : f.id = id
    BY Zenon DEF Consistent
  <2>1. ASSUME NEW f \in wheels_'[s]
        PROVE  f.expire_tick % slots_ = s /\ timer_slot_'[f.id] = s
    <3>1. f \in wheels_[s] /\ f.id \in Ids
      BY <1>1, <2>1 DEF TypeOK, Entries
    <3>2. f.expire_tick % slots_ = s /\ timer_slot_[f.id] = s
      BY <3>1, Zenon DEF FateInv, Consistent
    <3>3. f.id \notin ids
      <4> SUFFICES ASSUME NEW g \in Expired(slot), g.id = f.id PROVE FALSE
        BY Zenon
      <4>1. g \in wheels_[slot] /\ timer_slot_[g.id] = slot
        BY <1>2, Zenon DEF Expired, FateInv, Consistent
      <4>2. s = slot /\ f \notin Expired(slot)
        BY <1>1, <1>2, <2>1, <3>2, <4>1, Zenon DEF TypeOK
      <4> QED BY <3>1, <4>1, <4>2, Zenon DEF FateInv, WaitingInv
    <3> QED BY <1>1, <3>1, <3>2, <3>3, Zenon
  <2>2. ASSUME NEW id \in Ids, timer_slot_'[id] = s
        PROVE  \E f \in wheels_'[s] : f.id = id
    <3>1. id \notin ids /\ timer_slot_[id] = s
      BY <1>1, <2>2 DEF Slots, Absent
    <3>2. PICK f \in wheels_[s] : f.id = id
      BY <3>1, Zenon DEF FateInv, Consistent
    <3>3. f \notin Expired(slot)
      BY <3>1, <3>2, Zenon
    <3> QED BY <1>1, <1>2, <3>2, <3>3, Zenon DEF TypeOK
  <2> QED BY <2>1, <2>2, Zenon
<1>7. AddingInv'
  <2> SUFFICES ASSUME NEW u \in Threads, adding[u] # NoEntry
               PROVE  /\ adding[u].id < next_id_
                      /\ timer_slot_'[adding[u].id] = Absent
                      /\ adding[u].id \notin fired /\ adding[u].id \notin cancelled
                      /\ \A v \in Threads : adding[u].id \notin expired'[v]
                      /\ \A v \in Threads : adding[v].id = adding[u].id => v = u
    BY <1>1, Zenon DEF AddingInv
  <2>1. adding[u].id \in Ids /\ adding[u].id \notin ids
    BY <1>4, Zenon DEF TypeOK, Entries
  <2> QED BY <1>1, <1>5, <2>1, Zenon DEF FateInv, AddingInv
<1>8. WaitingInv'
  <2>1. \A id \in Ids : timer_slot_'[id] # Absent =>
          id \notin ids /\ timer_slot_[id] # Absent
    BY <1>1, Zenon
  <2>2. \A s \in Slots : \A f \in wheels_'[s] : f \in wheels_[s]
    BY <1>1, Zenon DEF TypeOK
  <2> QED BY <1>1, <1>5, <2>1, <2>2, ZenonT(30) DEF FateInv, WaitingInv
<1>9. ExpiredInv'
  BY <1>1, <1>4, <1>5 DEF FateInv, ExpiredInv
<1>10. DoneInv'
  BY <1>1, Zenon DEF FateInv, DoneInv
<1>11. Covered'
  BY <1>1, <1>5, Zenon DEF FateInv, Covered
<1> QED BY <1>6, <1>7, <1>8, <1>9, <1>10, <1>11, Zenon DEF FateInv

LEMMA NextFate == TypeOK /\ FateInv /\ [Next]_vars => FateInv'
<1> SUFFICES ASSUME TypeOK, FateInv, [Next]_vars PROVE FateInv'
  BY Zenon
<1>1. ASSUME NEW t \in Threads, Step(t) \/ Collect(t) PROVE FateInv'
  BY <1>1, AddReadFate, AddInsertFate, CancelFate, CollectFate, RunCallbackFate, Zenon DEF Step
<1>2. CASE UNCHANGED vars
  BY <1>2, ZenonT(30) DEF vars, FateInv, Consistent, AddingInv, WaitingInv, ExpiredInv, DoneInv,
             Covered
<1> QED BY <1>1, <1>2, Zenon DEF Next

LEMMA FateInvCorrect == Spec => [](TypeOK /\ FateInv)
BY InitType, NextType, InitFate, NextFate, PTL DEF Spec

\* Consistent: the map cancel_timer trusts agrees with the wheel in every
\* interleaving.
THEOREM MapConsistent == Spec => []Consistent
<1>1. TypeOK /\ FateInv => Consistent
  BY Zenon DEF FateInv
<1> QED BY <1>1, FateInvCorrect, PTL

LEMMA FateInvGivesOneFate == TypeOK /\ FateInv => OneFate
<1> SUFFICES ASSUME TypeOK, FateInv, NEW id \in Ids
             PROVE  IF id < next_id_ THEN \E f \in Fates(id) : Fates(id) = {f}
                                     ELSE Fates(id) = {}
  BY Zenon DEF OneFate
<1> DEFINE A == {u \in Threads : adding[u].id = id}
           W == {x \in InWheel : x.id = id}
           X == {u \in Threads : id \in expired[u]}
           F == fired \cap {id}
           C == cancelled \cap {id}
<1>1. Fates(id) = {<<"adding", t>> : t \in A} \cup {<<"waiting", e>> : e \in W}
                    \cup {<<"expired", t>> : t \in X} \cup {<<"fired", x>> : x \in F}
                    \cup {<<"cancelled", x>> : x \in C}
  BY Zenon DEF Fates
<1>2. \A t \in A : adding[t] # NoEntry
  BY DEF NoEntry, Ids
<1>3. \A e \in W : timer_slot_[id] # Absent /\ \E s \in Slots : timer_slot_[id] = s /\ e \in wheels_[s]
  BY DEF InWheel, FateInv, Consistent, Slots, Absent
<1>4. timer_slot_[id] # Absent => W # {}
  BY DEF InWheel, FateInv, Consistent, TypeOK
<1>5. \A e, f \in W : e = f
  BY <1>3, ZenonT(30) DEF FateInv, WaitingInv
<1>6. CASE ~(id < next_id_)
  <2>1. A = {} /\ W = {} /\ X = {} /\ F = {} /\ C = {}
    BY <1>2, <1>3, <1>6, ZenonT(30) DEF FateInv, AddingInv, WaitingInv, ExpiredInv, DoneInv
  <2>2. Fates(id) = {}
    BY <1>1, <2>1, Zenon
  <2> QED BY <1>6, <2>2, Zenon
<1>7. CASE A # {}
  <2>1. PICK t \in A : TRUE
    BY <1>7, Zenon
  <2>2. A = {t} /\ W = {} /\ X = {} /\ F = {} /\ C = {} /\ id < next_id_
    BY <1>2, <1>3, <2>1 DEF FateInv, AddingInv
  <2>3. Fates(id) = {<<"adding", t>>}
    BY <1>1, <2>2, ZenonT(30)
  <2> QED BY <2>2, <2>3, Zenon
<1>8. CASE W # {}
  <2>1. PICK e \in W : TRUE
    BY <1>8, Zenon
  <2>2. A = {} /\ W = {e} /\ X = {} /\ F = {} /\ C = {} /\ id < next_id_
    BY <1>2, <1>3, <1>5, <2>1 DEF FateInv, AddingInv, WaitingInv
  <2>3. Fates(id) = {<<"waiting", e>>}
    BY <1>1, <2>2, ZenonT(30)
  <2> QED BY <2>2, <2>3, Zenon
<1>9. CASE X # {}
  <2>1. PICK t \in X : TRUE
    BY <1>9, Zenon
  <2>2. A = {} /\ W = {} /\ X = {t} /\ F = {} /\ C = {} /\ id < next_id_
    BY <1>2, <1>3, <2>1 DEF FateInv, AddingInv, WaitingInv, ExpiredInv
  <2>3. Fates(id) = {<<"expired", t>>}
    BY <1>1, <2>2, ZenonT(30)
  <2> QED BY <2>2, <2>3, Zenon
<1>10. CASE id \in fired
  <2>1. A = {} /\ W = {} /\ X = {} /\ F = {id} /\ C = {} /\ id < next_id_
    BY <1>2, <1>3, <1>10, ZenonT(30) DEF FateInv, AddingInv, WaitingInv, ExpiredInv, DoneInv
  <2>2. Fates(id) = {<<"fired", id>>}
    BY <1>1, <2>1, Zenon
  <2> QED BY <2>1, <2>2, Zenon
<1>11. CASE id \in cancelled
  <2>1. A = {} /\ W = {} /\ X = {} /\ F = {} /\ C = {id} /\ id < next_id_
    BY <1>2, <1>3, <1>11, ZenonT(30) DEF FateInv, AddingInv, WaitingInv, ExpiredInv, DoneInv
  <2>2. Fates(id) = {<<"cancelled", id>>}
    BY <1>1, <2>1, Zenon
  <2> QED BY <2>1, <2>2, Zenon
<1>12. id < next_id_ => A # {} \/ W # {} \/ X # {} \/ id \in fired \/ id \in cancelled
  BY <1>4, Zenon DEF FateInv, Covered
<1> QED BY <1>6, <1>7, <1>8, <1>9, <1>10, <1>11, <1>12, Zenon

\* OneFate: no interleaving of any number of threads loses a timer, runs it
\* twice, or runs one whose cancel_timer returned true.
THEOREM EveryTimerHasOneFate == Spec => []OneFate
BY FateInvCorrect, FateInvGivesOneFate, PTL

-----------------------------------------------------------------------------
(***************************************************************************)
(* One turn of the wheel.  WithinOneTurn is not inductive: it does not say *)
(* when the slot of an overdue entry comes round again.  TurnInv does: the *)
(* next visit of that slot lies within one turn of the insertion.          *)
(***************************************************************************)
TurnOK(s, e) ==
  \/ current_tick_ <= e.expire_tick
  \/ \E k \in current_tick_ .. inserted[e.id] + slots_ - 1 : k % slots_ = s

TurnInv == \A s \in Slots : \A e \in wheels_[s] : TurnOK(s, e)

\* A multiple of the number of slots, plus a slot, hashes to that slot.
LEMMA MultipleHashes == \A q \in Nat, s \in Slots : (slots_ * q + s) % slots_ = s
<1> SUFFICES ASSUME NEW q \in Nat, NEW s \in Slots PROVE (slots_ * q + s) % slots_ = s
  BY Zenon
<1> DEFINE k == slots_ * q + s
           d == k \div slots_
           r == k % slots_
<1>1. slots_ \in Nat /\ slots_ > 0 /\ s \in Nat /\ s < slots_
  BY WheelAssumption DEF Slots
<1>2. k \in Nat
  BY <1>1
<1>3. d \in Int /\ r \in Nat /\ r < slots_ /\ k = slots_ * d + r
  BY <1>1, <1>2
<1>4. slots_ * (q - d) = r - s
  BY <1>1, <1>3
<1>5. \A n \in Int : n >= 1 => slots_ * n >= slots_
  BY <1>1
<1>6. \A n \in Int : n <= -1 => slots_ * n <= -slots_
  BY <1>1
<1>7. q - d \in Int /\ ~(q - d >= 1) /\ ~(q - d <= -1)
  BY <1>1, <1>3, <1>4, <1>5, <1>6
<1>8. q - d = 0
  BY <1>7
<1>9. r = s
  BY <1>1, <1>3, <1>4, <1>8
<1> QED BY <1>9, Zenon

\* Each slot is visited once in any slots_ successive ticks.
LEMMA VisitedInATurn == \A n \in Nat, s \in Slots : \E k \in n .. n + slots_ - 1 : k % slots_ = s
<1> SUFFICES ASSUME NEW n \in Nat, NEW s \in Slots
             PROVE  \E k \in n .. n + slots_ - 1 : k % slots_ = s
  BY Zenon
<1> DEFINE q == n \div slots_
           r == n % slots_
<1>1. slots_ \in Nat /\ slots_ > 0 /\ s \in Nat /\ s < slots_
  BY WheelAssumption DEF Slots
<1>2. q \in Nat /\ r \in Nat /\ r < slots_ /\ n = slots_ * q + r
  BY <1>1
<1>3. CASE r <= s
  <2>1. slots_ * q + s \in n .. n + slots_ - 1
    BY <1>1, <1>2, <1>3
  <2> QED BY <1>2, <2>1, MultipleHashes, Zenon
<1>4. CASE r > s
  <2>1. slots_ * (q + 1) = slots_ * q + slots_ /\ q + 1 \in Nat
    BY <1>1, <1>2
  <2>2. slots_ * (q + 1) + s \in n .. n + slots_ - 1
    BY <1>1, <1>2, <1>4, <2>1
  <2> QED BY <2>1, <2>2, MultipleHashes, Zenon
<1> QED BY <1>1, <1>2, <1>3, <1>4

LEMMA TurnInvInit == Init => TurnInv
BY Zenon DEF Init, TurnInv

LEMMA AddInsertTurn ==
  ASSUME TypeOK, FateInv, TurnInv, NEW t \in Threads, AddInsert(t)
  PROVE  TurnInv'
<1>0. PICK e, slot : e = adding[t] /\ slot = e.expire_tick % slots_
  BY Zenon
<1>1. /\ e # NoEntry
      /\ wheels_' = [wheels_ EXCEPT ![slot] = @ \cup {e}]
      /\ inserted' = [inserted EXCEPT ![e.id] = current_tick_]
      /\ current_tick_' = current_tick_
  BY <1>0, Zenon DEF AddInsert
<1>2. e.id \in Ids /\ e.expire_tick \in Nat /\ timer_slot_[e.id] = Absent
  BY <1>0, <1>1 DEF TypeOK, Entries, FateInv, AddingInv
<1>3. slot \in Slots
  BY <1>0, <1>2, SlotOf, Zenon
<1>4. ASSUME NEW s \in Slots, NEW f \in wheels_[s] PROVE TurnOK(s, f)'
  <2>1. timer_slot_[f.id] = s /\ s # Absent
    BY DEF FateInv, Consistent, Slots, Absent
  <2>2. inserted'[f.id] = inserted[f.id]
    BY <1>1, <1>2, <2>1 DEF TypeOK
  <2> QED BY <1>1, <2>2, Zenon DEF TurnInv, TurnOK
<1>5. TurnOK(slot, e)'
  <2>1. inserted'[e.id] = current_tick_ /\ current_tick_ \in Nat
    BY <1>1, <1>2 DEF TypeOK
  <2>2. \E k \in current_tick_ .. current_tick_ + slots_ - 1 : k % slots_ = slot
    BY <1>3, <2>1, VisitedInATurn, Zenon
  <2> QED BY <1>1, <2>1, <2>2, Zenon DEF TurnOK
<1>6. ASSUME NEW s \in Slots, NEW f \in wheels_'[s] PROVE f \in wheels_[s] \/ (s = slot /\ f = e)
  BY <1>1, <1>6, Zenon DEF TypeOK
<1> QED BY <1>4, <1>5, <1>6, Zenon DEF TurnInv

LEMMA CollectTurn ==
  ASSUME TypeOK, FateInv, TurnInv, NEW t \in Threads, Collect(t)
  PROVE  TurnInv'
<1> DEFINE slot == current_tick_ % slots_
<1>1. /\ wheels_' = [wheels_ EXCEPT ![slot] = @ \ Expired(slot)]
      /\ inserted' = inserted /\ current_tick_' = current_tick_ + 1
  BY Zenon DEF Collect
<1>2. slot \in Slots /\ current_tick_ \in Nat
  BY SlotOf DEF TypeOK
<1> SUFFICES ASSUME NEW s \in Slots, NEW e \in wheels_'[s] PROVE TurnOK(s, e)'
  BY Zenon DEF TurnInv
<1>3. e \in wheels_[s] /\ (s = slot => e \notin Expired(slot))
  BY <1>1, <1>2, Zenon DEF TypeOK
<1>4. e.expire_tick \in Nat /\ e.expire_tick % slots_ = s /\ e.id \in Ids
  BY <1>3 DEF TypeOK, Entries, FateInv, Consistent
<1>5. s = slot => e.expire_tick > current_tick_
  BY <1>2, <1>3, <1>4 DEF Expired
<1>6. CASE current_tick_ <= e.expire_tick
  <2>1. e.expire_tick # current_tick_
    BY <1>2, <1>4, <1>5
  <2>2. current_tick_ + 1 <= e.expire_tick
    BY <1>2, <1>4, <1>6, <2>1
  <2> QED BY <1>1, <2>2, Zenon DEF TurnOK
<1>7. CASE ~(current_tick_ <= e.expire_tick)
  <2>1. PICK k \in current_tick_ .. inserted[e.id] + slots_ - 1 : k % slots_ = s
    BY <1>3, <1>7, Zenon DEF TurnInv, TurnOK
  <2>2. k # current_tick_
    BY <1>2, <1>4, <1>5, <1>7, <2>1
  <2>3. inserted[e.id] + slots_ - 1 \in Int
    BY <1>4, WheelAssumption DEF TypeOK
  <2>4. k \in current_tick_ + 1 .. inserted[e.id] + slots_ - 1
    BY <1>2, <2>1, <2>2, <2>3
  <2> QED BY <1>1, <2>1, <2>4, Zenon DEF TurnOK
<1> QED BY <1>6, <1>7, Zenon

LEMMA TurnInvNext == TypeOK /\ FateInv /\ TurnInv /\ [Next]_vars => TurnInv'
<1> SUFFICES ASSUME TypeOK, FateInv, TurnInv, [Next]_vars PROVE TurnInv'
  BY Zenon
<1>1. ASSUME \A s \in Slots : wheels_'[s] \subseteq wheels_[s],
             UNCHANGED <<current_tick_, inserted>>
      PROVE  TurnInv'
  BY <1>1, Zenon DEF TurnInv, TurnOK
<1>2. ASSUME NEW t \in Threads, NEW d \in Delays, AddRead(t, d) PROVE TurnInv'
  BY <1>1, <1>2, Zenon DEF AddRead
<1>3. ASSUME NEW t \in Threads, NEW id \in Ids, Cancel(t, id) PROVE TurnInv'
  BY <1>1, <1>3, Zenon DEF Cancel, TypeOK
<1>4. ASSUME NEW t \in Threads, NEW id \in Ids, RunCallback(t, id) PROVE TurnInv'
  BY <1>1, <1>4, Zenon DEF RunCallback
<1>5. CASE UNCHANGED vars
  BY <1>1, <1>5, Zenon DEF vars
<1> QED BY <1>2, <1>3, <1>4, <1>5, AddInsertTurn, CollectTurn, Zenon DEF Next, Step

LEMMA TurnInvGivesTurn == TypeOK /\ TurnInv => WithinOneTurn
<1> SUFFICES ASSUME TypeOK, TurnInv, NEW s \in Slots, NEW e \in wheels_[s]
             PROVE  current_tick_ <= e.expire_tick \/ current_tick_ < inserted[e.id] + slots_
  BY Zenon DEF WithinOneTurn, InWheel
<1>1. current_tick_ \in Int /\ inserted[e.id] \in Int /\ slots_ \in Int
  BY WheelAssumption DEF TypeOK, Entries
<1> QED BY <1>1 DEF TurnInv, TurnOK

\* WithinOneTurn: however many ticks other threads make between the unlocked read of
\* current_tick_ in add_timer and the insertion, tick() takes the timer out at its expiry
\* or within one turn of the wheel after it was inserted.
THEOREM LateByATurnAtMost == Spec => []WithinOneTurn
BY InitType, NextType, InitFate, NextFate, TurnInvInit, TurnInvNext, TurnInvGivesTurn, PTL DEF Spec

-----------------------------------------------------------------------------
(***************************************************************************)
(* Serial callers with positive delays.  tick() looks at the one slot      *)
(* current_tick_ hashes to.  An entry of another slot cannot expire in     *)
(* this tick, because it lies where its own expiry hashes to.              *)
(***************************************************************************)
PositiveDelays == \A d \in Delays : d >= 1

LEMMA TicksPositive == ASSUME PositiveDelays, NEW d \in Delays PROVE Ticks(d) >= 1
<1>1. \A a \in Nat, b \in Nat \ {0} : a >= b => a \div b >= 1
  OBVIOUS
<1>2. d + tick_ms_ - 1 \in Nat /\ d + tick_ms_ - 1 >= tick_ms_
  BY DelaysAssumption, WheelAssumption DEF PositiveDelays
<1> QED BY <1>1, <1>2, WheelAssumption, Zenon DEF Ticks

LEMMA ExpireLater ==
  ASSUME TypeOK, PositiveDelays, NEW d \in Delays
  PROVE  ExpireTick(d) = current_tick_ + Ticks(d) - 1 /\ ExpireTick(d) >= current_tick_
<1>1. Ticks(d) \in Nat /\ Ticks(d) >= 1 /\ current_tick_ \in Nat
  BY TicksPositive, TicksIsNat, DelaysAssumption, WheelAssumption DEF TypeOK
<1> QED BY <1>1 DEF ExpireTick

LEMMA SerialIsNext == [SerialNext]_vars => [Next]_vars
BY Zenon DEF SerialNext, Next

LEMMA SerialInv == SerialSpec => [](TypeOK /\ FateInv)
BY InitType, NextType, InitFate, NextFate, SerialIsNext, PTL DEF SerialSpec

LEMMA OnTimeNext ==
  ASSUME PositiveDelays
  PROVE  TypeOK /\ FateInv /\ OnTime /\ [SerialNext]_vars => OnTime'
<1> SUFFICES ASSUME TypeOK, FateInv, OnTime, [SerialNext]_vars PROVE OnTime'
  BY Zenon
<1>1. ASSUME NEW t \in Threads, NEW d \in Delays, AddRead(t, d) PROVE OnTime'
  BY <1>1, ExpireLater, Zenon DEF AddRead, OnTime, InWheel, TypeOK
<1>2. ASSUME NEW t \in Threads, AddInsert(t) PROVE OnTime'
  <2>1. \A e \in InWheel' : e \in InWheel \/ e = adding[t]
    BY <1>2 DEF AddInsert, InWheel, TypeOK
  <2> QED BY <1>2, <2>1, Zenon DEF AddInsert, OnTime, TypeOK
<1>3. ASSUME NEW t \in Threads, NEW id \in Ids, Cancel(t, id) PROVE OnTime'
  <2>1. \A e \in InWheel' : e \in InWheel
    BY <1>3 DEF Cancel, InWheel, TypeOK
  <2> QED BY <1>3, <2>1, Zenon DEF Cancel, OnTime
<1>4. ASSUME NEW t \in Threads, NoAdd, Collect(t) PROVE OnTime'
  <2> DEFINE slot == current_tick_ % slots_
  <2>1. /\ wheels_' = [wheels_ EXCEPT ![slot] = @ \ Expired(slot)]
        /\ current_tick_' = current_tick_ + 1 /\ adding' = adding
    BY <1>4, Zenon DEF Collect
  <2>2. ASSUME NEW s \in Slots, NEW e \in wheels_'[s] PROVE e.expire_tick >= current_tick_'
    <3>1. e \in wheels_[s] /\ e.expire_tick \in Nat /\ e.expire_tick >= current_tick_
      BY <2>1, <2>2 DEF TypeOK, Entries, OnTime, InWheel
    <3>2. e.expire_tick # current_tick_
      <4>1. CASE s = slot
        <5>1. slot \in Slots
          BY SlotOf DEF TypeOK
        <5>2. e \notin Expired(slot)
          BY <2>1, <2>2, <4>1, <5>1, Zenon DEF TypeOK
        <5>3. ~(e.expire_tick <= current_tick_)
          BY <3>1, <4>1, <5>2, Zenon DEF Expired
        <5> QED BY <5>3 DEF TypeOK
      <4>2. CASE s # slot
        BY <3>1, <4>2 DEF FateInv, Consistent
      <4> QED BY <4>1, <4>2, Zenon
    <3> QED BY <2>1, <3>1, <3>2 DEF TypeOK
  <2>3. \A e \in InWheel' : \E s \in Slots : e \in wheels_'[s]
    BY Zenon DEF InWheel
  <2> QED BY <1>4, <2>1, <2>2, <2>3, Zenon DEF OnTime, NoAdd
<1>5. ASSUME NEW t \in Threads, NEW id \in Ids, RunCallback(t, id) PROVE OnTime'
  BY <1>5, Zenon DEF RunCallback, OnTime, InWheel
<1>6. CASE UNCHANGED vars
  BY <1>6, Zenon DEF vars, OnTime, InWheel
<1> QED BY <1>1, <1>2, <1>3, <1>4, <1>5, <1>6, Zenon DEF SerialNext, Step

LEMMA OnTimeInit == Init => OnTime
BY ZenonT(60) DEF Init, OnTime, InWheel

\* OnTime: serial callers with positive delays never see an overdue timer,
\* whatever the number of slots and however far the deadlines.
THEOREM NeverOverdue == ASSUME PositiveDelays PROVE SerialSpec => []OnTime
<1>1. Init => OnTime
  BY OnTimeInit, Zenon
<1>2. TypeOK /\ FateInv /\ OnTime /\ [SerialNext]_vars => OnTime'
  BY OnTimeNext, Zenon
<1> QED BY <1>1, <1>2, SerialInv, PTL DEF SerialSpec

-----------------------------------------------------------------------------
(* The wheel of serial callers implements the timer service. *)

Adding == {adding[t] : t \in {u \in Threads : adding[u] # NoEntry}}
Live == InWheel \cup Adding
AsPending(e) == [id |-> e.id, at |-> e.expire_tick]
Pending == {AsPending(e) : e \in Live}
Due == UNION {expired[t] : t \in Threads}

LEMMA LiveEntries == ASSUME TypeOK PROVE Live \subseteq Entries
BY ZenonT(30) DEF TypeOK, Live, InWheel, Adding

LEMMA ServiceInit == Init => Service!Init
BY SMTT(30) DEF Init, Service!Init, InWheel

LEMMA AddReadRefines ==
  ASSUME TypeOK, PositiveDelays, NEW t \in Threads, NEW d \in Delays, AddRead(t, d)
  PROVE  Service!Add(d)
<1> DEFINE e == [id |-> next_id_, expire_tick |-> ExpireTick(d)]
<1>1. /\ adding[t] = NoEntry /\ adding' = [adding EXCEPT ![t] = e]
      /\ next_id_' = next_id_ + 1
      /\ UNCHANGED <<current_tick_, wheels_, expired>>
  BY Zenon DEF AddRead
<1>2. e # NoEntry
  BY SMTT(30) DEF NoEntry, TypeOK
<1>3. Adding' = Adding \cup {e}
  <2>1. \A u \in Threads : adding'[u] = IF u = t THEN e ELSE adding[u]
    BY <1>1, Zenon DEF TypeOK
  <2> QED BY <1>1, <1>2, <2>1, ZenonT(30) DEF Adding
<1>4. Live' = Live \cup {e}
  BY <1>1, <1>3, Zenon DEF Live, InWheel
<1>5. Pending' = Pending \cup {AsPending(e)}
  BY <1>4, Zenon DEF Pending, AsPending
<1>6. AsPending(e) = [id |-> (next_id_ - 1) + 1, at |-> current_tick_ + Ticks(d) - 1]
  BY ExpireLater DEF AsPending, TypeOK
<1>7. next_id_' - 1 = (next_id_ - 1) + 1 /\ Due' = Due
  BY <1>1 DEF TypeOK, Due
<1> QED
  BY <1>1, <1>5, <1>6, <1>7, Zenon
     DEF Service!Add, Service!Ticks, Ticks, Pending, Live, Adding, AsPending, Due

LEMMA AddInsertRefines ==
  ASSUME TypeOK, NEW t \in Threads, AddInsert(t)
  PROVE  UNCHANGED Service!vars
<1> DEFINE e == adding[t]
           slot == e.expire_tick % slots_
<1>1. /\ e # NoEntry /\ adding' = [adding EXCEPT ![t] = NoEntry]
      /\ wheels_' = [wheels_ EXCEPT ![slot] = @ \cup {e}]
      /\ UNCHANGED <<current_tick_, next_id_, expired>>
  BY Zenon DEF AddInsert
<1>2. slot \in Slots
  BY <1>1, SlotOf DEF TypeOK, Entries
<1>3. InWheel' = InWheel \cup {e}
  <2>1. \A s \in Slots : wheels_'[s] = IF s = slot THEN wheels_[s] \cup {e} ELSE wheels_[s]
    BY <1>1, Zenon DEF TypeOK
  <2> QED BY <1>2, <2>1, Zenon DEF InWheel
<1>4. Adding' \cup {e} = Adding
  <2>1. \A u \in Threads : adding'[u] = IF u = t THEN NoEntry ELSE adding[u]
    BY <1>1, Zenon DEF TypeOK
  <2> QED BY <1>1, <2>1, ZenonT(30) DEF Adding
<1>5. Live' = Live
  BY <1>3, <1>4, Zenon DEF Live
<1>6. Pending' = Pending /\ Due' = Due
  BY <1>1, <1>5, Zenon DEF Pending, Due
<1> QED
  BY <1>1, <1>6, Zenon DEF Service!vars, Pending, Live, Adding, AsPending, Due

LEMMA CancelRefines ==
  ASSUME TypeOK, FateInv, NEW t \in Threads, NEW n \in Ids, Cancel(t, n)
  PROVE  \E p \in Pending : Service!Cancel(p)
<1> DEFINE slot == timer_slot_[n]
<1>1. /\ slot # Absent
      /\ wheels_' = [wheels_ EXCEPT ![slot] = {f \in @ : f.id # n}]
      /\ UNCHANGED <<current_tick_, next_id_, adding, expired>>
  BY Zenon DEF Cancel
<1>2. slot \in Slots
  BY <1>1, Zenon DEF TypeOK
<1>3. PICK e \in wheels_[slot] : e.id = n
  BY <1>2, Zenon DEF FateInv, Consistent
<1>4. \A f \in Live : f.id = n => f = e
  <2>1. \A s \in Slots : \A f \in wheels_[s] : f.id = n => f = e
    BY <1>2, <1>3 DEF FateInv, Consistent, WaitingInv
  <2>2. \A u \in Threads : adding[u] # NoEntry => adding[u].id # n
    BY <1>1, Zenon DEF FateInv, AddingInv
  <2> QED BY <2>1, <2>2, Zenon DEF Live, InWheel, Adding
<1>5. Live' = Live \ {e}
  <2>1. \A s \in Slots : wheels_'[s] = wheels_[s] \ {e}
    <3> SUFFICES ASSUME NEW s \in Slots PROVE wheels_'[s] = wheels_[s] \ {e}
      BY Zenon
    <3>1. \A f \in wheels_[s] : f.id = n => f = e
      BY <1>4, Zenon DEF Live, InWheel
    <3>2. CASE s = slot
      BY <1>1, <1>2, <1>3, <3>1, <3>2, Zenon DEF TypeOK
    <3>3. CASE s # slot
      <4>1. e \notin wheels_[s]
        BY <1>2, <1>3, <3>3, Zenon DEF FateInv, Consistent
      <4> QED BY <1>1, <3>3, <4>1, Zenon DEF TypeOK
    <3> QED BY <3>2, <3>3, Zenon
  <2>2. InWheel' = InWheel \ {e}
    BY <2>1 DEF InWheel
  <2>3. e \notin Adding
    BY <1>1, <1>3, ZenonT(30) DEF Adding, FateInv, AddingInv
  <2> QED BY <1>1, <2>2, <2>3, Zenon DEF Live, Adding
<1>6. e \in Live
  BY <1>2, <1>3, Zenon DEF Live, InWheel
<1>7. Pending' = Pending \ {AsPending(e)}
  <2>1. \A f \in Live : AsPending(f) = AsPending(e) => f = e
    BY <1>3, <1>4, Zenon DEF AsPending
  <2> QED BY <1>5, <1>6, <2>1, Zenon DEF Pending, AsPending
<1>8. AsPending(e) \in Pending
  BY <1>6, Zenon DEF Pending
<1>9. Service!Cancel(AsPending(e))
  BY <1>1, <1>7, Zenon DEF Service!Cancel, Pending, Live, Adding, AsPending
<1> QED BY <1>8, <1>9, Zenon

LEMMA CollectRefines ==
  ASSUME TypeOK, FateInv, OnTime, OnTime', NoAdd, NEW t \in Threads, Collect(t)
  PROVE  Service!Tick
<1> DEFINE slot == current_tick_ % slots_
           ids == {f.id : f \in Expired(slot)}
<1>1. /\ expired[t] = {} /\ expired' = [expired EXCEPT ![t] = ids]
      /\ wheels_' = [wheels_ EXCEPT ![slot] = @ \ Expired(slot)]
      /\ current_tick_' = current_tick_ + 1
      /\ UNCHANGED <<next_id_, adding>>
  BY Zenon DEF Collect
<1>2. slot \in Slots
  BY SlotOf DEF TypeOK
<1>3. Live = InWheel /\ Live' = InWheel'
  BY <1>1, Zenon DEF NoAdd, Live, Adding
<1>4. \A e \in Live : e.expire_tick \in Nat /\ e.expire_tick >= current_tick_
  BY <1>3, LiveEntries DEF OnTime, Entries
<1>5. \A e \in Live : e.expire_tick = current_tick_ <=> e \in Expired(slot)
  <2> SUFFICES ASSUME NEW s \in Slots, NEW e \in wheels_[s]
               PROVE  e.expire_tick = current_tick_ <=> e \in Expired(slot)
    BY <1>3, Zenon DEF InWheel
  <2>1. e.expire_tick % slots_ = s /\ e.expire_tick >= current_tick_ /\ e.expire_tick \in Nat
    BY <1>3, <1>4 DEF FateInv, Consistent, InWheel
  <2>2. ASSUME e.expire_tick = current_tick_ PROVE e \in Expired(slot)
    BY <2>1, <2>2, Zenon DEF Expired, TypeOK
  <2>3. ASSUME e \in Expired(slot) PROVE e.expire_tick = current_tick_
    BY <2>1, <2>3 DEF Expired, TypeOK
  <2> QED BY <2>2, <2>3, Zenon
<1>6. \A e \in Expired(slot) : e \in Live
  BY <1>2, <1>3, Zenon DEF Expired, InWheel
<1>7. Live' = {e \in Live : e.expire_tick # current_tick_}
  <2>1. \A s \in Slots : wheels_'[s] = wheels_[s] \ {e \in Live : e.expire_tick = current_tick_}
    <3> SUFFICES ASSUME NEW s \in Slots, NEW e
                 PROVE  e \in wheels_'[s]
                          <=> e \in wheels_[s] /\ ~(e \in Live /\ e.expire_tick = current_tick_)
      BY <1>1, Zenon DEF TypeOK
    <3>1. e \in wheels_[s] => e \in Live
      BY <1>3, Zenon DEF InWheel
    <3>2. e \in wheels_[s] /\ e \in Expired(slot) => s = slot
      BY <1>2 DEF Expired, FateInv, Consistent
    <3> QED BY <1>1, <1>5, <3>1, <3>2, Zenon DEF TypeOK
  <2>2. InWheel' = InWheel \ {e \in Live : e.expire_tick = current_tick_}
    BY <2>1 DEF InWheel
  <2> QED BY <1>3, <2>2, Zenon
<1>8. Pending' = {p \in Pending : p.at # current_tick_}
  BY <1>7, SMTT(30) DEF Pending, AsPending
<1>9. ids = {p.id : p \in {q \in Pending : q.at = current_tick_}}
  <2>1. ASSUME NEW f \in Expired(slot)
        PROVE  \E p \in Pending : p.at = current_tick_ /\ p.id = f.id
    <3>1. /\ AsPending(f) \in Pending /\ AsPending(f).id = f.id
          /\ AsPending(f).at = current_tick_
      BY <1>5, <1>6, Zenon DEF Pending, AsPending
    <3> QED BY <3>1, Zenon
  <2>2. ASSUME NEW p \in Pending, p.at = current_tick_
        PROVE  \E f \in Expired(slot) : f.id = p.id
    <3>1. PICK f \in Live : p = AsPending(f)
      BY Zenon DEF Pending
    <3>2. p.id = f.id /\ p.at = f.expire_tick
      BY <3>1, Zenon DEF AsPending
    <3> QED BY <1>5, <2>2, <3>2, Zenon
  <2> QED BY <2>1, <2>2
<1>10. Due' = Due \cup ids
  <2>1. \A u \in Threads : expired'[u] = IF u = t THEN ids ELSE expired[u]
    BY <1>1, Zenon DEF TypeOK
  <2> QED BY <1>1, <2>1, Zenon DEF Due
<1> QED
  BY <1>1, <1>8, <1>9, <1>10, ZenonT(30)
     DEF Service!Tick, Pending, Live, Adding, AsPending, Due

LEMMA RunCallbackRefines ==
  ASSUME TypeOK, FateInv, NEW t \in Threads, NEW id \in Ids, RunCallback(t, id)
  PROVE  id \in Due /\ Service!Run(id)
<1>1. /\ id \in expired[t] /\ expired' = [expired EXCEPT ![t] = @ \ {id}]
      /\ UNCHANGED <<current_tick_, next_id_, wheels_, adding>>
  BY Zenon DEF RunCallback
<1>2. \A u \in Threads : expired'[u] = expired[u] \ {id}
  BY <1>1 DEF TypeOK, FateInv, ExpiredInv
<1>3. Due' = Due \ {id}
  BY <1>2 DEF Due
<1>4. id \in Due
  BY <1>1, Zenon DEF Due
<1> QED BY <1>1, <1>3, <1>4, ZenonT(30) DEF Service!Run, InWheel, Due

LEMMA SerialRefines ==
  ASSUME PositiveDelays, TypeOK, FateInv, OnTime, OnTime', [SerialNext]_vars
  PROVE  [Service!Next]_(Service!vars)
<1>1. ASSUME NEW t \in Threads, NEW d \in Delays, AddRead(t, d) PROVE Service!Next
  BY <1>1, AddReadRefines, Zenon DEF Service!Next
<1>2. ASSUME NEW t \in Threads, NEW id \in Ids, Cancel(t, id) PROVE Service!Next
  BY <1>2, CancelRefines, Zenon DEF Service!Next, Pending, Live, Adding, AsPending
<1>3. ASSUME NEW t \in Threads, NoAdd, Collect(t) PROVE Service!Next
  BY <1>3, CollectRefines, Zenon DEF Service!Next
<1>4. ASSUME NEW t \in Threads, NEW id \in Ids, RunCallback(t, id) PROVE Service!Next
  BY <1>4, RunCallbackRefines, Zenon DEF Service!Next, Due
<1>5. CASE UNCHANGED vars
  BY <1>5, Zenon DEF vars, Service!vars, InWheel
<1> QED BY <1>1, <1>2, <1>3, <1>4, <1>5, AddInsertRefines, Zenon DEF SerialNext, Step

\* ImplementsService: for serial callers with positive delays the hashed wheel
\* is a timer service: every timer runs exactly in the tick that completes
\* its delay.
THEOREM WheelImplementsService ==
  ASSUME PositiveDelays PROVE SerialSpec => ImplementsService
<1>1. Init => Service!Init
  BY ServiceInit, Zenon
<1>2. TypeOK /\ FateInv /\ OnTime /\ OnTime' /\ [SerialNext]_vars
        => [Service!Next]_(Service!vars)
  BY SerialRefines, Zenon
<1>3. SerialSpec => []OnTime
  BY NeverOverdue, Zenon
<1> QED BY <1>1, <1>2, <1>3, SerialInv, PTL DEF SerialSpec, ImplementsService, Service!Spec

-----------------------------------------------------------------------------
(***************************************************************************)
(* ConnectionPool.                                                         *)
(***************************************************************************)
(* What the constants are. *)

LEMMA ConnsGiven == ASSUME P!PoolAssumption PROVE None \notin Conns
BY Zenon DEF P!PoolAssumption, P!ConnsAssumption

LEMMA LimitsGiven ==
  ASSUME P!PoolAssumption
  PROVE  /\ max_connections \in Nat
         /\ max_idle \in Nat
         /\ PoolWordSize \in Nat
         /\ max_idle < PoolWordSize
         /\ NumThreads \in Nat \ {0}
         /\ max_connections + NumThreads < PoolWordSize
BY Zenon DEF P!PoolAssumption, P!LimitsAssumption

LEMMA EmptySeq == ASSUME NEW S PROVE <<>> \in Seq(S) /\ Len(<<>>) = 0
OBVIOUS

LEMMA LenProperties ==
  ASSUME NEW S, NEW seq \in Seq(S)
  PROVE  Len(seq) \in Nat /\ seq \in [1..Len(seq) -> S] /\ DOMAIN seq = 1..Len(seq)
OBVIOUS

\* r is seq and one more element, elt
Longer(seq, elt, r) ==
  /\ Len(r) = Len(seq) + 1
  /\ \A i \in 1..Len(r) : (i \in 1..Len(seq) /\ r[i] = seq[i]) \/ (i = Len(seq) + 1 /\ r[i] = elt)

LEMMA AppendProperties ==
  ASSUME NEW S, NEW seq \in Seq(S), NEW elt \in S
  PROVE  Append(seq, elt) \in Seq(S) /\ Longer(seq, elt, Append(seq, elt))
BY DEF Longer

-----------------------------------------------------------------------------
(***************************************************************************)
(* Types.  shutdown() zeroes the counters while connections are in use,    *)
(* after which they wrap: that they stay size_t values needs the bound on  *)
(* the deque, since acquire() may uncount as many as lie there.            *)
(***************************************************************************)
TypeInv == P!TypeOK /\ Len(idle_connections_) <= max_idle

LEMMA CounterRange ==
  ASSUME P!PoolAssumption, NEW n \in 0 .. PoolWordSize - 1, NEW k \in 0 .. max_idle
  PROVE  /\ P!Add1(n) \in 0 .. PoolWordSize - 1
         /\ P!Sub(n, k) \in 0 .. PoolWordSize - 1
BY LimitsGiven DEF P!Add1, P!Sub

LEMMA CountByOne ==
  ASSUME P!PoolAssumption, NEW n \in 0 .. PoolWordSize - 1
  PROVE  P!Add1(n) \in 0 .. PoolWordSize - 1 /\ P!Sub(n, 1) \in 0 .. PoolWordSize - 1
BY LimitsGiven DEF P!Add1, P!Sub

LEMMA AcquireIdleType ==
  ASSUME P!PoolAssumption, TypeInv, NEW t \in Users, P!AcquireIdle(t)
  PROVE  TypeInv'
<1>1. PICK i \in DOMAIN idle_connections_ :
        /\ conn' = [conn EXCEPT ![t] = idle_connections_[i]]
        /\ idle_connections_' = SubSeq(idle_connections_, 1, i - 1)
        /\ total_connections_' = P!Sub(total_connections_, Len(idle_connections_) - i)
  BY Zenon DEF P!AcquireIdle
<1>2. /\ i \in 1 .. Len(idle_connections_)
      /\ idle_connections_[i] \in Conns
      /\ idle_connections_' \in Seq(Conns)
      /\ Len(idle_connections_') = i - 1
      /\ Len(idle_connections_) \in Nat
  BY <1>1 DEF TypeInv, P!TypeOK
<1>3. Len(idle_connections_) - i \in 0 .. max_idle /\ Len(idle_connections_') <= max_idle
  BY <1>2, LimitsGiven DEF TypeInv
<1>4. /\ total_connections_' \in 0 .. PoolWordSize - 1
      /\ active_connections_' \in 0 .. PoolWordSize - 1
  BY <1>1, <1>3, CounterRange, Zenon DEF P!AcquireIdle, TypeInv, P!TypeOK
<1> QED BY <1>1, <1>2, <1>3, <1>4, Zenon DEF P!AcquireIdle, TypeInv, P!TypeOK, P!Places

LEMMA DropDeadType ==
  ASSUME P!PoolAssumption, TypeInv, P!DropDeadIdle
  PROVE  /\ idle_connections_' \in Seq(Conns)
         /\ Len(idle_connections_') <= max_idle
         /\ total_connections_' \in 0 .. PoolWordSize - 1
<1>1. idle_connections_' \in Seq(Conns) /\ Len(idle_connections_') = 0
  BY EmptySeq, Zenon DEF P!DropDeadIdle
<1>2. Len(idle_connections_) \in 0 .. max_idle
  BY LimitsGiven DEF TypeInv, P!TypeOK
<1> QED BY <1>1, <1>2, CounterRange, LimitsGiven DEF P!DropDeadIdle, TypeInv, P!TypeOK

LEMMA ReleaseType ==
  ASSUME P!PoolAssumption, TypeInv, NEW t \in Users, P!ReleaseIdle(t) \/ P!ReleaseClose(t)
  PROVE  TypeInv'
<1>1. pc' \in [Users -> P!Places]
  BY ZenonT(30) DEF TypeInv, P!TypeOK, P!ReleaseIdle, P!ReleaseClose, P!NotifyOne, P!Leave, P!At, P!Places
<1>2. /\ conn' \in [Users -> Conns \cup {None}]
      /\ open' \in SUBSET Conns
      /\ upsets' = upsets
  BY Zenon DEF TypeInv, P!TypeOK, P!ReleaseIdle, P!ReleaseClose
<1>3. idle_connections_' \in Seq(Conns) /\ Len(idle_connections_') <= max_idle
  <2>1. CASE P!ReleaseIdle(t)
    <3>1. conn[t] \in Conns
      BY <2>1, Zenon DEF TypeInv, P!TypeOK, P!ReleaseIdle
    <3>2. /\ idle_connections_' = Append(idle_connections_, conn[t])
          /\ Len(idle_connections_) < max_idle
      BY <2>1, Zenon DEF P!ReleaseIdle
    <3> QED BY <3>1, <3>2, LimitsGiven DEF TypeInv, P!TypeOK
  <2>2. CASE P!ReleaseClose(t)
    BY <2>2, Zenon DEF P!ReleaseClose, TypeInv, P!TypeOK
  <2> QED BY <2>1, <2>2, Zenon
<1>4. /\ total_connections_' \in 0 .. PoolWordSize - 1
      /\ active_connections_' \in 0 .. PoolWordSize - 1
  BY CountByOne, Zenon DEF TypeInv, P!TypeOK, P!ReleaseIdle, P!ReleaseClose
<1> QED BY <1>1, <1>2, <1>3, <1>4, Zenon DEF TypeInv, P!TypeOK

LEMMA PoolNextType == ASSUME P!PoolAssumption, TypeInv, [P!Next]_(P!vars) PROVE TypeInv'
<1>1. ASSUME NEW t \in Users, P!Step(t) PROVE TypeInv'
  <2>1. CASE P!AcquireNew(t) \/ P!AcquireWait(t)
    BY <2>1, DropDeadType, Zenon DEF P!AcquireNew, P!AcquireWait, TypeInv, P!TypeOK, P!Places
  <2>2. CASE P!Create(t)
    <3>1. active_connections_' \in 0 .. PoolWordSize - 1
      BY <2>2, CountByOne, Zenon DEF P!Create, TypeInv, P!TypeOK
    <3> QED BY <2>2, <3>1, ZenonT(30) DEF P!Create, TypeInv, P!TypeOK, P!Places
  <2>3. CASE P!CountTotal(t)
    <3>1. total_connections_' \in 0 .. PoolWordSize - 1
      BY <2>3, CountByOne, Zenon DEF P!CountTotal, TypeInv, P!TypeOK
    <3> QED BY <2>3, <3>1, Zenon DEF P!CountTotal, TypeInv, P!TypeOK, P!Places
  <2>4. CASE P!CreateFail(t) \/ P!Wake(t) \/ P!SpuriousWakeup(t)
    BY <2>4, Zenon DEF P!CreateFail, P!Wake, P!SpuriousWakeup, TypeInv, P!TypeOK, P!Places
  <2> QED BY <1>1, <2>1, <2>2, <2>3, <2>4, AcquireIdleType, ReleaseType, Zenon DEF P!Step
<1>2. ASSUME NEW c \in Conns, P!Fail(c) PROVE TypeInv'
  BY <1>2, Zenon DEF P!Fail, TypeInv, P!TypeOK
<1>3. CASE P!Shutdown
  BY <1>3, EmptySeq, LimitsGiven DEF P!Shutdown, TypeInv, P!TypeOK
<1>4. CASE UNCHANGED P!vars
  BY <1>4, Zenon DEF P!vars, TypeInv, P!TypeOK
<1> QED BY <1>1, <1>2, <1>3, <1>4, Zenon DEF P!Next

-----------------------------------------------------------------------------
(***************************************************************************)
(* Ownership.  It does not depend on the counters, so it also holds when   *)
(* shutdown() comes at any moment.                                         *)
(***************************************************************************)
Shape ==
  /\ pc \in [Users -> P!Places]
  /\ conn \in [Users -> Conns \cup {None}]
  /\ idle_connections_ \in Seq(Conns)

\* ExclusiveOwner, element by element
Owned ==
  /\ \A t, u \in Users : conn[t] # None /\ conn[t] = conn[u] => t = u
  /\ \A i, j \in 1 .. Len(idle_connections_) :
       idle_connections_[i] = idle_connections_[j] => i = j
  /\ \A i \in 1 .. Len(idle_connections_), t \in Users :
       idle_connections_[i] # conn[t]

OwnInv == Shape /\ P!HoldersHaveOne /\ Owned

LEMMA OwnedIsExclusive == ASSUME P!PoolAssumption, Shape PROVE Owned <=> P!ExclusiveOwner
<1>1. /\ DOMAIN idle_connections_ = 1 .. Len(idle_connections_)
      /\ \A i \in 1 .. Len(idle_connections_) : idle_connections_[i] # None
  BY ConnsGiven DEF Shape
<1>2. P!Idle \cap P!Held = {}
        <=> \A i \in 1 .. Len(idle_connections_), t \in Users :
              idle_connections_[i] # conn[t]
  <2>1. P!Idle = {idle_connections_[i] : i \in 1 .. Len(idle_connections_)}
    BY <1>1, Zenon DEF P!Idle
  <2>2. ASSUME P!Idle \cap P!Held = {}, NEW i \in 1 .. Len(idle_connections_),
               NEW t \in Users
        PROVE  idle_connections_[i] # conn[t]
    BY <1>1, <2>1, <2>2, Zenon DEF P!Held
  <2>3. ASSUME \A i \in 1 .. Len(idle_connections_), t \in Users :
                 idle_connections_[i] # conn[t],
               NEW c, c \in P!Idle \cap P!Held
        PROVE  FALSE
    BY <2>1, <2>3, Zenon DEF P!Held
  <2> QED BY <2>2, <2>3, Zenon
<1> QED BY <1>1, <1>2, Zenon DEF Owned, P!ExclusiveOwner

LEMMA OwnInit == ASSUME P!PoolAssumption PROVE P!Init => OwnInv
BY EmptySeq DEF P!Init, OwnInv, Shape, P!Places, P!HoldersHaveOne, Owned

LEMMA AcquireIdleOwn ==
  ASSUME P!PoolAssumption, OwnInv, NEW t \in Users, P!AcquireIdle(t)
  PROVE  OwnInv'
<1>1. PICK i \in 1 .. Len(idle_connections_) :
        /\ conn' = [conn EXCEPT ![t] = idle_connections_[i]]
        /\ idle_connections_' = SubSeq(idle_connections_, 1, i - 1)
  <2>1. DOMAIN idle_connections_ = 1 .. Len(idle_connections_)
    BY DEF OwnInv, Shape
  <2> QED BY <2>1, Zenon DEF P!AcquireIdle
<1>2. /\ idle_connections_' \in Seq(Conns)
      /\ Len(idle_connections_') = i - 1
      /\ \A j \in 1 .. i - 1 : idle_connections_'[j] = idle_connections_[j]
      /\ idle_connections_[i] \in Conns
  BY <1>1 DEF OwnInv, Shape
<1>3. pc[t] \in {"out", "retry"} /\ pc' = [pc EXCEPT ![t] = "using"]
  BY Zenon DEF P!AcquireIdle, P!Calling
<1>4. Shape'
  BY <1>1, <1>2, <1>3, Zenon DEF OwnInv, Shape, P!Places
<1>5. P!HoldersHaveOne'
  BY <1>1, <1>2, <1>3, ConnsGiven, Zenon DEF OwnInv, Shape, P!HoldersHaveOne
<1>6. Owned'
  <2>1. \A u, v \in Users : conn'[u] # None /\ conn'[u] = conn'[v] => u = v
    BY <1>1, ZenonT(30) DEF OwnInv, Shape, Owned
  <2>2. \A j, k \in 1 .. Len(idle_connections_') :
          idle_connections_'[j] = idle_connections_'[k] => j = k
    BY <1>2 DEF OwnInv, Owned
  <2>3. \A j \in 1 .. Len(idle_connections_'), u \in Users :
          idle_connections_'[j] # conn'[u]
    <3> SUFFICES ASSUME NEW j \in 1 .. i - 1, NEW u \in Users
                 PROVE  idle_connections_[j] # conn'[u]
      BY <1>2, Zenon
    <3>1. j \in 1 .. Len(idle_connections_) /\ j # i
      BY <1>2 DEF OwnInv, Shape
    <3> QED BY <1>1, <3>1, Zenon DEF OwnInv, Shape, Owned
  <2> QED BY <2>1, <2>2, <2>3, Zenon DEF Owned
<1> QED BY <1>4, <1>5, <1>6, Zenon DEF OwnInv

LEMMA CreateOwn ==
  ASSUME P!PoolAssumption, OwnInv, NEW t \in Users, P!Create(t)
  PROVE  OwnInv'
<1>1. PICK c \in Conns \ (P!Idle \cup P!Held) : conn' = [conn EXCEPT ![t] = c]
  BY Zenon DEF P!Create
<1>2. /\ \A i \in 1 .. Len(idle_connections_) : idle_connections_[i] # c
      /\ \A u \in Users : conn[u] # c
      /\ c # None
  BY <1>1, ConnsGiven DEF P!Idle, P!Held, OwnInv, Shape
<1>3. /\ pc[t] = "creating" /\ pc' = [pc EXCEPT ![t] = "counting"]
      /\ idle_connections_' = idle_connections_
  BY Zenon DEF P!Create
<1>4. Shape'
  BY <1>1, <1>3, Zenon DEF OwnInv, Shape, P!Places
<1>5. P!HoldersHaveOne'
  BY <1>1, <1>2, <1>3, Zenon DEF OwnInv, Shape, P!HoldersHaveOne
<1>6. Owned'
  BY <1>1, <1>2, <1>3, ZenonT(30) DEF OwnInv, Shape, Owned
<1> QED BY <1>4, <1>5, <1>6, Zenon DEF OwnInv

\* release() in either branch, and the closing half of it
LEMMA ReleaseOwn ==
  ASSUME P!PoolAssumption, OwnInv, NEW t \in Users, P!ReleaseIdle(t) \/ P!ReleaseClose(t)
  PROVE  OwnInv'
<1>1. /\ pc[t] = "using" /\ (P!NotifyOne(t) \/ pc' = P!Leave(t))
      /\ conn' = [conn EXCEPT ![t] = None]
  BY Zenon DEF P!ReleaseIdle, P!ReleaseClose
<1>2. /\ pc' \in [Users -> P!Places]
      /\ pc'[t] = "out"
      /\ \A w \in Users \ {t} :
           pc'[w] = pc[w] \/ (pc[w] = "waiting" /\ pc'[w] = "notified")
  <2>1. CASE pc' = P!Leave(t)
    BY <2>1, Zenon DEF OwnInv, Shape, P!Leave, P!Places
  <2>2. CASE \E w \in P!At("waiting") : pc' = [P!Leave(t) EXCEPT ![w] = "notified"]
    BY <1>1, <2>2, Zenon DEF OwnInv, Shape, P!Leave, P!Places, P!At
  <2> QED BY <1>1, <2>1, <2>2, Zenon DEF P!NotifyOne
<1>3. P!HoldersHaveOne'
  BY <1>1, <1>2, Zenon DEF OwnInv, Shape, P!HoldersHaveOne
<1>4. conn[t] \in Conns
  BY <1>1, Zenon DEF OwnInv, Shape, P!HoldersHaveOne
<1>5. CASE P!ReleaseIdle(t)
  <2>1. idle_connections_' = Append(idle_connections_, conn[t])
    BY <1>5, Zenon DEF P!ReleaseIdle
  <2>2. idle_connections_' \in Seq(Conns) /\ Longer(idle_connections_, conn[t], idle_connections_')
    BY <1>4, <2>1, AppendProperties, Zenon DEF OwnInv, Shape
  <2>3. \A u, v \in Users : conn'[u] # None /\ conn'[u] = conn'[v] => u = v
    BY <1>1, Zenon DEF OwnInv, Shape, Owned
  <2>4. \A j, k \in 1 .. Len(idle_connections_') :
          idle_connections_'[j] = idle_connections_'[k] => j = k
    BY <2>2, ZenonT(30) DEF OwnInv, Owned, Longer
  <2>5. \A j \in 1 .. Len(idle_connections_'), u \in Users :
          idle_connections_'[j] # conn'[u]
    <3> SUFFICES ASSUME NEW j \in 1 .. Len(idle_connections_'), NEW u \in Users
                 PROVE  idle_connections_'[j] # conn'[u]
      BY Zenon
    <3>1. idle_connections_'[j] \in Conns
      BY <2>2
    <3>2. u # t => idle_connections_'[j] # conn[u]
      BY <1>4, <2>2, ConnsGiven, Zenon DEF OwnInv, Owned, Longer
    <3>3. conn'[t] = None /\ (u # t => conn'[u] = conn[u])
      BY <1>1, Zenon DEF OwnInv, Shape
    <3> QED
      BY <3>1, <3>2, <3>3, ConnsGiven, Zenon
  <2> QED BY <1>1, <1>2, <1>3, <2>2, <2>3, <2>4, <2>5, Zenon DEF OwnInv, Shape, Owned
<1>6. CASE P!ReleaseClose(t)
  <2>1. idle_connections_' = idle_connections_
    BY <1>6, Zenon DEF P!ReleaseClose
  <2>2. \A j \in 1 .. Len(idle_connections_) : idle_connections_[j] # None
    BY ConnsGiven DEF OwnInv, Shape
  <2>3. Owned'
    BY <1>1, <2>1, <2>2, ZenonT(30) DEF OwnInv, Shape, Owned
  <2>4. Shape'
    BY <1>1, <1>2, <2>1, Zenon DEF OwnInv, Shape
  <2> QED BY <1>3, <2>3, <2>4, Zenon DEF OwnInv
<1> QED BY <1>5, <1>6, Zenon

\* the actions that move neither a reference nor the deque's live part
LEMMA OtherOwn ==
  ASSUME P!PoolAssumption, OwnInv, NEW t \in Users,
         \/ P!AcquireNew(t) \/ P!AcquireWait(t) \/ P!CountTotal(t)
         \/ P!CreateFail(t) \/ P!Wake(t) \/ P!SpuriousWakeup(t)
  PROVE  OwnInv'
<1>1. /\ conn' = conn
      /\ \E p \in P!Places : pc' = [pc EXCEPT ![t] = p]
      /\ pc[t] \in {"counting", "using"} <=> pc'[t] \in {"counting", "using"}
  BY Zenon DEF OwnInv, Shape, P!AcquireNew, P!AcquireWait, P!CountTotal, P!CreateFail, P!Wake,
         P!SpuriousWakeup, P!Calling, P!Places
<1>2. idle_connections_' \in {idle_connections_, <<>>}
  BY Zenon DEF P!AcquireNew, P!AcquireWait, P!CountTotal, P!CreateFail, P!Wake, P!SpuriousWakeup,
         P!DropDeadIdle
<1>3. Shape'
  BY <1>1, <1>2, EmptySeq, Zenon DEF OwnInv, Shape
<1>4. P!HoldersHaveOne'
  BY <1>1, Zenon DEF OwnInv, Shape, P!HoldersHaveOne
<1>5. Owned'
  BY <1>1, <1>2, EmptySeq DEF OwnInv, Owned
<1> QED BY <1>3, <1>4, <1>5, Zenon DEF OwnInv

LEMMA NextOwn == ASSUME P!PoolAssumption PROVE OwnInv /\ [P!Next]_(P!vars) => OwnInv'
<1> SUFFICES ASSUME OwnInv, [P!Next]_(P!vars) PROVE OwnInv'
  BY Zenon
<1>1. ASSUME NEW t \in Users, P!Step(t) PROVE OwnInv'
  BY <1>1, AcquireIdleOwn, CreateOwn, ReleaseOwn, OtherOwn, Zenon DEF P!Step
<1>2. ASSUME NEW c \in Conns, P!Fail(c) PROVE OwnInv'
  BY <1>2, ZenonT(30) DEF P!Fail, OwnInv, Shape, P!HoldersHaveOne, Owned
<1>3. CASE P!Shutdown
  BY <1>3, EmptySeq DEF P!Shutdown, OwnInv, Shape, P!HoldersHaveOne, Owned
<1>4. CASE UNCHANGED P!vars
  BY <1>4, ZenonT(30) DEF P!vars, OwnInv, Shape, P!HoldersHaveOne, Owned
<1> QED BY <1>1, <1>2, <1>3, <1>4, Zenon DEF P!Next

\* ExclusiveOwner: no interleaving of acquire(), release(), failing
\* connections and shutdown() gives one connection to two owners.
THEOREM OwnershipExclusive == P!Spec => []ExclusiveOwner
<1>1. P!Spec => []OwnInv
  BY OwnInit, NextOwn, ConstantsAssumption, PTL DEF P!Spec
<1>2. OwnInv => ExclusiveOwner
  BY OwnedIsExclusive, ConstantsAssumption, Zenon DEF OwnInv, ExclusiveOwner
<1> QED BY <1>1, <1>2, PTL

-----------------------------------------------------------------------------
(* Counting users, as FiniteSets counts them. *)

INSTANCE FiniteSetTheorems

LEMMA SameFinite == ASSUME NEW S PROVE P!IsFiniteSet(S) = IsFiniteSet(S)
BY Zenon DEF P!IsFiniteSet, IsFiniteSet

LEMMA SameCardinality == ASSUME NEW S PROVE P!Cardinality(S) = Cardinality(S)
BY Zenon DEF P!Cardinality, Cardinality

LEMMA UsersGiven == ASSUME P!PoolAssumption PROVE IsFiniteSet(Users) /\ Users # {}
BY SameFinite, Zenon DEF P!PoolAssumption, P!UsersAssumption

LEMMA SizeIsNat ==
  ASSUME P!PoolAssumption, NEW S \in SUBSET Users
  PROVE  /\ IsFiniteSet(S)
         /\ Cardinality(S) \in Nat
         /\ Cardinality(S) <= Cardinality(Users)
BY FS_Subset, FS_CardinalityType, UsersGiven, Zenon

LEMMA SizeLeave ==
  ASSUME P!PoolAssumption, NEW S \in SUBSET Users, NEW t \in S
  PROVE  Cardinality(S \ {t}) = Cardinality(S) - 1 /\ Cardinality(S) # 0
BY SizeIsNat, FS_RemoveElement, FS_EmptySet, Zenon

LEMMA SizeJoin ==
  ASSUME P!PoolAssumption, NEW S \in SUBSET Users, NEW t \in Users \ S
  PROVE  Cardinality(S \cup {t}) = Cardinality(S) + 1
BY SizeIsNat, FS_AddElement, Zenon

LEMMA SizeTwoDisjoint ==
  ASSUME P!PoolAssumption, NEW S \in SUBSET Users, NEW T \in SUBSET Users, S \cap T = {}
  PROVE  Cardinality(S \cup T) = Cardinality(S) + Cardinality(T)
<1>1. IsFiniteSet(S) /\ IsFiniteSet(T)
  BY SizeIsNat, Zenon
<1>2. Cardinality(S \cup T)
        = Cardinality(S) + Cardinality(T) - Cardinality(S \cap T)
  BY <1>1, FS_Union, Zenon
<1>3. Cardinality(S \cap T) = 0
  BY FS_EmptySet, Zenon
<1> QED BY <1>2, <1>3, SizeIsNat

LEMMA SizeSubset ==
  ASSUME P!PoolAssumption, NEW T \in SUBSET Users, NEW S \in SUBSET T
  PROVE  Cardinality(S) <= Cardinality(T)
BY SizeIsNat, FS_Subset, Zenon

\* At(p) changes only by the users that move.
LEMMA AtIsSubset == ASSUME P!PoolAssumption, NEW p PROVE P!At(p) \in SUBSET Users
BY Zenon DEF P!At

-----------------------------------------------------------------------------
(***************************************************************************)
(* The counters.  Accounting and BoundedOvershoot relate seven numbers:    *)
(* the two counters, the length of the deque, the users using, counting    *)
(* and creating a connection, and the number of threads.  What each action *)
(* does to them is a fact of arithmetic, stated here about numbers.        *)
(***************************************************************************)
Balanced(active, total, idle, using, counting, creating, n) ==
  /\ active \in Nat /\ total \in Nat /\ idle \in Nat
  /\ using \in Nat /\ counting \in Nat /\ creating \in Nat /\ n \in Nat
  /\ active = using + counting
  /\ total = idle + using
  /\ total + creating + counting <= max_connections + n - 1
  /\ idle <= max_idle
  /\ max_connections + n < PoolWordSize

LEMMA BalancedRange ==
  ASSUME P!PoolAssumption, NEW a, NEW t, NEW l, NEW u, NEW c, NEW k, NEW n,
         Balanced(a, t, l, u, c, k, n)
  PROVE  a \in 0 .. PoolWordSize - 1 /\ t \in 0 .. PoolWordSize - 1
BY LimitsGiven, SMTT(30) DEF Balanced

LEMMA BalancedAcquireIdle ==
  ASSUME P!PoolAssumption, NEW a, NEW t, NEW l, NEW u, NEW c, NEW k, NEW n,
         Balanced(a, t, l, u, c, k, n), NEW i \in 1 .. l
  PROVE  Balanced(P!Add1(a), P!Sub(t, l - i), i - 1, u + 1, c, k, n)
BY LimitsGiven, SMTT(30) DEF Balanced, P!Add1, P!Sub

LEMMA BalancedDrop ==
  ASSUME P!PoolAssumption, NEW a, NEW t, NEW l, NEW u, NEW c, NEW k, NEW n,
         Balanced(a, t, l, u, c, k, n)
  PROVE  /\ Balanced(a, P!Sub(t, l), 0, u, c, k, n)
         /\ k + c + 1 <= n /\ P!Sub(t, l) < max_connections
              => Balanced(a, P!Sub(t, l), 0, u, c, k + 1, n)
BY LimitsGiven, SMTT(30) DEF Balanced, P!Sub

LEMMA BalancedCreate ==
  ASSUME P!PoolAssumption, NEW a, NEW t, NEW l, NEW u, NEW c, NEW k, NEW n,
         Balanced(a, t, l, u, c, k, n), k # 0
  PROVE  /\ Balanced(P!Add1(a), t, l, u, c + 1, k - 1, n)
         /\ Balanced(a, t, l, u, c, k - 1, n)
BY LimitsGiven, SMTT(30) DEF Balanced, P!Add1

LEMMA BalancedCountTotal ==
  ASSUME P!PoolAssumption, NEW a, NEW t, NEW l, NEW u, NEW c, NEW k, NEW n,
         Balanced(a, t, l, u, c, k, n), c # 0
  PROVE  Balanced(a, P!Add1(t), l, u + 1, c - 1, k, n)
BY LimitsGiven, SMTT(30) DEF Balanced, P!Add1

LEMMA BalancedRelease ==
  ASSUME P!PoolAssumption, NEW a, NEW t, NEW l, NEW u, NEW c, NEW k, NEW n,
         Balanced(a, t, l, u, c, k, n), u # 0
  PROVE  /\ l < max_idle => Balanced(P!Sub(a, 1), t, l + 1, u - 1, c, k, n)
         /\ Balanced(P!Sub(a, 1), P!Sub(t, 1), l, u - 1, c, k, n)
BY LimitsGiven DEF Balanced, P!Sub

\* the numbers of the current state
Balance ==
  Balanced(active_connections_, total_connections_, Len(idle_connections_),
           Cardinality(P!At("using")), Cardinality(P!At("counting")),
           Cardinality(P!At("creating")), NumThreads)

LEMMA CountsAreNat ==
  ASSUME P!PoolAssumption, P!TypeOK
  PROVE  /\ Cardinality(P!At("using")) \in Nat
         /\ Cardinality(P!At("creating")) \in Nat
         /\ Cardinality(P!At("counting")) \in Nat
         /\ Len(idle_connections_) \in Nat
         /\ total_connections_ \in Nat
         /\ active_connections_ \in Nat
<1>1. Len(idle_connections_) \in Nat
  BY LenProperties, Zenon DEF P!TypeOK
<1>2. /\ Cardinality(P!At("using")) \in Nat
      /\ Cardinality(P!At("creating")) \in Nat
      /\ Cardinality(P!At("counting")) \in Nat
  BY SizeIsNat, AtIsSubset, Zenon
<1>3. total_connections_ \in Nat /\ active_connections_ \in Nat
  BY LimitsGiven, SMTT(30) DEF P!TypeOK
<1> QED BY <1>1, <1>2, <1>3, Zenon

LEMMA BalanceMeans ==
  ASSUME P!PoolAssumption, P!TypeOK, Balance
  PROVE  P!Accounting /\ P!BoundedOvershoot
BY CountsAreNat, LimitsGiven, SameCardinality, Zenon
   DEF Balance, Balanced, P!Accounting, P!BoundedOvershoot

-----------------------------------------------------------------------------
(***************************************************************************)
(* Users inside acquire() occupy a thread each, so NumThreads bounds them. *)
(* This is what bounds the users past the limit test at the same time.     *)
(***************************************************************************)
CallsHaveThreads == Cardinality(P!InCall) <= NumThreads

LEMMA CallNeedsThread ==
  ASSUME P!PoolAssumption, CallsHaveThreads, NEW t \in Users, P!Calling(t)
  PROVE  Cardinality(P!InCall \cup {t}) <= NumThreads
<1>1. P!InCall \in SUBSET Users
  BY Zenon DEF P!InCall
<1>2. CASE pc[t] = "retry"
  <2>1. P!InCall \cup {t} = P!InCall
    BY <1>2, Zenon DEF P!InCall
  <2> QED BY <2>1, Zenon DEF CallsHaveThreads
<1>3. CASE pc[t] = "out" /\ P!ThreadFree
  <2>1. t \notin P!InCall
    BY <1>3, Zenon DEF P!InCall
  <2>2. Cardinality(P!InCall \cup {t}) = Cardinality(P!InCall) + 1
    BY <1>1, <2>1, SizeJoin, Zenon
  <2>3. Cardinality(P!InCall) \in Nat
    BY <1>1, SizeIsNat, Zenon
  <2> QED BY <1>3, <2>2, <2>3, LimitsGiven, SameCardinality, SMTT(30) DEF P!ThreadFree
<1> QED BY <1>2, <1>3, Zenon DEF P!Calling

\* release(): the caller leaves, and the user it notifies only stops waiting
LEMMA ReleaseMoves ==
  ASSUME P!PoolAssumption, P!TypeOK, NEW t \in Users, pc[t] = "using", P!NotifyOne(t) \/ pc' = P!Leave(t)
  PROVE  /\ pc' \in [Users -> P!Places]
         /\ pc'[t] = "out"
         /\ \A w \in Users \ {t} :
              pc'[w] = pc[w] \/ (pc[w] = "waiting" /\ pc'[w] = "notified")
<1>1. CASE pc' = P!Leave(t)
  BY <1>1, Zenon DEF P!TypeOK, P!Leave, P!Places
<1>2. CASE \E w \in P!At("waiting") : pc' = [P!Leave(t) EXCEPT ![w] = "notified"]
  BY <1>2, Zenon DEF P!TypeOK, P!Leave, P!Places, P!At
<1> QED BY <1>1, <1>2, Zenon DEF P!NotifyOne

\* a step adds no user to the calls, or one that found a thread free
LEMMA StepCalls ==
  ASSUME P!PoolAssumption, P!TypeOK, CallsHaveThreads, NEW t \in Users, P!Step(t)
  PROVE  CallsHaveThreads'
<1>1. P!InCall \in SUBSET Users
  BY Zenon DEF P!InCall
<1>2. CASE P!AcquireIdle(t) \/ P!AcquireNew(t) \/ P!AcquireWait(t)
  <2>1. P!Calling(t) /\ \E p \in P!Places : pc' = [pc EXCEPT ![t] = p]
    BY <1>2, Zenon DEF P!AcquireIdle, P!AcquireNew, P!AcquireWait, P!Places
  <2>2. P!InCall' \in SUBSET (P!InCall \cup {t})
    BY <2>1, Zenon DEF P!InCall, P!TypeOK
  <2>3. Cardinality(P!InCall \cup {t}) <= NumThreads
    BY <2>1, CallNeedsThread, Zenon
  <2>4. P!InCall \cup {t} \in SUBSET Users
    BY <1>1, Zenon
  <2>5. Cardinality(P!InCall') <= Cardinality(P!InCall \cup {t})
    BY <2>2, <2>4, SizeSubset, Zenon
  <2>6. Cardinality(P!InCall') \in Nat /\ Cardinality(P!InCall \cup {t}) \in Nat
    BY <2>2, <2>4, SizeIsNat, Zenon
  <2> QED BY <2>3, <2>5, <2>6, LimitsGiven, SMTT(30) DEF CallsHaveThreads
<1>3. CASE ~(P!AcquireIdle(t) \/ P!AcquireNew(t) \/ P!AcquireWait(t))
  <2>1. P!InCall' \in SUBSET P!InCall
    <3>1. CASE P!Create(t) \/ P!CountTotal(t) \/ P!CreateFail(t)
      BY <3>1, Zenon DEF P!Create, P!CountTotal, P!CreateFail, P!InCall, P!TypeOK
    <3>2. CASE P!Wake(t) \/ P!SpuriousWakeup(t)
      BY <3>2, Zenon DEF P!Wake, P!SpuriousWakeup, P!InCall, P!TypeOK
    <3>3. CASE P!ReleaseIdle(t) \/ P!ReleaseClose(t)
      <4>1. pc[t] = "using" /\ (P!NotifyOne(t) \/ pc' = P!Leave(t))
        BY <3>3, Zenon DEF P!ReleaseIdle, P!ReleaseClose
      <4> QED BY <4>1, ReleaseMoves, Zenon DEF P!InCall
    <3> QED BY <1>3, <3>1, <3>2, <3>3, Zenon DEF P!Step
  <2>2. Cardinality(P!InCall') <= Cardinality(P!InCall)
    BY <1>1, <2>1, SizeSubset, Zenon
  <2>3. Cardinality(P!InCall') \in Nat /\ Cardinality(P!InCall) \in Nat
    BY <1>1, <2>1, SizeIsNat, Zenon
  <2> QED BY <2>2, <2>3, LimitsGiven, SMTT(30) DEF CallsHaveThreads
<1> QED BY <1>2, <1>3, Zenon

-----------------------------------------------------------------------------
(* One lemma per action that touches a counter. *)

LEMMA InitBalance == ASSUME P!PoolAssumption PROVE P!Init => P!TypeOK /\ Balance
<1> SUFFICES ASSUME P!Init PROVE P!TypeOK /\ Balance
  BY Zenon
<1>1. P!TypeOK
  BY LimitsGiven, SizeIsNat, EmptySeq DEF P!Init, P!TypeOK, P!Places
<1>2. P!At("using") = {} /\ P!At("creating") = {} /\ P!At("counting") = {}
  BY Zenon DEF P!Init, P!At
<1>3. Cardinality({}) = 0
  BY FS_EmptySet, Zenon
<1>5. \A n \in Nat \ {0} :
        max_connections + n < PoolWordSize => Balanced(0, 0, 0, 0, 0, 0, n)
  BY LimitsGiven DEF Balanced
<1>6. Balanced(0, 0, 0, 0, 0, 0, NumThreads)
  BY <1>5, LimitsGiven, Zenon
<1>7. /\ total_connections_ = 0 /\ active_connections_ = 0
      /\ Len(idle_connections_) = 0
  BY Zenon DEF P!Init
<1> QED BY <1>1, <1>2, <1>3, <1>6, <1>7, Zenon DEF Balance

LEMMA AcquireIdleBalance ==
  ASSUME P!PoolAssumption, P!TypeOK, Balance, NEW t \in Users, P!AcquireIdle(t)
  PROVE  P!TypeOK' /\ Balance'
<1>1. PICK i \in DOMAIN idle_connections_ :
        /\ conn' = [conn EXCEPT ![t] = idle_connections_[i]]
        /\ idle_connections_' = SubSeq(idle_connections_, 1, i - 1)
        /\ total_connections_' = P!Sub(total_connections_, Len(idle_connections_) - i)
  BY Zenon DEF P!AcquireIdle
<1>2. /\ i \in 1 .. Len(idle_connections_)
      /\ idle_connections_[i] \in Conns
      /\ idle_connections_' \in Seq(Conns)
      /\ Len(idle_connections_') = i - 1
  BY <1>1, SMTT(30) DEF P!TypeOK
<1>3. pc[t] \in {"out", "retry"} /\ pc' = [pc EXCEPT ![t] = "using"]
  BY Zenon DEF P!AcquireIdle, P!Calling
<1>4. /\ P!At("using")' = P!At("using") \cup {t} /\ t \notin P!At("using")
      /\ P!At("creating")' = P!At("creating") /\ P!At("counting")' = P!At("counting")
  BY <1>3, Zenon DEF P!TypeOK, P!At
<1>5. Cardinality(P!At("using")') = Cardinality(P!At("using")) + 1
  BY <1>4, SizeJoin, AtIsSubset, Zenon
<1>6. active_connections_' = P!Add1(active_connections_)
  BY Zenon DEF P!AcquireIdle
<1>7. Balance'
  <2>1. Balanced(P!Add1(active_connections_),
                 P!Sub(total_connections_, Len(idle_connections_) - i), i - 1,
                 Cardinality(P!At("using")) + 1, Cardinality(P!At("counting")),
                 Cardinality(P!At("creating")), NumThreads)
    BY <1>2, BalancedAcquireIdle, Zenon DEF Balance
  <2> QED BY <1>1, <1>2, <1>4, <1>5, <1>6, <2>1, Zenon DEF Balance
<1>8. P!TypeOK'
  <2>1. /\ total_connections_' \in 0 .. PoolWordSize - 1
        /\ active_connections_' \in 0 .. PoolWordSize - 1
    BY <1>7, BalancedRange, Zenon DEF Balance
  <2> QED BY <1>1, <1>2, <1>3, <2>1, Zenon DEF P!TypeOK, P!AcquireIdle, P!Places
<1> QED BY <1>7, <1>8, Zenon

LEMMA AcquireNewBalance ==
  ASSUME P!PoolAssumption, P!TypeOK, Balance, CallsHaveThreads, NEW t \in Users, P!AcquireNew(t)
  PROVE  P!TypeOK' /\ Balance'
<1>1. pc[t] \in {"out", "retry"} /\ pc' = [pc EXCEPT ![t] = "creating"]
  BY Zenon DEF P!AcquireNew, P!Calling
<1>2. /\ P!At("creating")' = P!At("creating") \cup {t} /\ t \notin P!At("creating")
      /\ t \notin P!At("counting")
      /\ P!At("using")' = P!At("using") /\ P!At("counting")' = P!At("counting")
      /\ P!At("creating") \cap P!At("counting") = {}
  BY <1>1, Zenon DEF P!TypeOK, P!At
<1>3. Cardinality(P!At("creating")') = Cardinality(P!At("creating")) + 1
  BY <1>2, SizeJoin, AtIsSubset, Zenon
<1>4. Cardinality(P!At("creating")) + Cardinality(P!At("counting")) + 1 <= NumThreads
  <2>1. Cardinality(P!At("creating") \cup P!At("counting"))
          = Cardinality(P!At("creating")) + Cardinality(P!At("counting"))
    BY <1>2, SizeTwoDisjoint, AtIsSubset, Zenon
  <2>2. Cardinality((P!At("creating") \cup P!At("counting")) \cup {t})
          = Cardinality(P!At("creating") \cup P!At("counting")) + 1
    BY <1>2, SizeJoin, AtIsSubset, Zenon
  <2>3. (P!At("creating") \cup P!At("counting")) \cup {t} \in SUBSET (P!InCall \cup {t})
    BY Zenon DEF P!At, P!InCall
  <2>4. Cardinality(P!InCall \cup {t}) <= NumThreads
    BY CallNeedsThread, Zenon DEF P!AcquireNew
  <2>5. P!InCall \cup {t} \in SUBSET Users
    BY Zenon DEF P!InCall
  <2>6. Cardinality((P!At("creating") \cup P!At("counting")) \cup {t})
          <= Cardinality(P!InCall \cup {t})
    BY <2>3, <2>5, SizeSubset, Zenon
  <2> QED BY <2>1, <2>2, <2>4, <2>6, SizeIsNat, AtIsSubset, <2>5, LimitsGiven, SMTT(30)
<1>5. /\ idle_connections_' = <<>> /\ Len(idle_connections_') = 0
      /\ total_connections_' = P!Sub(total_connections_, Len(idle_connections_))
      /\ total_connections_' < max_connections
      /\ active_connections_' = active_connections_
  BY Zenon DEF P!AcquireNew, P!DropDeadIdle
<1>6. Balance'
  <2>1. Balanced(active_connections_,
                 P!Sub(total_connections_, Len(idle_connections_)), 0,
                 Cardinality(P!At("using")), Cardinality(P!At("counting")),
                 Cardinality(P!At("creating")) + 1, NumThreads)
    BY <1>4, <1>5, BalancedDrop, Zenon DEF Balance
  <2> QED BY <1>2, <1>3, <1>5, <2>1, Zenon DEF Balance
<1>7. P!TypeOK'
  <2>1. total_connections_' \in 0 .. PoolWordSize - 1
    BY <1>6, BalancedRange, Zenon DEF Balance
  <2> QED BY <1>1, <1>5, <2>1, SMTT(30) DEF P!TypeOK, P!AcquireNew, P!Places
<1> QED BY <1>6, <1>7, Zenon

LEMMA AcquireWaitBalance ==
  ASSUME P!PoolAssumption, P!TypeOK, Balance, NEW t \in Users, P!AcquireWait(t)
  PROVE  P!TypeOK' /\ Balance'
<1>1. pc[t] \in {"out", "retry"} /\ pc' = [pc EXCEPT ![t] = "waiting"]
  BY Zenon DEF P!AcquireWait, P!Calling
<1>2. /\ P!At("using")' = P!At("using") /\ P!At("counting")' = P!At("counting")
      /\ P!At("creating")' = P!At("creating")
  BY <1>1, Zenon DEF P!TypeOK, P!At
<1>3. /\ idle_connections_' = <<>> /\ Len(idle_connections_') = 0
      /\ total_connections_' = P!Sub(total_connections_, Len(idle_connections_))
      /\ active_connections_' = active_connections_
  BY Zenon DEF P!AcquireWait, P!DropDeadIdle
<1>4. Balance'
  <2>1. Balanced(active_connections_,
                 P!Sub(total_connections_, Len(idle_connections_)), 0,
                 Cardinality(P!At("using")), Cardinality(P!At("counting")),
                 Cardinality(P!At("creating")), NumThreads)
    BY BalancedDrop, Zenon DEF Balance
  <2> QED BY <1>2, <1>3, <2>1, Zenon DEF Balance
<1>5. P!TypeOK'
  <2>1. total_connections_' \in 0 .. PoolWordSize - 1
    BY <1>4, BalancedRange, Zenon DEF Balance
  <2> QED BY <1>1, <1>3, <2>1, SMTT(30) DEF P!TypeOK, P!AcquireWait, P!Places
<1> QED BY <1>4, <1>5, Zenon

LEMMA CreateBalance ==
  ASSUME P!PoolAssumption, P!TypeOK, Balance, NEW t \in Users, P!Create(t)
  PROVE  P!TypeOK' /\ Balance'
<1>1. pc[t] = "creating" /\ pc' = [pc EXCEPT ![t] = "counting"]
  BY Zenon DEF P!Create
<1>2. /\ P!At("creating")' = P!At("creating") \ {t} /\ t \in P!At("creating")
      /\ P!At("counting")' = P!At("counting") \cup {t} /\ t \notin P!At("counting")
      /\ P!At("using")' = P!At("using")
  BY <1>1, Zenon DEF P!TypeOK, P!At
<1>3. /\ Cardinality(P!At("creating")') = Cardinality(P!At("creating")) - 1
      /\ Cardinality(P!At("counting")') = Cardinality(P!At("counting")) + 1
      /\ Cardinality(P!At("creating")) # 0
  BY <1>2, SizeJoin, SizeLeave, AtIsSubset, ZenonT(30)
<1>4. Balance'
  <2>1. Balanced(P!Add1(active_connections_), total_connections_,
                 Len(idle_connections_), Cardinality(P!At("using")),
                 Cardinality(P!At("counting")) + 1,
                 Cardinality(P!At("creating")) - 1, NumThreads)
    BY <1>3, BalancedCreate, Zenon DEF Balance
  <2> QED BY <1>2, <1>3, <2>1, Zenon DEF Balance, P!Create
<1>5. P!TypeOK'
  <2>1. active_connections_' \in 0 .. PoolWordSize - 1
    BY <1>4, BalancedRange, Zenon DEF Balance
  <2> QED BY <1>1, <2>1, ZenonT(60) DEF P!TypeOK, P!Create, P!Places
<1> QED BY <1>4, <1>5, Zenon

LEMMA CountTotalBalance ==
  ASSUME P!PoolAssumption, P!TypeOK, Balance, NEW t \in Users, P!CountTotal(t)
  PROVE  P!TypeOK' /\ Balance'
<1>1. pc[t] = "counting" /\ pc' = [pc EXCEPT ![t] = "using"]
  BY Zenon DEF P!CountTotal
<1>2. /\ P!At("counting")' = P!At("counting") \ {t} /\ t \in P!At("counting")
      /\ P!At("using")' = P!At("using") \cup {t} /\ t \notin P!At("using")
      /\ P!At("creating")' = P!At("creating")
  BY <1>1, Zenon DEF P!TypeOK, P!At
<1>3. /\ Cardinality(P!At("counting")') = Cardinality(P!At("counting")) - 1
      /\ Cardinality(P!At("using")') = Cardinality(P!At("using")) + 1
      /\ Cardinality(P!At("counting")) # 0
  BY <1>2, SizeJoin, SizeLeave, AtIsSubset, ZenonT(30)
<1>4. Balance'
  <2>1. Balanced(active_connections_, P!Add1(total_connections_),
                 Len(idle_connections_), Cardinality(P!At("using")) + 1,
                 Cardinality(P!At("counting")) - 1,
                 Cardinality(P!At("creating")), NumThreads)
    BY <1>3, BalancedCountTotal, Zenon DEF Balance
  <2> QED BY <1>2, <1>3, <2>1, Zenon DEF Balance, P!CountTotal
<1>5. P!TypeOK'
  <2>1. total_connections_' \in 0 .. PoolWordSize - 1
    BY <1>4, BalancedRange, Zenon DEF Balance
  <2> QED BY <1>1, <2>1, Zenon DEF P!TypeOK, P!CountTotal, P!Places
<1> QED BY <1>4, <1>5, Zenon

LEMMA CreateFailBalance ==
  ASSUME P!PoolAssumption, P!TypeOK, Balance, NEW t \in Users, P!CreateFail(t)
  PROVE  P!TypeOK' /\ Balance'
<1>1. pc[t] = "creating" /\ pc' = [pc EXCEPT ![t] = "out"]
  BY Zenon DEF P!CreateFail
<1>2. /\ P!At("creating")' = P!At("creating") \ {t} /\ t \in P!At("creating")
      /\ P!At("counting")' = P!At("counting") /\ P!At("using")' = P!At("using")
  BY <1>1, Zenon DEF P!TypeOK, P!At
<1>3. /\ Cardinality(P!At("creating")') = Cardinality(P!At("creating")) - 1
      /\ Cardinality(P!At("creating")) # 0
  BY <1>2, SizeLeave, AtIsSubset, Zenon
<1>4. Balance'
  <2>1. Balanced(active_connections_, total_connections_,
                 Len(idle_connections_), Cardinality(P!At("using")),
                 Cardinality(P!At("counting")),
                 Cardinality(P!At("creating")) - 1, NumThreads)
    BY <1>3, BalancedCreate, Zenon DEF Balance
  <2> QED BY <1>2, <1>3, <2>1, Zenon DEF Balance, P!CreateFail
<1>5. P!TypeOK'
  BY <1>1, Zenon DEF P!TypeOK, P!CreateFail, P!Places
<1> QED BY <1>4, <1>5, Zenon

LEMMA WakeBalance ==
  ASSUME P!PoolAssumption, P!TypeOK, Balance, NEW t \in Users, P!Wake(t) \/ P!SpuriousWakeup(t)
  PROVE  P!TypeOK' /\ Balance'
<1>1. /\ pc[t] \in {"waiting", "notified"}
      /\ \E p \in {"waiting", "notified", "retry"} : pc' = [pc EXCEPT ![t] = p]
  BY Zenon DEF P!Wake, P!SpuriousWakeup
<1>2. /\ P!At("creating")' = P!At("creating") /\ P!At("counting")' = P!At("counting")
      /\ P!At("using")' = P!At("using")
  BY <1>1, Zenon DEF P!TypeOK, P!At
<1>3. UNCHANGED <<conn, open, idle_connections_, total_connections_, active_connections_, upsets>>
  BY Zenon DEF P!Wake, P!SpuriousWakeup
<1>4. P!TypeOK'
  BY <1>1, <1>3, Zenon DEF P!TypeOK, P!Places
<1> QED BY <1>2, <1>3, <1>4, Zenon DEF Balance

LEMMA ReleaseSets ==
  ASSUME P!PoolAssumption, P!TypeOK, NEW t \in Users, pc[t] = "using", P!NotifyOne(t) \/ pc' = P!Leave(t)
  PROVE  /\ Cardinality(P!At("using")') = Cardinality(P!At("using")) - 1
         /\ Cardinality(P!At("using")) # 0
         /\ P!At("creating")' = P!At("creating") /\ P!At("counting")' = P!At("counting")
<1>1. /\ P!At("using")' = P!At("using") \ {t} /\ t \in P!At("using")
      /\ P!At("creating")' = P!At("creating") /\ P!At("counting")' = P!At("counting")
  BY ReleaseMoves, Zenon DEF P!At
<1> QED BY <1>1, SizeLeave, AtIsSubset, Zenon

LEMMA ReleaseIdleBalance ==
  ASSUME P!PoolAssumption, P!TypeOK, Balance, NEW t \in Users, P!ReleaseIdle(t)
  PROVE  P!TypeOK' /\ Balance'
<1>1. pc[t] = "using" /\ P!NotifyOne(t)
  BY Zenon DEF P!ReleaseIdle
<1>2. /\ idle_connections_' = Append(idle_connections_, conn[t])
      /\ conn[t] \in Conns
  BY Zenon DEF P!ReleaseIdle, P!TypeOK
<1>3. /\ idle_connections_' \in Seq(Conns)
      /\ Len(idle_connections_') = Len(idle_connections_) + 1
  BY <1>2, AppendProperties, Zenon DEF P!TypeOK, Longer
<1>4. Balance'
  <2>1. Balanced(P!Sub(active_connections_, 1), total_connections_,
                 Len(idle_connections_) + 1, Cardinality(P!At("using")) - 1,
                 Cardinality(P!At("counting")),
                 Cardinality(P!At("creating")), NumThreads)
    BY <1>1, ReleaseSets, BalancedRelease, ZenonT(30) DEF Balance, P!ReleaseIdle
  <2> QED BY <1>1, <1>3, <2>1, ReleaseSets, Zenon DEF Balance, P!ReleaseIdle
<1>5. P!TypeOK'
  <2>1. active_connections_' \in 0 .. PoolWordSize - 1
    BY <1>4, BalancedRange, Zenon DEF Balance
  <2> QED BY <1>1, <1>3, <2>1, ReleaseMoves, ZenonT(30) DEF P!TypeOK, P!ReleaseIdle
<1> QED BY <1>4, <1>5, Zenon

LEMMA ReleaseCloseBalance ==
  ASSUME P!PoolAssumption, P!TypeOK, Balance, NEW t \in Users, P!ReleaseClose(t)
  PROVE  P!TypeOK' /\ Balance'
<1>1. pc[t] = "using" /\ pc' = P!Leave(t)
  BY ZenonT(30) DEF P!ReleaseClose
<1>2. Balance'
  <2>1. Balanced(P!Sub(active_connections_, 1), P!Sub(total_connections_, 1),
                 Len(idle_connections_), Cardinality(P!At("using")) - 1,
                 Cardinality(P!At("counting")),
                 Cardinality(P!At("creating")), NumThreads)
    BY <1>1, ReleaseSets, BalancedRelease, ZenonT(30) DEF Balance
  <2> QED BY <1>1, <2>1, ReleaseSets, ZenonT(30) DEF Balance, P!ReleaseClose
<1>3. P!TypeOK'
  <2>1. /\ active_connections_' \in 0 .. PoolWordSize - 1
        /\ total_connections_' \in 0 .. PoolWordSize - 1
    BY <1>2, BalancedRange, Zenon DEF Balance
  <2> QED BY <1>1, <2>1, ReleaseMoves, Zenon DEF P!TypeOK, P!ReleaseClose
<1> QED BY <1>2, <1>3, Zenon

CountInv == P!TypeOK /\ Balance /\ CallsHaveThreads

LEMMA InitCountInv == ASSUME P!PoolAssumption PROVE P!Init => CountInv
<1> SUFFICES ASSUME P!Init PROVE CallsHaveThreads
  BY InitBalance, Zenon DEF CountInv
<1>1. P!InCall = {}
  BY Zenon DEF P!Init, P!InCall
<1>2. Cardinality({}) = 0
  BY FS_EmptySet, Zenon
<1> QED BY <1>1, <1>2, LimitsGiven, SMTT(30) DEF CallsHaveThreads

LEMMA NextCountInv ==
  ASSUME P!PoolAssumption, CountInv, [P!Next]_(P!vars), ~P!ShutDown'
  PROVE  CountInv'
<1> USE DEF CountInv
<1>1. ASSUME NEW t \in Users, P!Step(t)
      PROVE  P!TypeOK' /\ Balance' /\ CallsHaveThreads'
  <2>1. P!TypeOK' /\ Balance'
    BY <1>1, AcquireIdleBalance, AcquireNewBalance, AcquireWaitBalance,
       CreateBalance, CountTotalBalance, CreateFailBalance, WakeBalance,
       ReleaseIdleBalance, ReleaseCloseBalance, ZenonT(30) DEF P!Step
  <2> QED BY <1>1, <2>1, StepCalls, Zenon
<1>2. ASSUME NEW c \in Conns, P!Fail(c)
      PROVE  P!TypeOK' /\ Balance' /\ CallsHaveThreads'
  BY <1>2, ZenonT(30) DEF P!Fail, P!TypeOK, Balance, P!At, CallsHaveThreads, P!InCall
<1>3. CASE UNCHANGED P!vars
  BY <1>3, Zenon DEF P!vars, P!TypeOK, Balance, P!At, CallsHaveThreads, P!InCall
<1>4. ~P!Shutdown
  BY Zenon DEF P!Shutdown, P!ShutDown
<1> QED BY <1>1, <1>2, <1>3, <1>4, Zenon DEF P!Next

\* TypeOK: whatever acquire(), release(), failures and shutdown() interleave,
\* the counters stay values of a size_t and the deque holds connections only.
THEOREM PoolTypeCorrect == P!Spec => []PoolTypeOK
<1>1. P!Init => TypeInv
  BY InitBalance, EmptySeq, LimitsGiven, ConstantsAssumption, SMTT(30) DEF P!Init, TypeInv
<1>2. TypeInv /\ [P!Next]_(P!vars) => TypeInv'
  BY PoolNextType, ConstantsAssumption, Zenon
<1>3. TypeInv => PoolTypeOK
  BY Zenon DEF TypeInv, PoolTypeOK
<1> QED BY <1>1, <1>2, <1>3, PTL DEF P!Spec

-----------------------------------------------------------------------------
LEMMA SpecCountInv == ASSUME P!PoolAssumption PROVE P!Spec => [](P!ShutDown \/ CountInv)
<1>1. P!Init => P!ShutDown \/ CountInv
  BY InitCountInv, Zenon
<1>2. (P!ShutDown \/ CountInv) /\ [P!Next]_(P!vars) => (P!ShutDown \/ CountInv)'
  <2> SUFFICES ASSUME P!ShutDown \/ CountInv, [P!Next]_(P!vars), ~P!ShutDown' PROVE CountInv'
    BY ZenonT(30)
  <2>1. upsets \subseteq upsets'
    BY Zenon DEF P!Next, P!Step, P!AcquireIdle, P!AcquireNew, P!AcquireWait, P!Create, P!CountTotal,
           P!CreateFail, P!Wake, P!SpuriousWakeup, P!ReleaseIdle, P!ReleaseClose, P!Fail,
           P!Shutdown, P!vars
  <2>2. ~P!ShutDown
    BY <2>1, Zenon DEF P!ShutDown
  <2> QED BY <2>2, NextCountInv, Zenon
<1> QED BY <1>1, <1>2, PTL DEF P!Spec

\* Accounting: until shutdown(), total() and active() agree with the
\* connections that exist at every point of every interleaving, for any number
\* of threads and any limits.
THEOREM AccountingCorrect == P!Spec => []Accounting
<1>1. P!ShutDown \/ CountInv => Accounting
  BY BalanceMeans, ConstantsAssumption, Zenon DEF CountInv, P!Accounting, Accounting
<1> QED BY <1>1, SpecCountInv, ConstantsAssumption, PTL

\* BoundedOvershoot: until shutdown(), the unlocked window in acquire() lets
\* the pool exceed max_connections by at most the number of threads less one,
\* however many connections each of them holds.
THEOREM OvershootBounded == P!Spec => []BoundedOvershoot
<1>1. P!ShutDown \/ CountInv => BoundedOvershoot
  BY BalanceMeans, ConstantsAssumption, Zenon DEF CountInv, P!BoundedOvershoot, BoundedOvershoot
<1> QED BY <1>1, SpecCountInv, ConstantsAssumption, PTL

=============================================================================
