----------------------------- MODULE TimingWheel -----------------------------
(***************************************************************************)
(* io/timer.hpp, class TimingWheel: a hashed timing wheel shared by        *)
(* threads.  mutex_ makes the critical sections single steps.  add_timer   *)
(* takes its id and reads current_tick_ before it locks, and tick runs the *)
(* callbacks it collected after it unlocks, so each of the two is split    *)
(* there.  A callback may itself add and cancel timers.                    *)
(***************************************************************************)
EXTENDS Integers, FiniteSets

CONSTANTS
  Threads,
  Delays,     \* the delay_ms arguments of add_timer
  slots_,     \* number of slots of the wheel
  tick_ms_,   \* milliseconds per tick
  WordSize,   \* number of values of a size_t
  MaxTimers,  \* bound: timers added
  MaxTick     \* bound: ticks made

ASSUME WheelAssumption == slots_ \in Nat \ {0} /\ tick_ms_ \in Nat \ {0}
ASSUME DelaysAssumption == Delays \subseteq Nat
ASSUME BoundsAssumption ==
  /\ MaxTimers \in Nat /\ MaxTick \in Nat /\ WordSize \in Nat
  /\ \A d \in Delays : MaxTick + d + tick_ms_ < WordSize

VARIABLES
  current_tick_,
  next_id_,
  wheels_,      \* slot -> entries, as a set: the order in a slot is left out
  timer_slot_,  \* id -> slot; Absent for an id that is not in the map
  adding,       \* thread -> the entry add_timer will insert, or NoEntry
  expired,      \* thread -> ids whose callbacks its tick() collected and not run yet
  inserted,     \* history: id -> current_tick_ when its entry was inserted
  fired,        \* history: ids whose callback ran
  cancelled     \* history: ids for which cancel_timer returned true

vars == <<current_tick_, next_id_, wheels_, timer_slot_, adding, expired, inserted, fired, cancelled>>

Ids == 1 .. MaxTimers
Slots == 0 .. slots_ - 1
Absent == -1
Entries == [id : Ids, expire_tick : 0 .. WordSize - 1]
NoEntry == [id |-> 0, expire_tick |-> 0]

Ticks(delay_ms) == (delay_ms + tick_ms_ - 1) \div tick_ms_

ExpireTickLate(delay_ms) == current_tick_ + Ticks(delay_ms)        \* mutant: no - 1

\* current_tick_ + ticks - 1 in size_t: delay 0 in tick 0 wraps around
ExpireTick(delay_ms) ==
  IF current_tick_ + Ticks(delay_ms) = 0 THEN WordSize - 1
  ELSE current_tick_ + Ticks(delay_ms) - 1

InWheel == UNION {wheels_[s] : s \in Slots}

-----------------------------------------------------------------------------
Init ==
  /\ current_tick_ = 0
  /\ next_id_ = 1
  /\ wheels_ = [s \in Slots |-> {}]
  /\ timer_slot_ = [id \in Ids |-> Absent]
  /\ adding = [t \in Threads |-> NoEntry]
  /\ expired = [t \in Threads |-> {}]
  /\ inserted = [id \in Ids |-> 0]
  /\ fired = {}
  /\ cancelled = {}

\* add_timer up to the lock
AddRead(t, delay_ms) ==
  /\ adding[t] = NoEntry
  /\ next_id_ <= MaxTimers
  /\ adding' = [adding EXCEPT ![t] =
                  [id |-> next_id_, expire_tick |-> ExpireTick(delay_ms)]]
  /\ next_id_' = next_id_ + 1
  /\ UNCHANGED <<current_tick_, wheels_, timer_slot_, expired, inserted, fired, cancelled>>

\* add_timer under the lock
AddInsert(t) ==
  /\ adding[t] # NoEntry
  /\ LET slot == adding[t].expire_tick % slots_ IN
       /\ wheels_' = [wheels_ EXCEPT ![slot] = @ \cup {adding[t]}]
       /\ timer_slot_' = [timer_slot_ EXCEPT ![adding[t].id] = slot]
  /\ inserted' = [inserted EXCEPT ![adding[t].id] = current_tick_]
  /\ adding' = [adding EXCEPT ![t] = NoEntry]
  /\ UNCHANGED <<current_tick_, next_id_, expired, fired, cancelled>>

\* mutant: the map forgets the timer, the wheel does not
CancelMapOnly(t, id) ==
  /\ adding[t] = NoEntry
  /\ timer_slot_[id] # Absent
  /\ timer_slot_' = [timer_slot_ EXCEPT ![id] = Absent]
  /\ cancelled' = cancelled \cup {id}
  /\ UNCHANGED <<current_tick_, next_id_, wheels_, adding, expired, inserted, fired>>

\* cancel_timer(id) that finds id; otherwise it changes nothing
Cancel(t, id) ==
  /\ adding[t] = NoEntry
  /\ timer_slot_[id] # Absent
  /\ wheels_' = [wheels_ EXCEPT ![timer_slot_[id]] = {e \in @ : e.id # id}]
  /\ timer_slot_' = [timer_slot_ EXCEPT ![id] = Absent]
  /\ cancelled' = cancelled \cup {id}
  /\ UNCHANGED <<current_tick_, next_id_, adding, expired, inserted, fired>>

\* mutants: the comparison of the expiry
ExpiredExactly(s) == {e \in wheels_[s] : e.expire_tick = current_tick_}
ExpiredStrictly(s) == {e \in wheels_[s] : e.expire_tick < current_tick_}

\* tick() under the lock
Expired(s) == {e \in wheels_[s] : e.expire_tick <= current_tick_}

\* mutant: the map keeps the timers collected
CollectKeepsMap(t) ==
  /\ adding[t] = NoEntry
  /\ expired[t] = {}
  /\ current_tick_ < MaxTick
  /\ LET s == current_tick_ % slots_
     IN /\ expired' = [expired EXCEPT ![t] = {e.id : e \in Expired(s)}]
        /\ wheels_' = [wheels_ EXCEPT ![s] = @ \ Expired(s)]
  /\ current_tick_' = current_tick_ + 1
  /\ UNCHANGED <<next_id_, timer_slot_, adding, inserted, fired, cancelled>>

Collect(t) ==
  /\ adding[t] = NoEntry
  /\ expired[t] = {}
  /\ current_tick_ < MaxTick
  /\ LET s == current_tick_ % slots_
         ids == {e.id : e \in Expired(s)}
     IN /\ expired' = [expired EXCEPT ![t] = ids]
        /\ timer_slot_' = [id \in Ids |-> IF id \in ids THEN Absent ELSE timer_slot_[id]]
        /\ wheels_' = [wheels_ EXCEPT ![s] = @ \ Expired(s)]
  /\ current_tick_' = current_tick_ + 1
  /\ UNCHANGED <<next_id_, adding, inserted, fired, cancelled>>

\* tick() after the lock: one callback
RunCallback(t, id) ==
  /\ adding[t] = NoEntry
  /\ id \in expired[t]
  /\ expired' = [expired EXCEPT ![t] = @ \ {id}]
  /\ fired' = fired \cup {id}
  /\ UNCHANGED <<current_tick_, next_id_, wheels_, timer_slot_, adding, inserted, cancelled>>

-----------------------------------------------------------------------------
Step(t) ==
  \/ \E d \in Delays : AddRead(t, d)
  \/ AddInsert(t)
  \/ \E id \in Ids : Cancel(t, id)
  \/ \E id \in Ids : RunCallback(t, id)

Next == \E t \in Threads : Step(t) \/ Collect(t)

Spec == Init /\ [][Next]_vars

\* callers that never tick while a timer is being added, such as one thread
NoAdd == \A t \in Threads : adding[t] = NoEntry
SerialNext == \E t \in Threads : Step(t) \/ (NoAdd /\ Collect(t))

SerialSpec == Init /\ [][SerialNext]_vars

-----------------------------------------------------------------------------
TypeOK ==
  /\ current_tick_ \in 0 .. MaxTick
  /\ next_id_ \in 1 .. MaxTimers + 1
  /\ wheels_ \in [Slots -> SUBSET Entries]
  /\ timer_slot_ \in [Ids -> Slots \cup {Absent}]
  /\ adding \in [Threads -> Entries \cup {NoEntry}]
  /\ expired \in [Threads -> SUBSET Ids]
  /\ inserted \in [Ids -> 0 .. MaxTick]
  /\ fired \subseteq Ids
  /\ cancelled \subseteq Ids

\* cancel_timer looks a timer up in timer_slot_ and erases it from that slot
\* of wheels_ only: the map and the wheel always agree, and an entry lies in
\* the slot its expiry hashes to.
Consistent ==
  \A s \in Slots :
    /\ \A e \in wheels_[s] : e.expire_tick % slots_ = s /\ timer_slot_[e.id] = s
    /\ \A id \in Ids : timer_slot_[id] = s => \E e \in wheels_[s] : e.id = id

\* everything the wheel knows of a timer
Fates(id) ==
  {<<"adding", t>> : t \in {u \in Threads : adding[u].id = id}}
    \cup {<<"waiting", e>> : e \in {x \in InWheel : x.id = id}}
    \cup {<<"expired", t>> : t \in {u \in Threads : id \in expired[u]}}
    \cup {<<"fired", x>> : x \in fired \cap {id}}
    \cup {<<"cancelled", x>> : x \in cancelled \cap {id}}

\* A timer is lost, run twice, or both cancelled and run in no interleaving of
\* add_timer, cancel_timer, tick and callbacks: it has exactly one fate, the
\* one tick() that collected it included, from the moment its id is drawn.
OneFate ==
  \A id \in Ids :
    IF id < next_id_ THEN \E f \in Fates(id) : Fates(id) = {f} ELSE Fates(id) = {}

\* Whatever the delay, and whatever ticks pass between the unlocked read in
\* add_timer and the insertion, tick() takes the timer out at its expiry or
\* within one turn of the wheel after it was inserted.
WithinOneTurn ==
  \A e \in InWheel :
    current_tick_ <= e.expire_tick \/ current_tick_ < inserted[e.id] + slots_

\* No timer of serial callers is ever overdue: tick() looks at one slot only,
\* and that is where everything due in this tick lies.
OnTime ==
  /\ \A e \in InWheel : e.expire_tick >= current_tick_
  /\ \A t \in Threads : adding[t] # NoEntry => adding[t].expire_tick >= current_tick_

\* Serial callers see the abstract timer service: every timer runs exactly in
\* the tick that completes its delay, though the wheel hashes far deadlines
\* into the slots of near ones.
Service ==
  INSTANCE TimerService WITH
    now <- current_tick_,
    issued <- next_id_ - 1,
    pending <- {[id |-> e.id, at |-> e.expire_tick] :
                  e \in InWheel \cup {adding[t] : t \in {u \in Threads : adding[u] # NoEntry}}},
    due <- UNION {expired[t] : t \in Threads}

ImplementsService == Service!Spec

=============================================================================
