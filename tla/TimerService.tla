---------------------------- MODULE TimerService ----------------------------
(***************************************************************************)
(* What a timer wheel promises: a timer added with delay d runs exactly in *)
(* the tick that completes the delay, unless it was cancelled before.      *)
(***************************************************************************)
EXTENDS Integers

CONSTANTS
  Delays,   \* the delays, in milliseconds, timers are added with
  tick_ms_  \* milliseconds per tick

VARIABLES
  now,      \* ticks completed
  issued,   \* timer ids handed out
  pending,  \* timers that wait: [id, at], at the tick in which they run
  due       \* ids of timers a tick has taken out and whose callback is still to run

vars == <<now, issued, pending, due>>

Ticks(delay) == (delay + tick_ms_ - 1) \div tick_ms_

Init == now = 0 /\ issued = 0 /\ pending = {} /\ due = {}

Add(delay) ==
  /\ issued' = issued + 1
  /\ pending' = pending \cup {[id |-> issued', at |-> now + Ticks(delay) - 1]}
  /\ UNCHANGED <<now, due>>

Cancel(e) ==
  /\ pending' = pending \ {e}
  /\ UNCHANGED <<now, issued, due>>

Tick ==
  /\ now' = now + 1
  /\ due' = due \cup {e.id : e \in {p \in pending : p.at = now}}
  /\ pending' = {p \in pending : p.at # now}
  /\ UNCHANGED issued

Run(id) ==
  /\ due' = due \ {id}
  /\ UNCHANGED <<now, issued, pending>>

Next ==
  \/ \E d \in Delays : Add(d)
  \/ \E e \in pending : Cancel(e)
  \/ Tick
  \/ \E id \in due : Run(id)

Spec == Init /\ [][Next]_vars

=============================================================================
