---------------------------- MODULE LoadBalancer ----------------------------
(***************************************************************************)
(* rpc/loadbalance/load_balancer.hpp and rpc/registry/                     *)
(* service_discovery.hpp: one service's endpoints in the static discovery, *)
(* a balancer that the application updates from it, and threads that       *)
(* select.  Only the counter of a balancer is synchronised: an update()    *)
(* during a select() is undefined, and the model stops there.              *)
(***************************************************************************)
EXTENDS Integers, Sequences, FiniteSets

CONSTANTS Threads, Hosts, Weights,
          None,
          WordSize,       \* current_ wraps at this
          MaxEndpoints, MaxSelects   \* bounds

BalancerAssumption == Weights \subseteq Int /\ WordSize \in Nat \ {0} /\ MaxEndpoints \in Nat

VARIABLES services_,          \* StaticServiceDiscovery: the endpoints of the service
          kind,               \* RoundRobin, Weighted, Random
          endpoints_, weighted_indices_, current_,
          idx,                \* thread -> the index select() computed, None outside
          picks,              \* history: index -> selections since the update
          gone,               \* history: hosts deregistered and not registered since
          fresh,              \* history: nothing was deregistered since the update
          torn                \* history: an update() met a select()

vars == <<services_, kind, endpoints_, weighted_indices_, current_, idx, picks, gone, fresh, torn>>

Init ==
  /\ services_ = <<>> /\ kind \in {"RoundRobin", "Weighted", "Random"}
  /\ endpoints_ = <<>> /\ weighted_indices_ = <<>> /\ current_ = 0
  /\ idx = [t \in Threads |-> None] /\ picks = <<>> /\ gone = {} /\ fresh = TRUE /\ torn = FALSE

(***************************************************************************)
(* StaticServiceDiscovery; the callback that is set is never called.       *)
(***************************************************************************)
register_service(h, w) ==
  /\ ~torn /\ Len(services_) < MaxEndpoints
  /\ services_' = Append(services_, [host |-> h, weight |-> w])
  /\ gone' = gone \ {h}
  /\ UNCHANGED <<kind, endpoints_, weighted_indices_, current_, idx, picks, fresh, torn>>

Without(s, h) ==
  LET f[n \in 0..Len(s)] ==
        IF n = 0 THEN <<>> ELSE IF s[n].host # h THEN Append(f[n - 1], s[n]) ELSE f[n - 1]
  IN f[Len(s)]

deregister_service(h) ==
  /\ ~torn /\ \E i \in DOMAIN services_ : services_[i].host = h
  /\ services_' = Without(services_, h)
  /\ gone' = gone \cup {h} /\ fresh' = FALSE
  /\ UNCHANGED <<kind, endpoints_, weighted_indices_, current_, idx, picks, torn>>

(***************************************************************************)
(* The balancers.                                                          *)
(***************************************************************************)
\* the turns of an endpoint in a round
Turns(e) == IF kind = "Weighted" /\ e.weight > 1 THEN e.weight ELSE 1

Repeat(i, n) == [j \in 1..n |-> i]
\* every index, as often as it has turns
Indices(eps) ==
  LET f[n \in 0..Len(eps)] == IF n = 0 THEN <<>> ELSE f[n - 1] \o Repeat(n, Turns(eps[n])) IN f[Len(eps)]

\* update(discover())
update ==
  /\ ~torn
  /\ endpoints_' = services_ /\ weighted_indices_' = Indices(services_) /\ current_' = 0
  /\ picks' = [i \in DOMAIN services_ |-> 0]
  /\ fresh' = TRUE
  /\ torn' = \E t \in Threads : idx[t] # None
  /\ UNCHANGED <<services_, kind, idx, gone>>

\* mutant: the counter wraps after a round and one more
AdvancedEarly(n) == (n + 1) % (Len(weighted_indices_) + 1)
Advanced(n) == (n + 1) % WordSize

\* the counter is advanced and the index computed; nullopt if there is no endpoint
SelectIndex(t) ==
  /\ ~torn /\ idx[t] = None /\ weighted_indices_ # <<>>
  /\ \E n \in DOMAIN weighted_indices_ :
       /\ kind # "Random" => n = (current_ % Len(weighted_indices_)) + 1
       /\ idx' = [idx EXCEPT ![t] = weighted_indices_[n]]
       /\ picks' = [picks EXCEPT ![weighted_indices_[n]] = @ + 1]
       /\ picks[weighted_indices_[n]] < MaxSelects
  /\ current_' = IF kind = "Random" THEN current_ ELSE Advanced(current_)
  /\ UNCHANGED <<services_, kind, endpoints_, weighted_indices_, gone, fresh, torn>>

\* endpoints_[idx] is copied
SelectReturns(t) ==
  /\ ~torn /\ idx[t] # None
  /\ idx' = [idx EXCEPT ![t] = None]
  /\ UNCHANGED <<services_, kind, endpoints_, weighted_indices_, current_, picks, gone, fresh, torn>>

Next ==
  \/ update
  \/ \E t \in Threads : SelectIndex(t) \/ SelectReturns(t)
  \/ \E h \in Hosts : deregister_service(h) \/ \E w \in Weights : register_service(h, w)

Spec == Init /\ [][Next]_vars

-----------------------------------------------------------------------------
Total(s) == LET f[n \in 0..Len(s)] == IF n = 0 THEN 0 ELSE f[n - 1] + s[n] IN f[Len(s)]

\* Every variable has its type, and the index a thread holds is that of an endpoint.
TypeOK ==
  /\ current_ \in 0..(WordSize - 1) /\ Len(services_) <= MaxEndpoints /\ gone \subseteq Hosts
  /\ ~torn => \A t \in Threads : idx[t] # None => idx[t] \in DOMAIN endpoints_
  /\ DOMAIN picks = DOMAIN endpoints_

\* Whatever threads select at the same time, after q full rounds and part of the next
\* every endpoint has had between q and q + 1 times its turns, until the counter wraps.
Balanced ==
  LET share == [i \in DOMAIN endpoints_ |->
                  IF kind = "Weighted" /\ endpoints_[i].weight > 0 THEN endpoints_[i].weight ELSE 1]
      total == Total(picks)  q == total \div Total(share)
  IN (~torn /\ kind # "Random" /\ endpoints_ # <<>> /\ total <= WordSize) =>
       \A i \in DOMAIN picks : picks[i] \in (q * share[i])..((q + 1) * share[i])

\* After a host was deregistered, once or registered several times, and the balancer
\* updated, no thread is given it.
GoneIsNotSelected ==
  (fresh /\ ~torn) => \A t \in Threads : idx[t] # None => endpoints_[idx[t]].host \notin gone

\* Both: what select() promises.
SelectsFairly == Balanced /\ GoneIsNotSelected
=============================================================================
