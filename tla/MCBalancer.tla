----------------------------- MODULE MCBalancer -----------------------------
(* LoadBalancer as MCStructures explores it and as the proofs are about it. *)
EXTENDS Integers, Sequences

CONSTANTS Selectors, Hosts, Weights, NoEndpoint, CounterSize, MaxEndpoints, MaxSelects
VARIABLES services_, kind, endpoints_, weighted_indices_, current_, idx, picks, gone, fresh, torn

H == INSTANCE LoadBalancer WITH
       Threads <- Selectors, None <- NoEndpoint, WordSize <- CounterSize

ASSUME EndpointsAssumption == H!BalancerAssumption

\* Load balancers: every endpoint gets its turns in each round.  Discovery: a deregistered
\* host is not selected after the update.
SelectsFairly == H!TypeOK /\ H!SelectsFairly
=============================================================================
