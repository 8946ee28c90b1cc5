----------------------------- MODULE MCFailover -----------------------------
(* Instances of Failover for TLC.                                          *)
EXTENDS Failover, TLC

CONSTANTS r1, r2, r3, alpha, beta

\* Every request may be served by both providers, alpha first.
TwoProviders == [r \in Requests |-> <<alpha, beta>>]

\* Nobody knows what alpha charges.
OnePrice == (alpha :> [known |-> FALSE, free |-> FALSE, in |-> 0, out |-> 0])
            @@ (beta :> [known |-> TRUE, free |-> FALSE, in |-> 0, out |-> 0])

\* r3 has a budget and is not cacheable.
Symmetry == Permutations({r1, r2})
=============================================================================
