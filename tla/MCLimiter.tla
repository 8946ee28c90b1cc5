----------------------------- MODULE MCLimiter -----------------------------
(* Instances of Limiter for TLC.                                           *)
EXTENDS Limiter, TLC

CONSTANTS r1, r2, r3, p1, p2, alice, team, total

NoLimit == [min |-> 0, day |-> 0]
NoBudget == [b \in 1..4 |-> 0]

MCWindowLen == [min |-> 1, hour |-> 2, day |-> 2, month |-> 4]

\* Three requests of alice; r2 and r3 also count for her group.
MCLimitScopes == [r \in Requests |-> IF r = r1 THEN <<alice>> ELSE <<alice, team>>]
AliceOnly == [r \in Requests |-> <<alice>>]

\* One of them goes to another replica.
TwoReplicas == [r \in Requests |-> IF r = r1 THEN p1 ELSE p2]

\* alice may send two requests per minute, the group one.
RateLimits == (alice :> [min |-> 2, day |-> 0]) @@ (team :> [min |-> 1, day |-> 0])
              @@ (total :> NoLimit)
\* alice may send one request per minute.
OnePerMinute == (alice :> [min |-> 1, day |-> 0]) @@ (team :> NoLimit) @@ (total :> NoLimit)

\* alice may spend two tokens per day; an upstream may report that many, or
\* nonsense.
NoBudgets == [sc \in Scopes |-> NoBudget]
TokenBudget == [NoBudgets EXCEPT ![alice] = <<2, 0, 0, 1>>]
NoUsage == {[tok |-> 0, cost |-> 0]}
SomeUsage == {[tok |-> 2, cost |-> 0], [tok |-> -1, cost |-> 9]}

\* r2 and r3 have the same scopes and the same replica.
Symmetry == Permutations({r2, r3})
=============================================================================
