---------------------------- MODULE MCRedisStore ----------------------------
(* Instances of RedisStore for TLC.                                        *)
EXTENDS RedisStore

CONSTANTS c1, c2, c3, c4, p1, p2, k1, k2

\* Two calls on each replica; c2 carries a second key.
MCRepOf == [c \in Batches |-> IF c \in {c1, c2} THEN p1 ELSE p2]
MCEntries == [c \in Batches |-> IF c = c2 THEN <<k1, k2>> ELSE <<k1>>]
MCDelta == [c \in Batches |-> IF c = c4 THEN -1 ELSE 1]
=============================================================================
