---------------------------- MODULE MCRespClient ----------------------------
(* Instances of RespClient for TLC.                                        *)
EXTENDS RespClient

CONSTANTS c1, c2, c3, s1, s2

\* c1 and c2 increment counters, c3 only reads.
MCNumCmds == [c \in Calls |-> IF c = c1 THEN 2 ELSE 1]
MCMutates == [c \in Calls |-> c # c3]
=============================================================================
