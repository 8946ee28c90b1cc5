---------------------------- MODULE MCAuthStore ----------------------------
(* Instances of AuthStore for TLC.                                         *)
EXTENDS AuthStore

CONSTANTS n1, n2, k1, k2, c1, c2

InlineUser == {<<n1, k1>>}
============================================================================
