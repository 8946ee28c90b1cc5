----------------------------- MODULE MCRegistry -----------------------------
(* Instances of Registry for TLC.                                          *)
EXTENDS Registry, TLC

CONSTANTS p1, m1, r1, r2

Symmetry == Permutations(Readers)
=============================================================================
