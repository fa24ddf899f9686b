------------------------------- MODULE MCChat -------------------------------
(* A model-checking instance of Chat. *)
EXTENDS Chat, TLC

CONSTANTS c1, k1, p1, p2, r1, r2, r3, s1

Symmetry == Permutations(Calls) \cup Permutations(Requests)
=============================================================================
