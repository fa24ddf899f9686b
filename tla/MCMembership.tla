---------------------------- MODULE MCMembership ----------------------------
(* Model-checking instances of Membership. *)
EXTENDS Membership, TLC

CONSTANTS d1, c1, c2, s1, s2

Symmetry == Permutations(Calls) \cup Permutations(Stores)
=============================================================================
