-------------------------- MODULE MCReclassification --------------------------
(* Model-checking instances of Reclassification. *)
EXTENDS Reclassification, TLC

CONSTANTS c1, c2, k1, other, w1, w2

Symmetry == Permutations(Workers)
=============================================================================
