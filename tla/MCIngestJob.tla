----------------------------- MODULE MCIngestJob -----------------------------
(* Model-checking instances of IngestJob. *)
EXTENDS IngestJob, TLC

CONSTANTS j1, w1, w2

MCBoth == {{1, 2}}

Symmetry == Permutations(Workers)
=============================================================================
