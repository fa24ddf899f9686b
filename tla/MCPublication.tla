--------------------------- MODULE MCPublication ---------------------------
(* Model-checking instances of Publication. *)
EXTENDS Publication, TLC

CONSTANTS c1, c2, p1, p2

(* One proposal; its owner answer produced card c1. *)
MCProposals == {1}
MCProposalCard == [q \in MCProposals |-> {c1}]
MCNoProposals == {}
MCNoProposalCards == <<>>

(* Card c2's legacy version has no provenance, its second version does.     *)
MCUnpublishable == {<<c2, 1>>}

MCAllPublishable == {}

Symmetry == Permutations(Procs)
=============================================================================
