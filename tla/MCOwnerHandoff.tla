--------------------------- MODULE MCOwnerHandoff ---------------------------
(* Model-checking instances of OwnerHandoff. *)
EXTENDS OwnerHandoff, TLC

CONSTANTS q1, q2, w1, w2

MCNoMoves == {}
MCOwnerMoves == {<<"new", "blocked">>, <<"blocked", "new">>, <<"listed", "changed">>,
                 <<"listed", "excluded">>, <<"excluded", "restored">>}

Symmetry == Permutations(Workers)
=============================================================================
