--------------------------- MODULE MCTurnRuntime ---------------------------
(***************************************************************************)
(* TurnRuntime for TLC: conversations are interchangeable model values.    *)
(* No run that checks liveness declares the symmetry.                      *)
(***************************************************************************)
EXTENDS TurnRuntime, TLC

Symmetry == Permutations(Conversations)
=============================================================================
