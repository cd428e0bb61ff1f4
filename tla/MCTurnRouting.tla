---------------------------- MODULE MCTurnRouting ----------------------------
(* Two surfaces, which nothing tells apart. *)
EXTENDS TurnRouting, TLC

CONSTANTS desk, phone
TwoSurfaces == {desk, phone}
Symmetry == Permutations(TwoSurfaces)
=============================================================================
