-------------------------- MODULE MCHudComposer --------------------------
(* This desktop, and a phone. *)
EXTENDS HudComposer

CONSTANTS desk, phone
TwoSurfaces == {desk, phone}
=============================================================================
