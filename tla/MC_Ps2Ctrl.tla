----------------------------- MODULE MC_Ps2Ctrl -----------------------------
(* Two lost bytes and one key pressed at any moment of the start-up.        *)
EXTENDS Ps2Ctrl
=============================================================================
