---------------------------- MODULE MC_Ps2Driver ----------------------------
(***************************************************************************)
(* A queue of 3 bytes, so that it fills up and wraps in a few steps; reads *)
(* without a timeout (the keyboard task) and with one of 3 ticks, longer   *)
(* than a sleep of 2 ticks (20 ms) and not a multiple of it.               *)
(***************************************************************************)
EXTENDS Ps2Driver

MCByte == {0, 1}
MCTimeouts == {0, 3}

=============================================================================
