-------------------------- MODULE MC_KeyboardStart --------------------------
(* Five faults, RESEND or a lost byte: more than the attempts of any loop   *)
(* of retries, so that each of them can give up and the next one is still   *)
(* disturbed.                                                               *)
EXTENDS KeyboardStart
=============================================================================
