--------------------------- MODULE MC_KernelLoop ---------------------------
(***************************************************************************)
(* A counter that overflows after 11 ticks; slices of 3 ticks; a timeout    *)
(* shorter than a tick, one of the 2 ticks of a sleep and one of 3.  The   *)
(* clock, the keyboard, the serial line and a disk request interrupts.     *)
(***************************************************************************)
EXTENDS KernelLoop

MCDevices == {0, 1, 4, 14}
MCTimeoutsMs == {5, 20, 30}

=============================================================================
