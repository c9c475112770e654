--------------------------- MODULE MC_KeyboardTask ---------------------------
(***************************************************************************)
(* Key events of every sequence length the driver knows (1, 2, 3, 4, 6 and *)
(* 8 bytes), among them keys whose code also occurs inside a longer        *)
(* sequence: left shift (12), left and right control (14, E0 14), keypad   *)
(* star (7C) and num lock (77).  Two events are under way at a time and    *)
(* the queue is shorter than the pause sequence, so that it overflows when *)
(* the task is late.                                                       *)
(***************************************************************************)
EXTENDS KeyboardTask

Event(k, t, s) == [kc |-> k, type |-> t, seq |-> s]

MCEvents == {
  Event("A", "make", <<28>>),            Event("A", "break", <<F0, 28>>),
  Event("LSHIFT", "make", <<18>>),       Event("KP_STAR", "break", <<F0, 124>>),
  Event("LCTRL", "make", <<20>>),        Event("NUM", "break", <<F0, 119>>),
  Event("RCTRL", "make", <<E0, 20>>),    Event("RCTRL", "break", <<E0, F0, 20>>),
  Event("UP", "make", <<E0, 117>>),      Event("UP", "break", <<E0, F0, 117>>),
  Event("PRNT_SCRN", "make", <<E0, 18, E0, 124>>),
  Event("PRNT_SCRN", "break", <<E0, F0, 124, E0, F0, 18>>),
  Event("PAUSE", "make", <<E1, 20, 119, E1, F0, 20, F0, 119>>) }

\* Bytes of its own that the keyboard may send at any time: the start of the
\* longest sequence, and the code that makes the decoder ask for more bytes.
MCReports == {E1, 124}

\* They are what the proof about decoding takes them for.
ASSUME EventsAreScanCodes

=============================================================================
