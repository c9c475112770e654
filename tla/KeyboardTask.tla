---------------------------- MODULE KeyboardTask ----------------------------
(***************************************************************************)
(* The keyboard task (src/kernel/drivers/keyboard.c): a state machine that *)
(* collects the bytes of one scan code sequence (scan code set 2) and      *)
(* translates it into a key event.  The bytes come from the receive queue  *)
(* of the driver, here the abstract queue that Ps2Driver implements; each  *)
(* action of the task is one run of keyboard_task() by the scheduler.      *)
(***************************************************************************)
EXTENDS Integers, Sequences

CONSTANTS
  Events,     \* the key events the user can cause
  Reports,    \* bytes the keyboard sends that belong to no key event
  MaxQueue,   \* PS2_DRIVER_MAX_RECV
  MaxTyped,   \* bound: key events under way at the same time
  MaxWire     \* bound: such bytes are sent while the wire holds fewer bytes

Byte == 0..255

\* Bytes of scan code set 2 with a meaning of their own.
E0 == 224
E1 == 225
F0 == 240

ScanTableSize == 136   \* number of rows of scan_to_key[]

\* The rows of scan_to_key[] and scan_2bytes_to_key() for the bytes that the
\* events below are made of; the other rows are as good as any of them.
scan_to_key ==
  [scan \in 0..(ScanTableSize - 1) |->
     CASE scan = 28  -> "A"
       [] scan = 18  -> "LSHIFT"
       [] scan = 20  -> "LCTRL"
       [] scan = 119 -> "NUM"
       [] scan = 124 -> "KP_STAR"
       [] OTHER      -> "other"]

\* A read past the end of the table yields whatever the memory there holds.
Garbage == "garbage"
KeyAt(scan) == IF scan < ScanTableSize THEN scan_to_key[scan] ELSE Garbage

scan_2bytes_to_key(scan) ==
  CASE scan = 20  -> "RCTRL"
    [] scan = 117 -> "UP"
    [] OTHER      -> "other"

\* The state of keyboard_task().
RESET     == "reset"
WAIT_SCAN == "wait_scan"
READ_MORE == "read_more"
TRANSLATE == "translate"

ASSUME KeyboardTaskAssumption ==
  /\ \A e \in Events : e.seq \in Seq(Byte) /\ e.seq # <<>>
  /\ Reports \subseteq Byte
  /\ MaxQueue \in Nat \ {0}

VARIABLES
  kbd_state,
  scancodes,   \* the first kbd_seq.len bytes of kbd_seq.scancodes[]
  need,        \* kbd_seq.need
  key,         \* the key event the last step of the task reported
  queue,       \* the driver's receive queue
  wire,        \* bytes the keyboard has not sent yet
  typed,       \* history: the events typed and not translated yet
  intact       \* history: no byte of a typed event was lost or inserted

kbd_seq == <<scancodes, need>>
vars == <<kbd_state, kbd_seq, key, queue, wire, typed, intact>>

SeqSize == 8   \* unsigned char scancodes[8]
len == Len(scancodes)

NoKey == [kc |-> "none", type |-> "none"]

Init ==
  /\ kbd_state = RESET
  /\ scancodes = <<>> /\ need = 0
  /\ key = NoKey
  /\ queue = <<>> /\ wire = <<>>
  /\ typed = <<>>
  /\ intact = TRUE

-----------------------------------------------------------------------------
(* The keyboard and its interrupt *)

\* The user presses or releases a key.
Type(e) ==
  /\ intact
  /\ Len(typed) < MaxTyped
  /\ wire' = wire \o e.seq
  /\ typed' = Append(typed, e)
  /\ UNCHANGED <<kbd_state, kbd_seq, key, queue, intact>>

\* The keyboard sends a byte of its own: a late answer, an error.
Report(b) ==
  /\ Len(wire) < MaxWire
  /\ wire' = Append(wire, b)
  /\ intact' = FALSE
  /\ typed' = <<>>
  /\ UNCHANGED <<kbd_state, kbd_seq, key, queue>>

\* keyboard_recv(), called by the interrupt handler: a full queue loses data.
keyboard_recv ==
  /\ wire # <<>>
  /\ wire' = Tail(wire)
  /\ IF Len(queue) < MaxQueue
       THEN queue' = Append(queue, Head(wire)) /\ UNCHANGED <<typed, intact>>
       ELSE UNCHANGED queue /\ intact' = FALSE /\ typed' = <<>>
  /\ UNCHANGED <<kbd_state, kbd_seq, key>>

-----------------------------------------------------------------------------
(* keyboard_task(), one action per state *)

\* The total number of bytes of the last k events of s.
LastBytes(s, k) ==
  LET bytes[j \in 0..k] == IF j = 0 THEN 0 ELSE bytes[j - 1] + Len(s[Len(s) + 1 - j].seq)
  IN  bytes[k]

\* The queue is flushed: the events left are those the wire still has as a
\* whole; if it has only the end of one, that one will be misunderstood.
keyboard_state_reset ==
  /\ kbd_state = RESET
  /\ queue' = <<>>
  /\ scancodes' = <<>> /\ need' = 0
  /\ kbd_state' = WAIT_SCAN
  /\ IF \E k \in 0..Len(typed) : LastBytes(typed, k) = Len(wire)
       THEN /\ \E k \in 0..Len(typed) :
                 /\ LastBytes(typed, k) = Len(wire)
                 /\ typed' = SubSeq(typed, Len(typed) - k + 1, Len(typed))
            /\ UNCHANGED intact
       ELSE intact' = FALSE /\ typed' = <<>>
  /\ key' = NoKey
  /\ UNCHANGED wire

\* ps2driver_read() with a timeout of 0: the oldest byte, if there is one.
ps2driver_read == queue # <<>> /\ queue' = Tail(queue)

\* Faulty variant: the release of a key is taken for two more bytes, not one.
keyboard_state_wait_scan_Break3 ==
  /\ kbd_state = WAIT_SCAN
  /\ ps2driver_read
  /\ LET scancode == Head(queue)
     IN  /\ scancodes' = <<scancode>>
         /\ need' = IF scancode = E0 THEN 1 ELSE IF scancode = F0 THEN 2
                    ELSE IF scancode = E1 THEN 7 ELSE need
         /\ kbd_state' = IF scancode \in {E0, F0, E1} THEN READ_MORE ELSE TRANSLATE
  /\ key' = NoKey
  /\ UNCHANGED <<wire, typed, intact>>

keyboard_state_wait_scan ==
  /\ kbd_state = WAIT_SCAN
  /\ ps2driver_read
  /\ LET scancode == Head(queue)
     IN  /\ scancodes' = <<scancode>>
         /\ need' = IF scancode \in {E0, F0} THEN 1 ELSE IF scancode = E1 THEN 7 ELSE need
         /\ kbd_state' = IF scancode \in {E0, F0, E1} THEN READ_MORE ELSE TRANSLATE
  /\ key' = NoKey
  /\ UNCHANGED <<wire, typed, intact>>

\* Faulty variants: two bytes break codes are forgotten; 7C starts the end of
\* print screen wherever it stands.
StillNeeded_NoBreak(codes, missing) ==
  IF Len(codes) = 2 /\ codes[1] = E0
    THEN IF codes[2] = 18 THEN 2 ELSE missing
    ELSE IF Len(codes) = 3 /\ codes[3] = 124 THEN 3 ELSE missing

StillNeeded_Anywhere(codes, missing) ==
  IF Len(codes) = 2 /\ codes[1] = E0
    THEN IF codes[2] = 18 THEN 2 ELSE IF codes[2] = F0 THEN 1 ELSE missing
    ELSE IF Len(codes) >= 3 /\ codes[Len(codes)] = 124 THEN 3 ELSE missing

\* How many bytes are still missing once the newest byte of codes is known.
StillNeeded(codes, missing) ==
  IF Len(codes) = 2 /\ codes[1] = E0
    THEN IF codes[2] = 18 THEN 2          \* print screen make code
         ELSE IF codes[2] = F0 THEN 1     \* two bytes break code
         ELSE missing
    ELSE IF Len(codes) = 3 /\ codes[3] = 124 THEN 3  \* print screen break code
    ELSE missing

keyboard_state_read_more ==
  /\ kbd_state = READ_MORE
  /\ ps2driver_read
  /\ scancodes' = Append(scancodes, Head(queue))
  /\ need' = StillNeeded(scancodes', need - 1)
  /\ kbd_state' = IF need' = 0 THEN TRANSLATE ELSE READ_MORE
  /\ key' = NoKey
  /\ UNCHANGED <<wire, typed, intact>>

\* The key event that the collected bytes stand for.
Translation ==
  CASE len = 1 -> [kc |-> KeyAt(scancodes[1]), type |-> "make"]
    [] len = 2 /\ scancodes[1] = E0 ->
         [kc |-> scan_2bytes_to_key(scancodes[2]), type |-> "make"]
    [] len = 2 /\ scancodes[1] # E0 ->
         [kc |-> KeyAt(scancodes[2]), type |-> "break"]
    [] len = 3 -> [kc |-> scan_2bytes_to_key(scancodes[3]), type |-> "break"]
    [] len = 4 -> [kc |-> "PRNT_SCRN", type |-> "make"]
    [] len = 6 -> [kc |-> "PRNT_SCRN", type |-> "break"]
    [] len = 8 -> [kc |-> "PAUSE", type |-> "make"]
    [] OTHER   -> [kc |-> "UNK", type |-> "make"]

keyboard_state_translate ==
  /\ kbd_state = TRANSLATE
  /\ key' = Translation
  /\ kbd_state' = WAIT_SCAN
  /\ typed' = IF typed = <<>> THEN <<>> ELSE Tail(typed)
  /\ UNCHANGED <<kbd_seq, queue, wire, intact>>

keyboard_task ==
  \/ keyboard_state_reset
  \/ keyboard_state_wait_scan
  \/ keyboard_state_read_more
  \/ keyboard_state_translate

Next ==
  \/ \E e \in Events : Type(e)
  \/ \E b \in Reports : Report(b)
  \/ keyboard_recv
  \/ keyboard_task

\* The main loop runs the task again and again; pending interrupts are taken.
Spec == Init /\ [][Next]_vars /\ WF_vars(keyboard_task) /\ WF_vars(keyboard_recv)

-----------------------------------------------------------------------------
(* Properties *)

\* Only lengths the translation knows are translated, so that its last branch
\* ("unknown sequence len") is never taken.
LengthIsKnown == kbd_state = TRANSLATE => len \in {1, 2, 3, 4, 6, 8}

\* Whatever bytes come, the bytes collected and still awaited fit into
\* scancodes[8]: read_more never writes past its end, although it can raise
\* need twice within a sequence, and it ends with a length the translation
\* knows.
SequenceFits ==
  /\ kbd_state = READ_MORE => need >= 1 /\ len >= 1 /\ len + need <= SeqSize
  /\ LengthIsKnown

\* As long as no byte is lost or inserted, the translated events are exactly
\* the typed ones, in their order: no sequence is the beginning of another,
\* and the end of each is found without looking ahead.
DecodesWhatWasTyped ==
  [][intact /\ keyboard_state_translate =>
       /\ typed # <<>>
       /\ key' = [kc |-> Head(typed).kc, type |-> Head(typed).type]]_vars

\* The events of a keyboard that uses scan code set 2, as far as the code of the
\* driver knows it: a key with a code of its own, one of those that share it
\* behind E0, both with F0 when they are released; print screen and pause.
IsScanCode(e) ==
  LET s == e.seq
      means(k, t) == e.kc = k /\ e.type = t
  IN  \/ /\ Len(s) = 1 /\ s[1] \notin {E0, F0, E1}
         /\ means(KeyAt(s[1]), "make")
      \/ /\ Len(s) = 2 /\ s[1] = F0
         /\ means(KeyAt(s[2]), "break")
      \/ /\ Len(s) = 2 /\ s[1] = E0 /\ s[2] \notin {F0, 18}
         /\ means(scan_2bytes_to_key(s[2]), "make")
      \/ /\ Len(s) = 3 /\ s[1] = E0 /\ s[2] = F0 /\ s[3] # 124
         /\ means(scan_2bytes_to_key(s[3]), "break")
      \/ /\ Len(s) = 4 /\ s[1] = E0 /\ s[2] = 18 /\ s[3] # 124
         /\ means("PRNT_SCRN", "make")
      \/ /\ Len(s) = 6 /\ s[1] = E0 /\ s[2] = F0 /\ s[3] = 124
         /\ means("PRNT_SCRN", "break")
      \/ /\ Len(s) = 8 /\ s[1] = E1 /\ s[3] # 124
         /\ means("PAUSE", "make")

EventsAreScanCodes == \A e \in Events : IsScanCode(e)

\* The task does not get stuck in the middle of a sequence, unless bytes of
\* it were lost.
SequenceIsCompleted ==
  (kbd_state = READ_MORE /\ intact) ~> (kbd_state # READ_MORE \/ ~ intact)

=============================================================================
