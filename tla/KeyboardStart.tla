---------------------------- MODULE KeyboardStart ----------------------------
(***************************************************************************)
(* keyboard_start() (src/kernel/drivers/keyboard.c): the dialogue with the *)
(* keyboard that turns the leds off, asks for the scan code set, changes   *)
(* it to set 2 if need be and enables scanning.                            *)
(*                                                                         *)
(* A byte goes through the input buffer of the controller to the keyboard; *)
(* its answer comes back through the interrupt handler and the receive     *)
(* queue of the driver (module Ps2Driver).  Bytes and answers can be lost, *)
(* the keyboard can ask for a byte again, and every wait is cut off by a   *)
(* timeout.                                                                *)
(***************************************************************************)
EXTENDS Integers, Sequences

CONSTANTS
  MaxFaults,  \* bound: bytes or answers lost and bytes refused
  MaxFaultsLate,  \* the same, with a keyboard that may be late
  MaxKeys     \* bound: keys pressed during the dialogue

ASSUME FaultsAssumption ==
  MaxFaults \in Nat /\ MaxFaultsLate \in 0..MaxFaults /\ MaxKeys \in Nat

CMD_SET_LED         == 237
CMD_SCAN_CODE_SET   == 240
CMD_ENABLE_SCANNING == 244
RES_ACK    == 250
RES_RESEND == 254
ScanCode   == 28    \* the code of some key
NoByte     == -1

\* The calls of keyboard_send() in the order keyboard_start() makes them, the
\* read of the scan code set, and the end.
Steps == {"led_cmd", "led_arg", "get_cmd", "get_arg", "get_read",
          "set_cmd", "set_arg", "enable", "end"}

\* The byte that keyboard_send() is called with.
ByteOf ==
  [led_cmd |-> CMD_SET_LED,       led_arg |-> 0,
   get_cmd |-> CMD_SCAN_CODE_SET, get_arg |-> 0,
   set_cmd |-> CMD_SCAN_CODE_SET, set_arg |-> 2,
   enable  |-> CMD_ENABLE_SCANNING]

MaxTry == 3    \* of keyboard_send() and of keyboard_send_and_recv()

VARIABLES
  step,      \* where keyboard_start() is
  pc,        \* "send" or "recv": where keyboard_send_and_recv() is
  max_try,   \* tries left in keyboard_send()
  sends,     \* tries left in keyboard_send_and_recv()
  recv_queue,
             \* the receive queue of the driver
  result,    \* what keyboard_start() returned, or "running"
  enabled,   \* history: keyboard_enable_scanning() returned true
  input,     \* the input buffer of the controller, NoByte if empty
  out,       \* bytes on the way from the keyboard to the receive queue
  dev,       \* the keyboard: its scan code set, whether it scans, and the
             \* command it wants the argument of
  late,      \* the keyboard may take longer than the timeout to answer
  faults,
  keys

driver == <<step, pc, max_try, sends, result, enabled>>
device == <<dev, late, faults, keys>>
start_vars == <<driver, recv_queue, input, out, device>>

\* Scanning was disabled by the controller and the receive queue was flushed.
StartInit ==
  /\ step = "led_cmd"
  /\ pc = "send"
  /\ max_try = MaxTry - 1
  /\ sends = MaxTry
  /\ recv_queue = <<>>
  /\ result = "running"
  /\ enabled = FALSE
  /\ input = NoByte
  /\ out = <<>>
  /\ dev \in [set : 1..3, scanning : {FALSE}, wants : {"none"}]
  /\ late \in BOOLEAN
  /\ faults = 0
  /\ keys = 0

-----------------------------------------------------------------------------
(* The keyboard *)

\* The keyboard obeys the byte in the input buffer: its new state and answer.
\* A byte that is neither a command nor an expected argument is refused.
Obeys(b) ==
  IF dev.wants = "led" /\ b \in 0..7
    THEN [dev |-> [dev EXCEPT !.wants = "none"], answer |-> <<RES_ACK>>]
  ELSE IF dev.wants = "set" /\ b = 0
    THEN [dev |-> [dev EXCEPT !.wants = "none"], answer |-> <<RES_ACK, dev.set>>]
  ELSE IF dev.wants = "set" /\ b \in 1..3
    THEN [dev |-> [dev EXCEPT !.wants = "none", !.set = b], answer |-> <<RES_ACK>>]
  ELSE IF b = CMD_SET_LED
    THEN [dev |-> [dev EXCEPT !.wants = "led"], answer |-> <<RES_ACK>>]
  ELSE IF b = CMD_SCAN_CODE_SET
    THEN [dev |-> [dev EXCEPT !.wants = "set"], answer |-> <<RES_ACK>>]
  ELSE IF b = CMD_ENABLE_SCANNING
    THEN [dev |-> [dev EXCEPT !.wants = "none", !.scanning = TRUE],
          answer |-> <<RES_ACK>>]
  ELSE [dev |-> dev, answer |-> <<RES_RESEND>>]

Answer ==
  /\ input # NoByte
  /\ dev' = Obeys(input).dev
  /\ out' = out \o Obeys(input).answer
  /\ input' = NoByte
  /\ UNCHANGED <<driver, recv_queue, late, faults, keys>>

MayFail == faults < IF late THEN MaxFaultsLate ELSE MaxFaults

Refuse ==
  /\ input # NoByte
  /\ MayFail
  /\ out' = Append(out, RES_RESEND)
  /\ input' = NoByte
  /\ faults' = faults + 1
  /\ UNCHANGED <<driver, recv_queue, dev, late, keys>>

LoseByte ==
  /\ input # NoByte
  /\ MayFail
  /\ input' = NoByte
  /\ faults' = faults + 1
  /\ UNCHANGED <<driver, recv_queue, out, dev, late, keys>>

LoseAnswer ==
  /\ out # <<>>
  /\ MayFail
  /\ out' = Tail(out)
  /\ faults' = faults + 1
  /\ UNCHANGED <<driver, recv_queue, input, dev, late, keys>>

\* The interrupt handler puts the next byte into the receive queue.
Deliver ==
  /\ out # <<>>
  /\ recv_queue' = Append(recv_queue, Head(out))
  /\ out' = Tail(out)
  /\ UNCHANGED <<driver, input, device>>

PressKey ==
  /\ dev.scanning
  /\ keys < MaxKeys
  /\ out' = Append(out, ScanCode)
  /\ keys' = keys + 1
  /\ UNCHANGED <<driver, recv_queue, input, dev, late, faults>>

-----------------------------------------------------------------------------
(* The driver *)

\* keyboard_send() is called with the byte of the next step.
GoTo(next) ==
  /\ step' = next
  /\ pc' = "send"
  /\ max_try' = MaxTry - 1
  /\ sends' = MaxTry

Return(value) ==
  /\ step' = "end"
  /\ result' = value
  /\ UNCHANGED <<pc, max_try, sends>>

\* keyboard_send() returns true.
Succeed ==
  \/ /\ step \in {"led_cmd", "led_arg", "get_cmd", "set_cmd", "set_arg"}
     /\ GoTo([led_cmd |-> "led_arg", led_arg |-> "get_cmd", get_cmd |-> "get_arg",
              set_cmd |-> "set_arg", set_arg |-> "enable"][step])
     /\ UNCHANGED <<result, enabled>>
  \/ /\ step = "get_arg"
     /\ step' = "get_read"
     /\ UNCHANGED <<pc, max_try, sends, result, enabled>>
  \/ /\ step = "enable"
     /\ enabled' = TRUE
     /\ Return("true")

\* keyboard_send() returns false: the leds do not matter, without the scan
\* code set the start fails, and without scanning it returns true.
Fail ==
  \/ /\ step \in {"led_cmd", "led_arg"}
     /\ GoTo("get_cmd")
     /\ UNCHANGED <<result, enabled>>
  \/ /\ step \in {"get_cmd", "get_arg", "set_cmd", "set_arg"}
     /\ Return("false")
     /\ UNCHANGED enabled
  \/ /\ step = "enable"
     /\ Return("true")
     /\ UNCHANGED enabled

Sending == step \in DOMAIN ByteOf /\ pc = "send"
Receiving == step \in DOMAIN ByteOf /\ pc = "recv"

\* Nothing is on its way any more: a keyboard that is not late has answered,
\* or the byte or the answer is lost.
Quiet == input = NoByte /\ out = <<>>

\* keyboard_send_and_recv() gives up: "max try reached".
GiveUp ==
  /\ Sending
  /\ sends = 0
  /\ Fail
  /\ UNCHANGED <<recv_queue, input, out, device>>

\* send(): the byte goes into the empty input buffer.
Send ==
  /\ Sending
  /\ sends > 0
  /\ input = NoByte
  /\ input' = ByteOf[step]
  /\ sends' = sends - 1
  /\ pc' = "recv"
  /\ UNCHANGED <<step, max_try, result, enabled, recv_queue, out, device>>

\* send(): the input buffer is still full when the timeout expires.
SendTimeout ==
  /\ Sending
  /\ sends > 0
  /\ input # NoByte
  /\ late
  /\ sends' = sends - 1
  /\ UNCHANGED <<step, pc, max_try, result, enabled, recv_queue, input, out, device>>

\* Faulty variant: every answer but RESEND is an ACK.
Receive_AnyAnswer ==
  /\ Receiving
  /\ recv_queue # <<>>
  /\ recv_queue' = Tail(recv_queue)
  /\ \/ Head(recv_queue) # RES_RESEND /\ Succeed
     \/ /\ Head(recv_queue) = RES_RESEND /\ max_try > 0
        /\ max_try' = max_try - 1
        /\ sends' = MaxTry
        /\ pc' = "send"
        /\ UNCHANGED <<step, result, enabled>>
     \/ Head(recv_queue) = RES_RESEND /\ max_try = 0 /\ Fail
  /\ UNCHANGED <<input, out, device>>

\* The answer to the byte, or what is taken for it: the next byte of the
\* receive queue.
Receive ==
  /\ Receiving
  /\ recv_queue # <<>>
  /\ recv_queue' = Tail(recv_queue)
  /\ \/ Head(recv_queue) = RES_ACK /\ Succeed
     \/ /\ Head(recv_queue) = RES_RESEND /\ max_try > 0
        /\ max_try' = max_try - 1
        /\ sends' = MaxTry
        /\ pc' = "send"
        /\ UNCHANGED <<step, result, enabled>>
     \/ Head(recv_queue) = RES_RESEND /\ max_try = 0 /\ Fail
     \/ Head(recv_queue) \notin {RES_ACK, RES_RESEND} /\ Fail
  /\ UNCHANGED <<input, out, device>>

\* Faulty variant: it waits for the answer again.
ReceiveTimeout_WaitsAgain ==
  /\ Receiving
  /\ recv_queue = <<>>
  /\ late \/ Quiet
  /\ UNCHANGED start_vars

\* No answer before the timeout: the byte is sent again.
ReceiveTimeout ==
  /\ Receiving
  /\ recv_queue = <<>>
  /\ late \/ Quiet
  /\ pc' = "send"
  /\ UNCHANGED <<step, max_try, sends, result, enabled, recv_queue, input, out, device>>

\* Faulty variant: set 1 is left as it is.
ReadSet_AcceptsSet1 ==
  /\ step = "get_read"
  /\ recv_queue # <<>>
  /\ recv_queue' = Tail(recv_queue)
  /\ \/ Head(recv_queue) \in {1, 2} /\ GoTo("enable") /\ UNCHANGED result
     \/ Head(recv_queue) = 3 /\ GoTo("set_cmd") /\ UNCHANGED result
     \/ Head(recv_queue) \notin 1..3 /\ Return("false")
  /\ UNCHANGED <<enabled, input, out, device>>

\* keyboard_get_scan_code_set() reads the scan code set, and keyboard_start()
\* decides whether it has to be changed.
ReadSet ==
  /\ step = "get_read"
  /\ recv_queue # <<>>
  /\ recv_queue' = Tail(recv_queue)
  /\ \/ Head(recv_queue) = 2 /\ GoTo("enable") /\ UNCHANGED result
     \/ Head(recv_queue) \in {1, 3} /\ GoTo("set_cmd") /\ UNCHANGED result
     \/ Head(recv_queue) \notin 1..3 /\ Return("false")
  /\ UNCHANGED <<enabled, input, out, device>>

ReadSetTimeout ==
  /\ step = "get_read"
  /\ recv_queue = <<>>
  /\ late \/ Quiet
  /\ Return("false")
  /\ UNCHANGED <<enabled, recv_queue, input, out, device>>

Driver ==
  \/ GiveUp
  \/ Send
  \/ SendTimeout
  \/ Receive
  \/ ReceiveTimeout
  \/ ReadSet
  \/ ReadSetTimeout

Keyboard ==
  \/ Answer
  \/ Refuse
  \/ LoseByte
  \/ LoseAnswer
  \/ Deliver
  \/ PressKey

StartNext == Driver \/ Keyboard

\* The driver is the only task and the clock ticks, so its loops go on.  A
\* keyboard that is not late handles every byte; a late one need not.
Fairness ==
  /\ WF_start_vars(Driver)
  /\ WF_start_vars(~ late /\ Answer)
  /\ WF_start_vars(~ late /\ Deliver)

StartSpec == StartInit /\ [][StartNext]_start_vars /\ Fairness

-----------------------------------------------------------------------------
(* Properties *)

\* With a keyboard that answers in time, a start whose last command was
\* acknowledged leaves the keyboard in scan code set 2 and scanning, whatever
\* was lost, refused or retried on the way.
StartedMeansReady == ~ late /\ enabled => dev.set = 2 /\ dev.scanning

\* ... and no answer is left behind in the receive queue that the keyboard
\* task would take for a scan code.
NoAnswerLeftBehind ==
  ~ late /\ enabled =>
    \A i \in DOMAIN (recv_queue \o out) :
      (recv_queue \o out)[i] \notin {RES_ACK, RES_RESEND}

\* keyboard_start() returns, whatever the keyboard does or does not answer:
\* all retries are bounded.
StartReturns == <>(result # "running")

=============================================================================
