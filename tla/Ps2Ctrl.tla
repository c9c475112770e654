------------------------------- MODULE Ps2Ctrl -------------------------------
(***************************************************************************)
(* The start of the PS/2 subsystem: ps2_init() of src/kernel/kernel/init.c *)
(* with ps2ctrl_init(), ps2ctrl_register_driver(),                         *)
(* ps2ctrl_identify_devices() and ps2ctrl_start_drivers() of               *)
(* src/kernel/drivers/ps2ctrl.c.  The dialogue that keyboard_start() has   *)
(* with the keyboard afterwards is module KeyboardStart.                   *)
(*                                                                         *)
(* All of it polls: a byte goes to the 8042 chip or through it to the      *)
(* device on the first port, and what comes back, from whichever of them,  *)
(* is read from the same data port.  The chip and the device are external; *)
(* they may not answer, and the device may send bytes of its own.          *)
(***************************************************************************)
EXTENDS Integers, Sequences, FiniteSets

CONSTANTS
  MaxFaults,  \* bound: bytes or answers of the device that are lost
  MaxNoise    \* bound: bytes the device sends unasked (keys pressed)

ASSUME BoundsAssumption == MaxFaults \in Nat /\ MaxNoise \in Nat

ACK == "FA"
BAT_OK == "AA"     \* self-test passed
BAT_BAD == "FC"    \* self-test failed
Junk == "junk"     \* any other byte
Answers == {ACK, BAT_OK, BAT_BAD, Junk, "AB", "83", "00"}

RESET_CMD == "FF"
DISABLE_SCANNING == "F5"
IDENTIFY == "F2"
NoInput == "none"

\* What the device answers to IDENTIFY, and how device_type_from_id_bytes()
\* reads it.
IdBytes == [mf2 |-> <<"AB", "83">>, mouse |-> <<"00">>, at |-> <<>>]

\* Faulty variant: the second identification byte decides.
device_type_from_id_bytes_Lax(bytes) ==
  IF bytes = <<>> THEN "at"
  ELSE IF Len(bytes) = 2 \/ bytes = <<"AB">> THEN "mf2"
  ELSE "mouse"

device_type_from_id_bytes(bytes) ==
  IF bytes = <<>> THEN "at"
  ELSE IF bytes \in {<<"00">>, <<"03">>, <<"04">>} THEN "mouse"
  ELSE IF bytes = <<"AB", "83">> THEN "mf2"
  ELSE IF bytes \in {<<"AB", "41">>, <<"AB", "C1">>} THEN "mf2_translated"
  ELSE "unknown"

PS2CTRL_MAX_DRIVERS == 4
MaxReset == 4    \* attempts of reset_devices(): max_try counts 3, 2, 1, 0

(***************************************************************************)
(* The configuration byte: the interrupts of both ports, the translation   *)
(* of scan codes, and the bits that say that the clock of a port is off.   *)
(***************************************************************************)
ConfBytes == [irq1 : BOOLEAN, irq2 : BOOLEAN, trans : BOOLEAN,
              off1 : BOOLEAN, off2 : BOOLEAN]

VARIABLES
  ctrl_pc,     \* the next step of ps2_init()
  conf_byte,   \* the local variable of the same name
  single,      \* single_channel
  initialized, \* ps2ctrl_initialized
  tries,       \* attempts left in reset_devices()
  drivers,     \* the types of the registered drivers
  installed,   \* ps2_drivers[0]: the type of the installed driver
  handler,     \* ps2_irq_handlers[0] is set
  irq1_masked, \* IRQ1 is masked
  id,          \* identify_bytes received so far
  chip,        \* the configuration byte in the chip
  dual,        \* the chip has a second port
  dev,         \* the device on the first port
  input,       \* the byte on its way to the device, or NoInput
  out,         \* the bytes that can be read from the data port
  faults, noise

kernel == <<single, initialized, tries, drivers, installed, handler, irq1_masked, id>>
outside == <<dual, dev, input, faults, noise>>
ctrl_vars == <<ctrl_pc, conf_byte, kernel, chip, out, outside>>

\* The chip and the device are in an unknown state; the lines are masked.
CtrlInit ==
  /\ ctrl_pc = "disable1"
  /\ conf_byte \in [irq1 : {FALSE}, irq2 : {FALSE}, trans : {FALSE},
                    off1 : {FALSE}, off2 : {FALSE}]
  /\ single = TRUE
  /\ initialized = FALSE
  /\ tries = MaxReset
  /\ drivers = {}
  /\ installed = "none"
  /\ handler = FALSE
  /\ irq1_masked = TRUE
  /\ id = <<>>
  /\ chip \in [irq1 : BOOLEAN, irq2 : {FALSE}, trans : BOOLEAN,
               off1 : {FALSE}, off2 : BOOLEAN]
  /\ dual \in BOOLEAN
  /\ dev \in [kind : {"mf2", "mouse", "at"}, scanning : BOOLEAN,
              testing : {FALSE}, tested : {FALSE}]
  /\ input = NoInput
  /\ out \in {<<>>, <<Junk>>}
  /\ faults = 0
  /\ noise = 0

-----------------------------------------------------------------------------
(* The device: external *)

\* The device takes the byte; it answers to nothing while it tests itself,
\* except to another reset.
DeviceTakes ==
  /\ input # NoInput /\ ~ chip.off1
  /\ dev.testing => input = RESET_CMD
  /\ input' = NoInput
  /\ dev' = IF input = RESET_CMD
              THEN [dev EXCEPT !.testing = TRUE, !.tested = FALSE, !.scanning = TRUE]
            ELSE IF input = DISABLE_SCANNING THEN [dev EXCEPT !.scanning = FALSE]
            ELSE dev
  /\ out' = IF input = IDENTIFY THEN Append(out, ACK) \o IdBytes[dev.kind]
                                ELSE Append(out, ACK)
  /\ UNCHANGED <<ctrl_pc, conf_byte, kernel, chip, dual, faults, noise>>

\* The self-test ends, well or badly, early or late.
DeviceTested ==
  /\ dev.testing
  /\ \E ok \in BOOLEAN :
       /\ dev' = [dev EXCEPT !.testing = FALSE, !.tested = ok]
       /\ out' = Append(out, IF ok THEN BAT_OK ELSE BAT_BAD)
  /\ UNCHANGED <<ctrl_pc, conf_byte, kernel, chip, dual, input, faults, noise>>

LoseByte ==
  /\ input # NoInput
  /\ faults < MaxFaults
  /\ input' = NoInput
  /\ faults' = faults + 1
  /\ UNCHANGED <<ctrl_pc, conf_byte, kernel, chip, out, dual, dev, noise>>

LoseAnswer ==
  /\ out # <<>>
  /\ faults < MaxFaults
  /\ out' = Tail(out)
  /\ faults' = faults + 1
  /\ UNCHANGED <<ctrl_pc, conf_byte, kernel, chip, dual, dev, input, noise>>

\* A key is pressed while the device scans and its port is on.
DeviceNoise ==
  /\ dev.scanning /\ ~ chip.off1 /\ ~ dev.testing
  /\ noise < MaxNoise
  /\ out' = Append(out, Junk)
  /\ noise' = noise + 1
  /\ UNCHANGED <<ctrl_pc, conf_byte, kernel, chip, dual, dev, input, faults>>

Device == DeviceTakes \/ DeviceTested \/ LoseByte \/ LoseAnswer \/ DeviceNoise

-----------------------------------------------------------------------------
(* Commands to the chip *)

GoTo(next) == ctrl_pc' = next

\* send_ctrl_cmd(): the chip obeys, or the wait for its input buffer times
\* out.  On a chip with one port the commands for the second are ignored.
SendCmd(at, effect, next, failed) ==
  /\ ctrl_pc = at
  /\ \/ GoTo(next) /\ chip' = effect
     \/ GoTo(failed) /\ UNCHANGED chip
  /\ UNCHANGED <<conf_byte, kernel, out, outside>>

Off2(value) == IF dual THEN [chip EXCEPT !.off2 = value] ELSE chip

\* send_ctrl_cmd_with_response(READ_BYTE_0).  A byte of the device that is
\* already there is taken for the answer.
ReadConf(at, next, failed) ==
  /\ ctrl_pc = at
  /\ \/ /\ GoTo(next)
        /\ IF out = <<>>
             THEN conf_byte' = chip /\ UNCHANGED out
             ELSE conf_byte' \in ConfBytes /\ out' = Append(Tail(out), Junk)
     \/ GoTo(failed) /\ UNCHANGED <<conf_byte, out>>
  /\ UNCHANGED <<kernel, chip, outside>>

\* send_ctrl_cmd_with_data(WRITE_BYTE_0).
WriteConf(at, byte, next, failed) ==
  /\ ctrl_pc = at
  /\ \/ GoTo(next) /\ chip' = byte /\ conf_byte' = byte
     \/ GoTo(failed) /\ UNCHANGED <<chip, conf_byte>>
  /\ UNCHANGED <<kernel, out, outside>>

\* Faulty variant: the translation of scan codes stays as it was.
NoIrqs_KeepsTranslation(byte) == [byte EXCEPT !.irq1 = FALSE, !.irq2 = FALSE]

NoIrqs(byte) == [byte EXCEPT !.irq1 = FALSE, !.irq2 = FALSE, !.trans = FALSE]

-----------------------------------------------------------------------------
(* ps2ctrl_init() *)

disable_devices ==
  \/ SendCmd("disable1", [chip EXCEPT !.off1 = TRUE], "disable2", "init_failed")
  \/ SendCmd("disable2", Off2(TRUE), "flush", "init_failed")

flush_controller_output_buffer ==
  /\ ctrl_pc = "flush"
  /\ out' = IF out = <<>> THEN out ELSE Tail(out)
  /\ GoTo("conf_read1")
  /\ UNCHANGED <<conf_byte, kernel, chip, outside>>

set_controller_configuration_byte ==
  \/ ReadConf("conf_read1", "conf_write1", "init_failed")
  \/ WriteConf("conf_write1", NoIrqs(conf_byte), "first_test", "init_failed")
  \/ ReadConf("conf_read2", "conf_write2", "init_failed")
  \/ WriteConf("conf_write2", NoIrqs(conf_byte), "channels", "init_failed")

\* The first test of the number of channels.
FirstChannelTest ==
  /\ ctrl_pc = "first_test"
  /\ single' = conf_byte.off2
  /\ GoTo("self_test")
  /\ UNCHANGED <<conf_byte, initialized, tries, drivers, installed, handler,
                 irq1_masked, id, chip, out, outside>>

\* The answer to the self-test decides; without an answer the code decides by
\* an uninitialised variable.  The test may reset the chip.
check_controller_selt_test ==
  /\ ctrl_pc = "self_test"
  /\ GoTo("conf_read2") \/ GoTo("init_failed")
  /\ \/ UNCHANGED chip
     \/ chip' = [chip EXCEPT !.irq1 = TRUE, !.trans = TRUE, !.off1 = FALSE]
  /\ UNCHANGED <<conf_byte, kernel, out, outside>>

has_two_channels ==
  \/ /\ ctrl_pc = "channels"
     /\ GoTo(IF single THEN "port1_test" ELSE "enable_second")
     /\ UNCHANGED <<conf_byte, kernel, chip, out, outside>>
  \/ SendCmd("enable_second", Off2(FALSE), "read_second", "init_failed")
  \/ ReadConf("read_second", "check_second", "init_failed")
  \/ /\ ctrl_pc = "check_second"
     /\ single' = conf_byte.off2
     /\ GoTo(IF conf_byte.off2 THEN "port1_test" ELSE "disable_second")
     /\ UNCHANGED <<conf_byte, initialized, tries, drivers, installed, handler,
                    irq1_masked, id, chip, out, outside>>
  \/ SendCmd("disable_second", Off2(TRUE), "port1_test", "init_failed")

check_interface_test ==
  \/ /\ ctrl_pc = "port1_test"
     /\ \/ GoTo(IF single THEN "enable1" ELSE "port2_test")
        \/ GoTo("init_failed")
     /\ UNCHANGED <<conf_byte, kernel, chip, out, outside>>
  \/ /\ ctrl_pc = "port2_test"
     /\ \/ dual /\ GoTo("enable1")
        \/ GoTo("init_failed")
     /\ UNCHANGED <<conf_byte, kernel, chip, out, outside>>

\* enable_devices(single_channel, true), with its roll-back.
enable_devices ==
  \/ SendCmd("enable1", [chip EXCEPT !.off1 = FALSE],
             IF single THEN "enable_read" ELSE "enable2", "init_failed")
  \/ SendCmd("enable2", Off2(FALSE), "enable_read", "undo1")
  \/ ReadConf("enable_read", "enable_write", IF single THEN "undo1" ELSE "undo2")
  \/ WriteConf("enable_write", [conf_byte EXCEPT !.irq1 = TRUE, !.irq2 = @ \/ ~ single],
               "reset_send", IF single THEN "undo1" ELSE "undo2")
  \/ SendCmd("undo2", Off2(TRUE), "undo1", "undo1")
  \/ SendCmd("undo1", [chip EXCEPT !.off1 = TRUE], "init_failed", "init_failed")

-----------------------------------------------------------------------------
(* Bytes to and from the device *)

\* send_byte_to_first_port(): fails if the input buffer stays full.
SendByte(at, byte, next, failed) ==
  /\ ctrl_pc = at
  /\ \/ input = NoInput /\ input' = byte /\ GoTo(next)
     \/ input # NoInput /\ UNCHANGED input /\ GoTo(failed)
  /\ UNCHANGED <<conf_byte, kernel, chip, out, dual, dev, faults, noise>>

\* recv_byte_from_first_port_sync() returns a byte.
Received(byte) == out # <<>> /\ byte = Head(out) /\ out' = Tail(out)

\* It times out: nothing is on its way, except the end of a self-test.
TimedOut == out = <<>> /\ (input = NoInput \/ chip.off1 \/ dev.testing) /\ UNCHANGED out

Polling(at) == ctrl_pc = at /\ UNCHANGED <<conf_byte, chip, outside>>

\* Faulty variant: attempts are not counted.
RetryReset_ForEver == GoTo("reset_send") /\ UNCHANGED kernel

\* The next attempt of reset_devices(), or none is left.
RetryReset ==
  /\ tries' = tries - 1
  /\ GoTo(IF tries = 1 THEN "init_failed" ELSE "reset_send")
  /\ UNCHANGED <<single, initialized, drivers, installed, handler, irq1_masked, id>>

ResetSend ==
  \/ SendByte("reset_send", RESET_CMD, "reset_ack", "reset_again")
  \/ Polling("reset_again") /\ RetryReset /\ UNCHANGED out

\* The answer to the reset command.  After an unknown one the code goes on as
\* after a passed self-test.
ResetAck ==
  /\ Polling("reset_ack")
  /\ \/ (TimedOut \/ Received(BAT_BAD)) /\ RetryReset
     \/ Received(ACK) /\ GoTo("reset_result") /\ UNCHANGED kernel
     \/ /\ \E byte \in Answers \ {ACK, BAT_BAD} : Received(byte)
        /\ GoTo("reset_done")
        /\ UNCHANGED kernel

\* The result of the self-test of the device.
ResetResult ==
  /\ Polling("reset_result")
  /\ \/ Received(BAT_OK) /\ GoTo("reset_done") /\ UNCHANGED kernel
     \/ TimedOut /\ RetryReset
     \/ (\E byte \in Answers \ {BAT_OK} : Received(byte)) /\ RetryReset

\* The end of reset_devices(), which panics for a second device, and of
\* ps2ctrl_init().
InitEnds ==
  /\ ctrl_pc = "reset_done"
  /\ IF single
       THEN initialized' = TRUE /\ GoTo("register")
       ELSE GoTo("panic") /\ UNCHANGED initialized
  /\ UNCHANGED <<conf_byte, single, tries, drivers, installed, handler, irq1_masked, id,
                 chip, out, outside>>

reset_devices == ResetSend \/ ResetAck \/ ResetResult

-----------------------------------------------------------------------------
(* ps2_init() after ps2ctrl_init(), whose result it does not look at *)

InitFailed ==
  /\ ctrl_pc = "init_failed"
  /\ GoTo("register")
  /\ UNCHANGED <<conf_byte, kernel, chip, out, outside>>

\* keyboard_init() registers the driver of an MF2 keyboard; its result is not
\* looked at either.
ps2ctrl_register_driver ==
  /\ ctrl_pc = "register"
  /\ drivers' = IF initialized /\ Cardinality(drivers) < PS2CTRL_MAX_DRIVERS
                  THEN drivers \cup {"mf2"} ELSE drivers
  /\ GoTo("identify")
  /\ UNCHANGED <<conf_byte, single, initialized, tries, installed, handler, irq1_masked,
                 id, chip, out, outside>>

WaitAck(at, next) ==
  /\ Polling(at)
  /\ \/ Received(ACK) /\ GoTo(next)
     \/ TimedOut /\ GoTo("failed")
     \/ (\E byte \in Answers \ {ACK} : Received(byte)) /\ GoTo("failed")
  /\ UNCHANGED kernel

\* One turn of the loop that reads up to two identification bytes; it ends
\* early when its timeout has expired, after a byte or without one.
IdentifyBytes ==
  /\ Polling("id_bytes")
  /\ \/ /\ \E byte \in Answers :
             Received(byte) /\ id' = Append(id, byte)
        /\ GoTo("id_type") \/ (Len(id) = 0 /\ GoTo("id_bytes"))
     \/ TimedOut /\ GoTo("id_type") /\ UNCHANGED id
  /\ UNCHANGED <<single, initialized, tries, drivers, installed, handler, irq1_masked>>

\* Find the driver for the device and install it on the first port.
Install ==
  /\ ctrl_pc = "id_type"
  /\ LET type == device_type_from_id_bytes(id)
     IN  IF type \in drivers /\ installed = "none"
           THEN installed' = type /\ GoTo(IF single THEN "start" ELSE "panic")
           ELSE GoTo("failed") /\ UNCHANGED installed
  /\ UNCHANGED <<conf_byte, single, initialized, tries, drivers, handler, irq1_masked, id,
                 chip, out, outside>>

ps2ctrl_identify_devices ==
  \/ /\ ctrl_pc = "identify"
     /\ GoTo(IF initialized THEN "id_off" ELSE "failed")
     /\ UNCHANGED <<conf_byte, kernel, chip, out, outside>>
  \/ SendByte("id_off", DISABLE_SCANNING, "id_off_ack", "failed")
  \/ WaitAck("id_off_ack", "id_cmd")
  \/ SendByte("id_cmd", IDENTIFY, "id_ack", "failed")
  \/ WaitAck("id_ack", "id_bytes")
  \/ IdentifyBytes
  \/ Install

\* The handler is set before the line is unmasked, and both before the driver
\* is started.
ps2ctrl_start_drivers ==
  \/ /\ ctrl_pc = "start"
     /\ handler' = initialized
     /\ GoTo(IF initialized THEN "unmask" ELSE "failed")
     /\ UNCHANGED <<conf_byte, single, initialized, tries, drivers, installed, irq1_masked,
                    id, chip, out, outside>>
  \/ /\ ctrl_pc = "unmask"
     /\ irq1_masked' = FALSE
     /\ GoTo("started")
     /\ UNCHANGED <<conf_byte, single, initialized, tries, drivers, installed, handler,
                    id, chip, out, outside>>

ps2_init ==
  \/ disable_devices
  \/ flush_controller_output_buffer
  \/ set_controller_configuration_byte
  \/ FirstChannelTest
  \/ check_controller_selt_test
  \/ has_two_channels
  \/ check_interface_test
  \/ enable_devices
  \/ reset_devices
  \/ InitEnds
  \/ InitFailed
  \/ ps2ctrl_register_driver
  \/ ps2ctrl_identify_devices
  \/ ps2ctrl_start_drivers

CtrlNext == ps2_init \/ Device

\* ps2_init() is the only task; a device that is on takes the bytes it is sent
\* before the timeout of 200 ms, or the byte is lost.
CtrlFairness == WF_ctrl_vars(ps2_init) /\ WF_ctrl_vars(DeviceTakes)

CtrlSpec == CtrlInit /\ [][CtrlNext]_ctrl_vars /\ CtrlFairness

-----------------------------------------------------------------------------
(* Properties *)

Ended == ctrl_pc \in {"started", "failed", "panic"}

\* When the line is unmasked, the interrupt handler can run: it does not
\* panic ("PS/2 controller not initialized!") and no byte is lost for want of
\* a driver, and the driver is the one for the device that is there.
UnmaskedMeansDriven ==
  ~ irq1_masked => initialized /\ handler /\ installed = dev.kind

\* What keyboard_start() assumes of the controller (keyboard.c:996): the port
\* is on, its interrupt is on, scan codes are not translated, scanning is off
\* and the device has passed its self-test, although the first of several
\* resets may be answered after the second; provided no more than one byte was
\* lost and the device sent nothing unasked.  Keys alone, pressed during the
\* start-up, do not make an untested device look like a tested one.
StartAssumptionsHold ==
  ctrl_pc = "started" =>
    /\ noise = 0 /\ faults <= 1 =>
         ~ chip.off1 /\ chip.irq1 /\ ~ chip.trans /\ ~ dev.scanning /\ dev.tested
    /\ faults = 0 => dev.tested

\* ps2_init() comes to an end, whatever the chip and the device do.
BringUpEnds == <>Ended

=============================================================================
