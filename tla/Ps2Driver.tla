------------------------------ MODULE Ps2Driver ------------------------------
(***************************************************************************)
(* The generic PS/2 driver (src/kernel/drivers/ps2driver.c): the circular  *)
(* receive queue, filled in interrupt context and emptied by the kernel's  *)
(* only task.  The task runs statement by statement, and between two       *)
(* statements the device can raise its interrupt and the clock can tick;   *)
(* an interrupt handler runs to its end (interrupt gates).  The lock of    *)
(* the driver is the mask bit of its line in the interrupt controller.     *)
(***************************************************************************)
EXTENDS Integers, Sequences

CONSTANTS
  Byte,                 \* the bytes a device can send
  NoByte,               \* no byte in the output buffer
  PS2_DRIVER_MAX_RECV,  \* size of the receive queue
  Timeouts,             \* the timeouts passed to ps2driver_read(), in ticks
  SleepTicks            \* ticks of the clock_sleep() between two polls

ASSUME Ps2DriverAssumption ==
  /\ 0 \in Byte /\ NoByte \notin Byte
  /\ PS2_DRIVER_MAX_RECV \in Nat \ {0}
  /\ Timeouts \subseteq Nat
  /\ SleepTicks \in Nat

VARIABLES
  recv_queue, recv_queue_head, recv_queue_last, recv_queue_size,
  masked,   \* the mask bit of the driver's irq_line
  obuf,     \* the controller's output buffer: the byte its IRQ announces
  pc,       \* the statement the task is at
  size,     \* the local of ps2driver_read()
  data,     \* what the caller of ps2driver_read() finds in *data
  left,     \* ticks until the timeout of ps2driver_read() is reached
  sleep     \* ticks until clock_sleep() returns

ring == <<recv_queue, recv_queue_head, recv_queue_last, recv_queue_size>>
vars == <<ring, masked, obuf, pc, size, data, left, sleep>>

Slots == 0..(PS2_DRIVER_MAX_RECV - 1)

Wrap(index) == IF index = PS2_DRIVER_MAX_RECV THEN 0 ELSE index

Init ==
  /\ recv_queue = [s \in Slots |-> 0]
  /\ recv_queue_head = 0 /\ recv_queue_last = 0 /\ recv_queue_size = 0
  /\ masked = FALSE
  /\ obuf = NoByte
  /\ pc = "idle"
  /\ size = 0 /\ data = 0 /\ left = 0 /\ sleep = 0

-----------------------------------------------------------------------------
(* Hardware and interrupt handlers *)

\* The device hands its next byte to the controller, once that is free.
DeviceSends(b) ==
  /\ obuf = NoByte
  /\ obuf' = b
  /\ UNCHANGED <<ring, masked, pc, size, data, left, sleep>>

\* ps2driver_recv(), at the end of the chain irq1_handler -> keyboard_recv:
\* a full queue loses the byte.
ps2driver_recv(b) ==
  IF recv_queue_size = PS2_DRIVER_MAX_RECV
    THEN UNCHANGED ring
    ELSE /\ recv_queue' = [recv_queue EXCEPT ![recv_queue_last] = b]
         /\ recv_queue_last' = Wrap(recv_queue_last + 1)
         /\ recv_queue_size' = recv_queue_size + 1
         /\ UNCHANGED recv_queue_head

\* The interrupt of the device, delivered as soon as its line is not masked.
Irq ==
  /\ ~ masked
  /\ obuf # NoByte
  /\ ps2driver_recv(obuf)
  /\ obuf' = NoByte
  /\ UNCHANGED <<masked, pc, size, data, left, sleep>>

\* clock_irq_handler(): time passes for the timeout and for clock_sleep().
ClockIrq ==
  /\ left > 0 \/ sleep > 0
  /\ left' = IF left > 0 THEN left - 1 ELSE 0
  /\ sleep' = IF sleep > 0 THEN sleep - 1 ELSE 0
  /\ UNCHANGED <<ring, masked, obuf, pc, size, data>>

-----------------------------------------------------------------------------
(* The task *)

Goto(from, to) == pc = from /\ pc' = to

\* Faulty variants: the line is not masked, or not unmasked.
ps2driver_lock_NoMask == masked' = masked
ps2driver_unlock_NoClear == masked' = masked

ps2driver_lock   == masked' = TRUE
ps2driver_unlock == masked' = FALSE

\* ps2driver_read(driver, data, timeout) starts.
ReadCall(timeout) ==
  /\ Goto("idle", "poll")
  /\ left' = timeout
  /\ UNCHANGED <<ring, masked, obuf, size, data, sleep>>

Poll ==
  /\ Goto("poll", "sample")
  /\ ps2driver_lock
  /\ UNCHANGED <<ring, obuf, size, data, left, sleep>>

Sample ==
  /\ Goto("sample", "sampled")
  /\ size' = recv_queue_size
  /\ UNCHANGED <<ring, masked, obuf, data, left, sleep>>

Sampled ==
  /\ Goto("sampled", "test")
  /\ ps2driver_unlock
  /\ UNCHANGED <<ring, obuf, size, data, left, sleep>>

\* Faulty variant: the timeout is not looked at.
Retry_ForEver ==
  /\ Goto("test", "sleep")
  /\ size = 0
  /\ sleep' = SleepTicks
  /\ UNCHANGED <<ring, masked, obuf, size, data, left>>

\* Nothing there and time left: sleep and poll again.
Retry ==
  /\ Goto("test", "sleep")
  /\ size = 0 /\ left > 0
  /\ sleep' = SleepTicks
  /\ UNCHANGED <<ring, masked, obuf, size, data, left>>

WakeUp ==
  /\ Goto("sleep", "poll")
  /\ sleep = 0
  /\ UNCHANGED <<ring, masked, obuf, size, data, left, sleep>>

\* Nothing there and the timeout is reached: return false.
ReadFails ==
  /\ Goto("test", "idle")
  /\ size = 0 /\ left = 0
  /\ UNCHANGED <<ring, masked, obuf, size, data, left, sleep>>

ReadLocks ==
  /\ Goto("test", "take")
  /\ size # 0
  /\ ps2driver_lock
  /\ UNCHANGED <<ring, obuf, size, data, left, sleep>>

\* Faulty variant: takes from the end where the handler writes.
Take_Newest ==
  /\ Goto("take", "advance")
  /\ data' = recv_queue[recv_queue_last]
  /\ UNCHANGED <<ring, masked, obuf, size, left, sleep>>

Take ==
  /\ Goto("take", "advance")
  /\ data' = recv_queue[recv_queue_head]
  /\ UNCHANGED <<ring, masked, obuf, size, left, sleep>>

Advance ==
  /\ Goto("advance", "shrink")
  /\ recv_queue_head' = Wrap(recv_queue_head + 1)
  /\ UNCHANGED <<recv_queue, recv_queue_last, recv_queue_size, masked, obuf, size, data,
                 left, sleep>>

Shrink ==
  /\ Goto("shrink", "unlock")
  /\ recv_queue_size' = recv_queue_size - 1
  /\ UNCHANGED <<recv_queue, recv_queue_head, recv_queue_last, masked, obuf, size, data,
                 left, sleep>>

\* ps2driver_read() unlocks and returns true; so ends the flush as well.
Unlock ==
  /\ Goto("unlock", "idle")
  /\ ps2driver_unlock
  /\ UNCHANGED <<ring, obuf, size, data, left, sleep>>

\* ps2driver_flush_recv_queue() starts.
FlushCall ==
  /\ Goto("idle", "flush_head")
  /\ ps2driver_lock
  /\ UNCHANGED <<ring, obuf, size, data, left, sleep>>

FlushHead ==
  /\ Goto("flush_head", "flush_last")
  /\ recv_queue_head' = 0
  /\ UNCHANGED <<recv_queue, recv_queue_last, recv_queue_size, masked, obuf, size, data,
                 left, sleep>>

FlushLast ==
  /\ Goto("flush_last", "flush_size")
  /\ recv_queue_last' = 0
  /\ UNCHANGED <<recv_queue, recv_queue_head, recv_queue_size, masked, obuf, size, data,
                 left, sleep>>

FlushSize ==
  /\ Goto("flush_size", "unlock")
  /\ recv_queue_size' = 0
  /\ UNCHANGED <<recv_queue, recv_queue_head, recv_queue_last, masked, obuf, size, data,
                 left, sleep>>

Statement ==
  \/ Poll \/ Sample \/ Sampled \/ Retry \/ WakeUp \/ ReadFails
  \/ ReadLocks \/ Take \/ Advance \/ Shrink \/ Unlock
  \/ FlushHead \/ FlushLast \/ FlushSize

Call == (\E timeout \in Timeouts : ReadCall(timeout)) \/ FlushCall

Next ==
  \/ \E b \in Byte : DeviceSends(b)
  \/ Irq
  \/ ClockIrq
  \/ Call
  \/ Statement

\* The task runs whenever no handler does, the clock ticks, and the processor
\* takes a pending interrupt as soon as its line is unmasked.
Fairness == WF_vars(Statement) /\ WF_vars(ClockIrq) /\ SF_vars(Irq)

Spec == Init /\ [][Next]_vars /\ Fairness

-----------------------------------------------------------------------------
(* Properties *)

Locked == {"sample", "sampled", "take", "advance", "shrink", "unlock",
           "flush_head", "flush_last", "flush_size"}

\* Types of the driver's fields and of the locals of ps2driver_read(): the
\* indices are "always wrapped!" (ps2driver.h).
TypeOK ==
  /\ recv_queue \in [Slots -> Byte]
  /\ recv_queue_head \in Slots
  /\ recv_queue_last \in Slots
  /\ recv_queue_size \in 0..PS2_DRIVER_MAX_RECV
  /\ masked \in BOOLEAN
  /\ obuf \in Byte \cup {NoByte}
  /\ pc \in Locked \cup {"idle", "poll", "test", "sleep"}
  /\ size \in 0..PS2_DRIVER_MAX_RECV
  /\ data \in Byte
  /\ left \in Nat /\ sleep \in Nat

\* The lock is held exactly in the critical sections of the task.
LockedInside == masked <=> pc \in Locked

\* Whenever the interrupt handler can run, the two indices and the count tell
\* the same story: the handler, which takes no lock, may rely on them.
RingIsConsistent ==
  ~ masked =>
    \/ recv_queue_last = recv_queue_head + recv_queue_size
    \/ recv_queue_last + PS2_DRIVER_MAX_RECV = recv_queue_head + recv_queue_size

\* The size that ps2driver_read() sampled under a first lock is still good
\* under the second one: it never takes a byte out of an empty queue, and
\* recv_queue_size never goes below zero.
NeverTakesFromEmpty ==
  pc \in {"take", "advance", "shrink"} => recv_queue_size > 0

\* Slot of the k-th byte of the queue, when its first byte is in slot first.
SlotAt(first, k) ==
  IF first + k - 1 < PS2_DRIVER_MAX_RECV THEN first + k - 1
  ELSE first + k - 1 - PS2_DRIVER_MAX_RECV

\* The bytes in the ring, oldest first.  A byte leaves the queue when it is
\* copied out (Take), the whole queue when its head is reset (FlushHead).
First == IF pc = "advance" THEN Wrap(recv_queue_head + 1) ELSE recv_queue_head

Length == IF pc \in {"flush_last", "flush_size"} THEN 0
          ELSE IF pc \in {"advance", "shrink"} THEN recv_queue_size - 1
          ELSE recv_queue_size

Queue == [k \in 1..Length |-> recv_queue[SlotAt(First, k)]]

Abstract == INSTANCE RecvQueueSpec WITH
  Byte <- Byte, NoByte <- NoByte, Max <- PS2_DRIVER_MAX_RECV,
  port <- obuf, queue <- Queue, data <- data

\* Whatever the interleaving of the task and the interrupts, the ring is a
\* first-in first-out queue: no byte is duplicated, reordered or read twice,
\* and none is lost unless the queue is full or flushed.
ImplementsFifo == Abstract!Spec

\* ps2driver_read() returns: its timeout is reached even if no byte comes.
ReadReturns == pc = "poll" ~> pc = "idle"

\* A byte in the controller does not wait for ever: the line never stays
\* masked, so its interrupt is served.
ByteIsFetched == obuf # NoByte ~> obuf = NoByte

=============================================================================
