----------------------------- MODULE Ps2Proofs -----------------------------
(***************************************************************************)
(* Proofs about the receive queue of the PS/2 drivers, for every size of   *)
(* the queue and every interleaving of the task and the interrupts.  The   *)
(* invariant adds to the type what is true of the ring inside the critical *)
(* sections, and that the size the task sampled is never larger than the   *)
(* size of the queue: interrupts only make the queue grow.                 *)
(***************************************************************************)
EXTENDS Ps2Driver, Ps2Ctrl, KernelLoop, SequenceTheorems, TLAPS

MAX == PS2_DRIVER_MAX_RECV

\* last is n slots after head, around the ring.
Ahead(head, last, n) == last = head + n \/ last + MAX = head + n

\* The two indices and the size, at every statement of the task.
RingInv ==
  /\ pc \notin {"shrink", "flush_last", "flush_size"}
       => Ahead(recv_queue_head, recv_queue_last, recv_queue_size)
  /\ pc = "shrink" => Ahead(recv_queue_head, recv_queue_last, recv_queue_size - 1)
  /\ pc \in {"flush_last", "flush_size"} => recv_queue_head = 0
  /\ pc = "flush_size" => recv_queue_last = 0

\* The sampled size is a lower bound of the size until the byte is taken.
SampleInv ==
  /\ pc \in {"sampled", "test"} => size <= recv_queue_size
  /\ pc \in {"take", "advance", "shrink"} => recv_queue_size > 0

IInv == TypeOK /\ LockedInside /\ RingInv /\ SampleInv

LEMMA Constants ==
  /\ 0 \in Byte /\ NoByte \notin Byte
  /\ MAX \in Nat /\ MAX > 0
  /\ Timeouts \subseteq Nat
  /\ SleepTicks \in Nat
BY Ps2DriverAssumption DEF MAX

USE DEF MAX

-----------------------------------------------------------------------------

LEMMA InitHolds == Init => IInv
<1> SUFFICES ASSUME Init PROVE IInv
  OBVIOUS
<1>1. TypeOK
  <2>1. masked \in BOOLEAN
    BY Zenon DEF Init
  <2>2. QED
    BY <2>1, Constants DEF Init, TypeOK, Slots
<1>2. LockedInside
  BY DEF Init, LockedInside, Locked
<1>3. RingInv /\ SampleInv
  BY Constants DEF Init, RingInv, SampleInv, Ahead
<1>4. QED
  BY <1>1, <1>2, <1>3 DEF IInv

\* The device and the clock touch nothing of the driver.
LEMMA HardwareHolds ==
  ASSUME IInv, (\E b \in Byte : DeviceSends(b)) \/ ClockIrq
  PROVE  IInv'
<1>1. TypeOK'
  BY Constants DEF IInv, TypeOK, DeviceSends, ClockIrq, ring
<1>2. QED
  BY <1>1 DEF IInv, LockedInside, RingInv, SampleInv, Ahead, DeviceSends, ClockIrq, ring

\* The interrupt handler runs outside the critical sections.
LEMMA IrqHolds ==
  ASSUME IInv, Irq
  PROVE  IInv'
<1>1. pc \notin Locked /\ pc' = pc
  BY DEF IInv, LockedInside, Irq
<1>2. CASE recv_queue_size = MAX
  <2>1. UNCHANGED ring
    BY <1>2 DEF Irq, ps2driver_recv
  <2>2. QED
    BY <1>1, <2>1 DEF IInv, TypeOK, LockedInside, RingInv, SampleInv, Ahead, Irq, ring
<1>3. CASE recv_queue_size # MAX
  <2>1. /\ recv_queue' = [recv_queue EXCEPT ![recv_queue_last] = obuf]
        /\ recv_queue_last' = Wrap(recv_queue_last + 1)
        /\ recv_queue_size' = recv_queue_size + 1
        /\ recv_queue_head' = recv_queue_head
        /\ obuf \in Byte /\ obuf' = NoByte
        /\ UNCHANGED <<masked, pc, size, data, left, sleep>>
    BY <1>3 DEF Irq, ps2driver_recv, IInv, TypeOK
  <2>2. TypeOK'
    BY <1>3, <2>1, Constants DEF IInv, TypeOK, Slots, Wrap
  <2>3. RingInv'
    BY <1>1, <1>3, <2>1, Constants
    DEF IInv, TypeOK, RingInv, Ahead, Slots, Wrap, Locked
  <2>4. SampleInv'
    BY <1>1, <1>3, <2>1, Constants DEF IInv, TypeOK, SampleInv, Locked
  <2>5. QED
    BY <2>1, <2>2, <2>3, <2>4 DEF IInv, LockedInside
<1>4. QED
  BY <1>2, <1>3

\* The statements that leave the ring alone.
LEMMA ReadHolds ==
  ASSUME IInv,
         \/ \E timeout \in Timeouts : ReadCall(timeout)
         \/ Poll \/ Sample \/ Sampled \/ Retry \/ WakeUp \/ ReadFails \/ ReadLocks
         \/ Take \/ Unlock \/ FlushCall
  PROVE  IInv'
<1>1. UNCHANGED ring
  BY DEF ReadCall, Poll, Sample, Sampled, Retry, WakeUp, ReadFails, ReadLocks, Take,
         Unlock, FlushCall
<1>2. masked' \in BOOLEAN
  BY Zenon
  DEF IInv, TypeOK, ReadCall, Poll, Sample, Sampled, Retry, WakeUp, ReadFails, ReadLocks,
      Take, Unlock, FlushCall, ps2driver_lock, ps2driver_unlock
<1>3. TypeOK'
  BY <1>1, <1>2, Constants
  DEF IInv, TypeOK, ring, ReadCall, Poll, Sample, Sampled, Retry, WakeUp, ReadFails,
      ReadLocks, Take, Unlock, FlushCall, Goto, Locked
<1>4. LockedInside'
  BY DEF IInv, LockedInside, ReadCall, Poll, Sample, Sampled, Retry, WakeUp, ReadFails,
         ReadLocks, Take, Unlock, FlushCall, Goto, Locked, ps2driver_lock, ps2driver_unlock
<1>5. RingInv'
  BY <1>1
  DEF IInv, RingInv, Ahead, ring, ReadCall, Poll, Sample, Sampled, Retry, WakeUp,
      ReadFails, ReadLocks, Take, Unlock, FlushCall, Goto
<1>6. SampleInv'
  BY <1>1, Constants
  DEF IInv, TypeOK, SampleInv, ring, ReadCall, Poll, Sample, Sampled, Retry, WakeUp,
      ReadFails, ReadLocks, Take, Unlock, FlushCall, Goto
<1>7. QED
  BY <1>3, <1>4, <1>5, <1>6 DEF IInv

\* The statements that update the ring under the lock.
LEMMA UpdateHolds ==
  ASSUME IInv, Advance \/ Shrink \/ FlushHead \/ FlushLast \/ FlushSize
  PROVE  IInv'
<1>1. TypeOK'
  BY Constants
  DEF IInv, TypeOK, SampleInv, Advance, Shrink, FlushHead, FlushLast, FlushSize, Goto,
      Locked, Slots, Wrap
<1>2. LockedInside'
  BY DEF IInv, LockedInside, Advance, Shrink, FlushHead, FlushLast, FlushSize, Goto, Locked
<1>3. RingInv'
  BY Constants
  DEF IInv, TypeOK, RingInv, SampleInv, Ahead, Advance, Shrink, FlushHead, FlushLast,
      FlushSize, Goto, Slots, Wrap
<1>4. SampleInv'
  BY DEF IInv, SampleInv, Advance, Shrink, FlushHead, FlushLast, FlushSize, Goto
<1>5. QED
  BY <1>1, <1>2, <1>3, <1>4 DEF IInv

LEMMA NextHolds == IInv /\ [Next]_vars => IInv'
<1> SUFFICES ASSUME IInv, [Next]_vars PROVE IInv'
  OBVIOUS
<1>1. CASE Next
  BY <1>1, HardwareHolds, IrqHolds, ReadHolds, UpdateHolds DEF Next, Call, Statement
<1>2. CASE UNCHANGED vars
  BY <1>2 DEF vars, ring, IInv, TypeOK, LockedInside, RingInv, SampleInv, Ahead
<1>3. QED
  BY <1>1, <1>2

-----------------------------------------------------------------------------

\* The inductive invariant, for every interleaving.
THEOREM Invariance == Spec => []IInv
BY InitHolds, NextHolds, PTL DEF Spec

\* The indices stay wrapped and the size in its bounds.
THEOREM TypeCorrect == Spec => []TypeOK
BY Invariance, PTL DEF IInv

\* The interrupt handler always finds the indices and the size in agreement.
THEOREM RingConsistency == Spec => []RingIsConsistent
<1>1. IInv => RingIsConsistent
  BY DEF IInv, LockedInside, Locked, RingInv, Ahead, RingIsConsistent
<1>2. QED
  BY <1>1, Invariance, PTL

\* The stale sample is harmless: the queue is not empty when a byte is taken.
THEOREM NoUnderflow == Spec => []NeverTakesFromEmpty
<1>1. IInv => NeverTakesFromEmpty
  BY DEF IInv, SampleInv, NeverTakesFromEmpty
<1>2. QED
  BY <1>1, Invariance, PTL

-----------------------------------------------------------------------------
(* The abstract queue *)

LEMMA LengthType ==
  ASSUME IInv
  PROVE  /\ Length \in Nat /\ Length <= MAX
         /\ First \in Slots
BY Constants DEF IInv, TypeOK, SampleInv, Length, First, Slots, Wrap

LEMMA SlotType ==
  ASSUME NEW f \in Slots, NEW k \in 1..MAX
  PROVE  SlotAt(f, k) \in Slots
BY Constants DEF SlotAt, Slots

LEMMA QueueIsSeq ==
  ASSUME IInv
  PROVE  /\ Queue \in Seq(Byte)
         /\ Len(Queue) = Length
         /\ \A k \in 1..Length : Queue[k] = recv_queue[SlotAt(First, k)]
<1>1. ASSUME NEW k \in 1..Length PROVE recv_queue[SlotAt(First, k)] \in Byte
  BY LengthType, SlotType, Constants DEF IInv, TypeOK
<1>2. QED
  BY <1>1, LengthType DEF Queue

\* The queue changes only with the ring and the three positions of the task
\* where a byte or all bytes have left it.
LEMMA SameQueue ==
  ASSUME recv_queue' = recv_queue, First' = First, Length' = Length
  PROVE  Queue' = Queue
BY DEF Queue, SlotAt

LEMMA InitRefines == Init => Abstract!Init
<1> SUFFICES ASSUME Init PROVE Abstract!Init
  OBVIOUS
<1>1. Length = 0
  BY DEF Init, Length
<1>2. Queue = << >>
  BY <1>1 DEF Queue
<1>3. QED
  BY <1>2 DEF Init, Abstract!Init

LEMMA IrqRefines ==
  ASSUME IInv, IInv', Irq
  PROVE  Abstract!Receive
<1>1. /\ pc \notin Locked /\ pc' = pc
      /\ obuf # NoByte /\ obuf \in Byte /\ obuf' = NoByte /\ data' = data
  BY DEF IInv, TypeOK, LockedInside, Irq
<1>2. /\ Length = recv_queue_size /\ First = recv_queue_head
      /\ Length' = recv_queue_size' /\ First' = recv_queue_head'
  BY <1>1 DEF Length, First, Locked
<1>3. CASE recv_queue_size = MAX
  <2>1. UNCHANGED ring
    BY <1>3 DEF Irq, ps2driver_recv
  <2>2. Queue' = Queue
    BY <1>2, <2>1, SameQueue DEF ring
  <2>3. QED
    BY <1>1, <1>2, <1>3, <2>2, QueueIsSeq, Constants DEF Abstract!Receive
<1>4. CASE recv_queue_size # MAX
  <2>1. /\ recv_queue' = [recv_queue EXCEPT ![recv_queue_last] = obuf]
        /\ recv_queue_size' = recv_queue_size + 1
        /\ recv_queue_head' = recv_queue_head
        /\ recv_queue_size \in Nat /\ recv_queue_size < MAX
        /\ recv_queue_head \in Slots /\ recv_queue_last \in Slots
        /\ recv_queue \in [Slots -> Byte]
    BY <1>4, Constants DEF Irq, ps2driver_recv, IInv, TypeOK
  <2>2. Ahead(recv_queue_head, recv_queue_last, recv_queue_size)
    BY <1>1 DEF IInv, RingInv, Locked
  <2>3. SlotAt(recv_queue_head, recv_queue_size + 1) = recv_queue_last
    BY <2>1, <2>2, Constants DEF SlotAt, Ahead, Slots
  <2>4. ASSUME NEW k \in 1..recv_queue_size
        PROVE  /\ SlotAt(recv_queue_head, k) \in Slots
               /\ SlotAt(recv_queue_head, k) # recv_queue_last
    BY <2>1, <2>2, Constants DEF SlotAt, Ahead, Slots
  <2>5. /\ Queue' \in Seq(Byte) /\ Len(Queue') = recv_queue_size + 1
        /\ \A k \in 1..(recv_queue_size + 1) :
             Queue'[k] = recv_queue'[SlotAt(recv_queue_head, k)]
    <3>1. ASSUME NEW k \in 1..(recv_queue_size + 1)
          PROVE  recv_queue'[SlotAt(recv_queue_head, k)] \in Byte
      <4>0. k \in 1..MAX
        BY <2>1, Constants
      <4>1. SlotAt(recv_queue_head, k) \in Slots
        BY <2>1, <4>0, SlotType
      <4>2. recv_queue' \in [Slots -> Byte]
        BY DEF IInv, TypeOK, Slots
      <4>3. QED
        BY <4>1, <4>2
    <3>2. Queue' = [k \in 1..(recv_queue_size + 1) |-> recv_queue'[SlotAt(recv_queue_head, k)]]
      BY <1>2, <2>1 DEF Queue, SlotAt
    <3>3. QED
      BY <2>1, <3>1, <3>2
  <2>6. ASSUME NEW k \in 1..(recv_queue_size + 1)
        PROVE  Queue'[k] = Append(Queue, obuf)[k]
    <3>1. CASE k = recv_queue_size + 1
      BY <1>1, <1>2, <2>1, <2>3, <2>5, <3>1, QueueIsSeq, AppendProperties
    <3>2. CASE k \in 1..recv_queue_size
      BY <1>1, <1>2, <2>1, <2>4, <2>5, <3>2, QueueIsSeq, AppendProperties
    <3>3. k = recv_queue_size + 1 \/ k \in 1..recv_queue_size
      BY <2>1
    <3>4. QED
      BY <3>1, <3>2, <3>3
  <2>7. Queue' = Append(Queue, obuf)
    <3>1. Append(Queue, obuf) \in Seq(Byte) /\ Len(Append(Queue, obuf)) = recv_queue_size + 1
      BY <1>1, <1>2, <2>1, QueueIsSeq, AppendProperties
    <3>2. QED
      BY <2>5, <2>6, <3>1, SeqEqual
  <2>8. Len(Queue) < MAX
    BY <1>2, <2>1, QueueIsSeq
  <2>9. QED
    BY <1>1, <2>7, <2>8 DEF Abstract!Receive
<1>5. QED
  BY <1>3, <1>4

LEMMA TakeRefines ==
  ASSUME IInv, IInv', Take
  PROVE  Abstract!Read
<1>1. /\ recv_queue_size \in Nat /\ recv_queue_size > 0 /\ recv_queue_size <= MAX
      /\ recv_queue_head \in Slots
      /\ recv_queue \in [Slots -> Byte]
  BY Constants DEF Take, Goto, IInv, TypeOK, SampleInv
<1>2. /\ pc = "take" /\ pc' = "advance" /\ data' = recv_queue[recv_queue_head]
      /\ UNCHANGED <<recv_queue, recv_queue_head, recv_queue_last, recv_queue_size, obuf>>
  BY DEF Take, Goto, ring
<1>3. Length = recv_queue_size /\ First = recv_queue_head
  BY <1>2 DEF Length, First
<1>4. Length' = recv_queue_size - 1 /\ First' = Wrap(recv_queue_head + 1)
  BY <1>2 DEF Length, First, Wrap
<1>5. /\ Queue \in Seq(Byte) /\ Len(Queue) = recv_queue_size /\ Queue # << >>
      /\ Head(Queue) = Queue[1]
      /\ Tail(Queue) \in Seq(Byte) /\ Len(Tail(Queue)) = recv_queue_size - 1
      /\ \A k \in 1..(recv_queue_size - 1) : Tail(Queue)[k] = Queue[k + 1]
      /\ \A k \in 1..recv_queue_size : Queue[k] = recv_queue[SlotAt(recv_queue_head, k)]
  <2>1. /\ Queue \in Seq(Byte) /\ Len(Queue) = recv_queue_size
        /\ \A k \in 1..recv_queue_size : Queue[k] = recv_queue[SlotAt(recv_queue_head, k)]
    BY <1>3, QueueIsSeq
  <2>2. Queue # << >>
    BY <1>1, <2>1, EmptySeq
  <2>3. QED
    BY <1>1, <2>1, <2>2, HeadTailProperties
<1>6. data' = Head(Queue)
  BY <1>1, <1>2, <1>5, Constants DEF SlotAt, Slots
<1>7. Queue' = Tail(Queue)
  <2>1. Queue' = [k \in 1..(recv_queue_size - 1) |->
                    recv_queue[SlotAt(Wrap(recv_queue_head + 1), k)]]
    BY <1>2, <1>4 DEF Queue, SlotAt
  <2>2. ASSUME NEW k \in 1..(recv_queue_size - 1)
        PROVE  /\ SlotAt(Wrap(recv_queue_head + 1), k) = SlotAt(recv_queue_head, k + 1)
               /\ SlotAt(recv_queue_head, k + 1) \in Slots
    BY <1>1, Constants DEF SlotAt, Wrap, Slots
  <2>3. /\ Queue' \in Seq(Byte) /\ Len(Queue') = recv_queue_size - 1
        /\ \A k \in 1..(recv_queue_size - 1) :
             Queue'[k] = recv_queue[SlotAt(recv_queue_head, k + 1)]
    BY <1>1, <2>1, <2>2
  <2>4. \A k \in 1..(recv_queue_size - 1) : Queue'[k] = Tail(Queue)[k]
    BY <1>1, <1>5, <2>3
  <2>5. QED
    BY <1>5, <2>3, <2>4, SeqEqual
<1>8. QED
  BY <1>2, <1>5, <1>6, <1>7 DEF Abstract!Read

\* Every other statement changes nothing the abstract queue shows.
LEMMA StatementStutters ==
  ASSUME IInv, IInv',
         \/ ClockIrq
         \/ \E timeout \in Timeouts : ReadCall(timeout)
         \/ FlushCall
         \/ Poll \/ Sample \/ Sampled \/ Retry \/ WakeUp \/ ReadFails \/ ReadLocks
         \/ Advance \/ Shrink \/ Unlock \/ FlushLast \/ FlushSize
  PROVE  UNCHANGED Abstract!vars
<1>1. obuf' = obuf /\ data' = data /\ recv_queue' = recv_queue
  BY DEF ClockIrq, ReadCall, FlushCall, Poll, Sample, Sampled, Retry, WakeUp, ReadFails,
         ReadLocks, Advance, Shrink, Unlock, FlushLast, FlushSize, ring
<1>2. Length' = Length
  BY DEF Length, ClockIrq, ReadCall, FlushCall, Poll, Sample, Sampled, Retry, WakeUp,
         ReadFails, ReadLocks, Advance, Shrink, Unlock, FlushLast, FlushSize, ring, Goto
<1>3. CASE FlushLast \/ FlushSize
  <2>1. Length = 0
    BY <1>3 DEF Length, FlushLast, FlushSize, Goto
  <2>2. Queue = << >> /\ Queue' = << >>
    BY <1>2, <2>1 DEF Queue
  <2>3. QED
    BY <1>1, <2>2 DEF Abstract!vars
<1>4. CASE ~ (FlushLast \/ FlushSize)
  <2>1. First' = First
    BY <1>4
    DEF First, ClockIrq, ReadCall, FlushCall, Poll, Sample, Sampled, Retry, WakeUp,
        ReadFails, ReadLocks, Advance, Shrink, Unlock, ring, Goto, Wrap
  <2>2. QED
    BY <1>1, <1>2, <2>1, SameQueue DEF Abstract!vars
<1>5. QED
  BY <1>3, <1>4

LEMMA FlushRefines ==
  ASSUME FlushHead
  PROVE  Abstract!Flush
<1>1. Length' = 0
  BY DEF FlushHead, Goto, Length
<1>2. Queue' = << >>
  BY <1>1 DEF Queue
<1>3. QED
  BY <1>2 DEF FlushHead, Abstract!Flush

LEMMA DeviceRefines ==
  ASSUME NEW b \in Byte, DeviceSends(b)
  PROVE  Abstract!Arrive(b)
<1>1. Queue' = Queue
  BY SameQueue DEF DeviceSends, ring, First, Length, Wrap
<1>2. QED
  BY <1>1 DEF DeviceSends, Abstract!Arrive

\* For every size of the ring and every interleaving of the task with the
\* interrupts, the receive queue implements the abstract queue.
THEOREM Refinement == Spec => ImplementsFifo
<1>1. ASSUME IInv, IInv', Next PROVE [Abstract!Next]_(Abstract!vars)
  <2>1. ASSUME NEW b \in Byte, DeviceSends(b) PROVE Abstract!Next
    BY <2>1, DeviceRefines DEF Abstract!Next
  <2>2. CASE Irq
    BY <1>1, <2>2, IrqRefines DEF Abstract!Next
  <2>3. CASE Take
    BY <1>1, <2>3, TakeRefines DEF Abstract!Next
  <2>4. CASE FlushHead
    BY <2>4, FlushRefines DEF Abstract!Next
  <2>5. QED
    BY <1>1, <2>1, <2>2, <2>3, <2>4, StatementStutters DEF Next, Call, Statement
<1>2. UNCHANGED vars => UNCHANGED Abstract!vars
  BY SameQueue DEF vars, ring, Abstract!vars, First, Length, Wrap
<1>3. IInv /\ IInv' /\ [Next]_vars => [Abstract!Next]_(Abstract!vars)
  BY <1>1, <1>2
<1>4. QED
  BY <1>3, InitRefines, Invariance, PTL DEF Spec, ImplementsFifo, Abstract!Spec

-----------------------------------------------------------------------------
(***************************************************************************)
(* The controller, module Ps2Ctrl, for any number of lost bytes and        *)
(* unasked ones: the interrupt line is only unmasked for a device that has *)
(* its driver, and keyboard_start() finds what it assumes.  The second     *)
(* part is about answers that are late: it counts the bytes a reset still  *)
(* owes.                                                                   *)
(***************************************************************************)
SetupPcs == {"disable1", "disable2", "flush"}

ConfPcs ==
  {"conf_read1", "conf_write1", "first_test", "self_test", "conf_read2",
   "conf_write2", "channels", "enable_second", "read_second", "check_second",
   "disable_second", "port1_test", "port2_test", "enable1", "enable2",
   "enable_read", "enable_write", "undo1", "undo2"}

ResetPcs == {"reset_send", "reset_again", "reset_ack", "reset_result"}

\* From the end of ps2ctrl_init() to the first command to the device.
CallPcs == {"register", "identify", "id_off"}

IdentifyPcs == {"id_off_ack", "id_cmd", "id_ack", "id_bytes", "id_type"}

StartPcs == {"start", "unmask", "started"}

OtherPcs == {"init_failed", "reset_done", "failed", "panic"}

\* All but the start of the driver.
BeforePcs ==
  SetupPcs \cup ConfPcs \cup ResetPcs \cup CallPcs \cup IdentifyPcs \cup OtherPcs

Kinds == {"mf2", "mouse", "at"}

DeviceStates == [kind : Kinds, scanning : BOOLEAN, testing : BOOLEAN, tested : BOOLEAN]

CtrlTypeInv ==
  /\ ctrl_pc \in BeforePcs \cup StartPcs
  /\ out \in Seq(Answers) /\ id \in Seq(Answers)
  /\ dev \in DeviceStates
  /\ chip \in ConfBytes /\ conf_byte \in ConfBytes
  /\ input \in {NoInput, RESET_CMD, DISABLE_SCANNING, IDENTIFY}
  /\ faults \in Nat /\ noise \in Nat

-----------------------------------------------------------------------------
(* The driver and its device *)

\* The first identification byte of a keyboard comes from a keyboard.
FromKeyboard(bytes) == \A i \in 1..Len(bytes) : bytes[i] = "AB" => dev.kind = "mf2"

DrivenInv ==
  /\ FromKeyboard(out) /\ FromKeyboard(id)
  /\ drivers \subseteq {"mf2"}
  /\ installed # "none" => installed = dev.kind
  /\ ctrl_pc \in StartPcs => installed # "none"
  /\ ctrl_pc \in {"unmask", "started"} => initialized /\ handler
  /\ ~ irq1_masked => ctrl_pc = "started"

-----------------------------------------------------------------------------
(* What the steps do to the buffer and the device *)

LEMMA TakeFirst ==
  ASSUME NEW S, NEW s \in Seq(S), s # <<>>
  PROVE  /\ Tail(s) \in Seq(S) /\ Len(Tail(s)) = Len(s) - 1 /\ Len(s) >= 1
         /\ Head(s) = s[1]
         /\ \A i \in 1..Len(Tail(s)) : Tail(s)[i] = s[i + 1]
OBVIOUS

LEMMA AddLast ==
  ASSUME NEW S, NEW s \in Seq(S), NEW e \in S
  PROVE  /\ Append(s, e) \in Seq(S) /\ Len(Append(s, e)) = Len(s) + 1
         /\ \A i \in 1..Len(s) : Append(s, e)[i] = s[i]
         /\ Append(s, e)[Len(s) + 1] = e
OBVIOUS

\* t is s followed by the answer of a device of this kind to a command.
Answered(s, kind, t) ==
  /\ t \in Seq(Answers) /\ Len(t) >= Len(s) + 1
  /\ \A i \in 1..Len(s) : t[i] = s[i]
  /\ t[Len(s) + 1] = ACK
  /\ \A i \in 1..Len(t) : i > Len(s) + 1 =>
       t[i] \in {"AB", "83", "00"} /\ (t[i] = "AB" => kind = "mf2")

\* The answer to IDENTIFY.
LEMMA AddAnswer ==
  ASSUME NEW s \in Seq(Answers), NEW kind \in Kinds
  PROVE  Answered(s, kind, Append(s, ACK) \o IdBytes[kind])
<1> USE DEF Answered
<1> DEFINE a == Append(s, ACK)
<1>1. ACK \in Answers
  BY DEF Answers
<1>2. a \in Seq(Answers) /\ Len(a) = Len(s) + 1 /\ a[Len(s) + 1] = ACK
      /\ \A i \in 1..Len(s) : a[i] = s[i]
  BY <1>1, AddLast
<1>3. CASE kind = "mf2"
  <2>1. IdBytes[kind] = <<"AB", "83">>
    BY <1>3 DEF IdBytes
  <2>2. <<"AB", "83">> \in Seq(Answers)
    BY DEF Answers
  <2> HIDE DEF a
  <2> QED
    BY <1>2, <1>3, <2>1, <2>2 DEF a
<1>4. CASE kind = "mouse"
  <2>1. IdBytes[kind] = <<"00">>
    BY <1>4 DEF IdBytes
  <2>2. <<"00">> \in Seq(Answers)
    BY DEF Answers
  <2> QED
    BY <1>2, <1>4, <2>1, <2>2
<1>5. CASE kind = "at"
  <2>1. IdBytes[kind] = <<>>
    BY <1>5 DEF IdBytes
  <2> QED
    BY <1>2, <1>5, <2>1
<1> QED
  BY <1>3, <1>4, <1>5 DEF Kinds

\* A change of the device keeps its kind.
LEMMA DevScanning ==
  ASSUME NEW d \in DeviceStates
  PROVE  LET e == [d EXCEPT !.scanning = FALSE]
         IN  /\ e \in DeviceStates /\ e.kind = d.kind /\ e.scanning = FALSE
             /\ e.testing = d.testing /\ e.tested = d.tested
BY DEF DeviceStates

LEMMA DevTested ==
  ASSUME NEW d \in DeviceStates, NEW ok \in BOOLEAN
  PROVE  LET e == [d EXCEPT !.testing = FALSE, !.tested = ok]
         IN  /\ e \in DeviceStates /\ e.kind = d.kind /\ e.scanning = d.scanning
             /\ e.testing = FALSE /\ e.tested = ok
BY DEF DeviceStates

LEMMA DevReset ==
  ASSUME NEW d \in DeviceStates
  PROVE  LET e == [d EXCEPT !.testing = TRUE, !.tested = FALSE, !.scanning = TRUE]
         IN  /\ e \in DeviceStates /\ e.kind = d.kind
             /\ e.testing = TRUE /\ e.tested = FALSE /\ e.scanning = TRUE
BY DEF DeviceStates

\* What a device that takes a byte does, without the record.
LEMMA TakesEffect ==
  ASSUME CtrlTypeInv, DeviceTakes
  PROVE  /\ input # NoInput /\ ~ chip.off1 /\ input' = NoInput
         /\ dev.testing => input = RESET_CMD
         /\ dev' \in DeviceStates /\ dev'.kind = dev.kind
         /\ input = RESET_CMD => dev'.testing /\ ~ dev'.tested
         /\ input # RESET_CMD => dev'.testing = dev.testing /\ dev'.tested = dev.tested
         /\ input = DISABLE_SCANNING => ~ dev'.scanning
         /\ input = IDENTIFY => dev'.scanning = dev.scanning
         /\ Answered(out, dev.kind, out')
         /\ input # IDENTIFY => Len(out') = Len(out) + 1
<1> USE DEF CtrlTypeInv
<1>1. /\ input # NoInput /\ ~ chip.off1 /\ input' = NoInput
      /\ dev.testing => input = RESET_CMD
  BY DEF DeviceTakes
<1>2. dev \in DeviceStates /\ dev.kind \in Kinds /\ ACK \in Answers
  BY DEF DeviceStates, Answers
<1>3. CASE input = RESET_CMD
  <2>1. dev' = [dev EXCEPT !.testing = TRUE, !.tested = FALSE, !.scanning = TRUE]
        /\ out' = Append(out, ACK)
    BY <1>3 DEF DeviceTakes, RESET_CMD, IDENTIFY
  <2>2. dev' \in DeviceStates /\ dev'.kind = dev.kind /\ dev'.testing /\ ~ dev'.tested
    BY <1>2, <2>1, DevReset
  <2> QED
    BY <1>1, <1>2, <1>3, <2>1, <2>2, AddLast DEF Answered, RESET_CMD, IDENTIFY, DISABLE_SCANNING
<1>4. CASE input = DISABLE_SCANNING
  <2>1. dev' = [dev EXCEPT !.scanning = FALSE] /\ out' = Append(out, ACK)
    BY <1>4 DEF DeviceTakes, RESET_CMD, IDENTIFY, DISABLE_SCANNING
  <2>2. dev' \in DeviceStates /\ dev'.kind = dev.kind /\ dev'.testing = dev.testing
        /\ dev'.tested = dev.tested /\ dev'.scanning = FALSE
    BY <1>2, <2>1, DevScanning
  <2> QED
    BY <1>1, <1>2, <1>4, <2>1, <2>2, AddLast DEF Answered, RESET_CMD, IDENTIFY, DISABLE_SCANNING
<1>5. CASE input = IDENTIFY
  <2>1. dev' = dev /\ out' = Append(out, ACK) \o IdBytes[dev.kind]
    BY <1>5 DEF DeviceTakes, RESET_CMD, IDENTIFY, DISABLE_SCANNING
  <2>2. Answered(out, dev.kind, out')
    BY <1>2, <2>1, AddAnswer
  <2> QED
    BY <1>1, <1>2, <1>5, <2>1, <2>2 DEF Answered, RESET_CMD, IDENTIFY, DISABLE_SCANNING
<1> QED
  BY <1>1, <1>3, <1>4, <1>5

\* The end of the self-test.
LEMMA TestedEffect ==
  ASSUME CtrlTypeInv, DeviceTested
  PROVE  /\ dev.testing
         /\ dev' \in DeviceStates /\ dev'.kind = dev.kind
         /\ dev'.scanning = dev.scanning /\ ~ dev'.testing
         /\ out' \in Seq(Answers) /\ Len(out') = Len(out) + 1
         /\ \A i \in 1..Len(out) : out'[i] = out[i]
         /\ out'[Len(out) + 1] \in {BAT_OK, BAT_BAD}
         /\ out'[Len(out) + 1] = BAT_OK => dev'.tested
<1> PICK ok \in BOOLEAN : /\ dev' = [dev EXCEPT !.testing = FALSE, !.tested = ok]
                          /\ out' = Append(out, IF ok THEN BAT_OK ELSE BAT_BAD)
  BY DEF DeviceTested
<1>1. dev \in DeviceStates /\ out \in Seq(Answers)
  BY DEF CtrlTypeInv
<1>2. dev' \in DeviceStates /\ dev'.kind = dev.kind /\ dev'.scanning = dev.scanning
      /\ dev'.testing = FALSE /\ dev'.tested = ok
  BY <1>1, DevTested
<1> DEFINE byte == IF ok THEN BAT_OK ELSE BAT_BAD
<1>3. byte \in Answers /\ byte \in {BAT_OK, BAT_BAD} /\ (byte = BAT_OK => ok)
  BY DEF Answers, BAT_OK, BAT_BAD
<1>4. out' = Append(out, byte)
  OBVIOUS
<1>5. dev.testing
  BY DEF DeviceTested
<1> HIDE DEF byte
<1> QED
  BY <1>1, <1>2, <1>3, <1>4, <1>5, AddLast

\* A byte that ps2_init() reads or that is lost.
LEMMA TakenEffect ==
  ASSUME CtrlTypeInv, out # <<>>, out' = Tail(out)
  PROVE  /\ out' \in Seq(Answers) /\ Len(out') = Len(out) - 1 /\ Len(out) >= 1
         /\ Head(out) = out[1] /\ out[1] \in Answers
         /\ \A i \in 1..Len(out') : out'[i] = out[i + 1]
<1>1. out \in Seq(Answers)
  BY DEF CtrlTypeInv
<1> QED
  BY <1>1, TakeFirst

\* A key pressed.
LEMMA NoiseEffect ==
  ASSUME CtrlTypeInv, out' = Append(out, Junk)
  PROVE  /\ out' \in Seq(Answers) /\ Len(out') = Len(out) + 1
         /\ \A i \in 1..Len(out) : out'[i] = out[i]
         /\ out'[Len(out) + 1] = Junk
<1>1. out \in Seq(Answers) /\ Junk \in Answers
  BY DEF CtrlTypeInv, Answers
<1> QED
  BY <1>1, AddLast

\* A configuration byte that is read when another byte is there already.
LEMMA ReadEffect ==
  ASSUME CtrlTypeInv, out # <<>>, out' = Append(Tail(out), Junk)
  PROVE  /\ out' \in Seq(Answers) /\ Len(out') = Len(out)
         /\ \A i \in 1..Len(out) - 1 : out'[i] = out[i + 1]
         /\ out'[Len(out)] = Junk
<1>1. out \in Seq(Answers) /\ Junk \in Answers
  BY DEF CtrlTypeInv, Answers
<1>2. Tail(out) \in Seq(Answers) /\ Len(Tail(out)) = Len(out) - 1
      /\ \A i \in 1..Len(Tail(out)) : Tail(out)[i] = out[i + 1]
  BY <1>1, TakeFirst
<1> QED
  BY <1>1, <1>2, AddLast

-----------------------------------------------------------------------------
(* Every step keeps TypeInv and DrivenInv *)

Base == CtrlTypeInv /\ DrivenInv

LEMMA PcNames ==
  /\ SetupPcs \subseteq BeforePcs /\ ConfPcs \subseteq BeforePcs
  /\ ResetPcs \subseteq BeforePcs /\ CallPcs \subseteq BeforePcs
  /\ IdentifyPcs \subseteq BeforePcs /\ OtherPcs \subseteq BeforePcs
  /\ "started" \notin BeforePcs /\ "unmask" \notin BeforePcs /\ "start" \notin BeforePcs
BY DEF BeforePcs, SetupPcs, ConfPcs, ResetPcs, CallPcs, IdentifyPcs, OtherPcs

\* A step of ps2_init() before the driver is started.
LEMMA EarlyStep ==
  ASSUME Base, ctrl_pc \in BeforePcs, ctrl_pc' \in BeforePcs,
         UNCHANGED <<installed, irq1_masked, dev>>,
         drivers' \subseteq {"mf2"}, FromKeyboard(out)', FromKeyboard(id)'
  PROVE  DrivenInv'
BY PcNames DEF Base, DrivenInv, StartPcs

LEMMA SendCmdStep ==
  ASSUME Base, NEW at \in BeforePcs, NEW effect \in ConfBytes,
         NEW next \in BeforePcs, NEW failed \in BeforePcs,
         SendCmd(at, effect, next, failed)
  PROVE  Base'
<1>1. CtrlTypeInv'
  BY DEF Base, CtrlTypeInv, SendCmd, GoTo, kernel, outside
<1>2. DrivenInv'
  BY EarlyStep DEF Base, DrivenInv, FromKeyboard, SendCmd, GoTo, kernel, outside
<1> QED
  BY <1>1, <1>2 DEF Base

LEMMA ReadConfStep ==
  ASSUME Base, NEW at \in BeforePcs, NEW next \in BeforePcs, NEW failed \in BeforePcs,
         ReadConf(at, next, failed)
  PROVE  Base'
<1>1. /\ ctrl_pc' \in BeforePcs /\ conf_byte' \in ConfBytes
      /\ UNCHANGED <<kernel, chip, outside>>
      /\ UNCHANGED out \/ (out # <<>> /\ out' = Append(Tail(out), Junk))
  BY DEF Base, CtrlTypeInv, ReadConf, GoTo
<1>2. out' \in Seq(Answers) /\ FromKeyboard(out)'
  <2>1. dev' = dev
    BY <1>1 DEF outside
  <2>2. CASE UNCHANGED out
    BY <2>1, <2>2 DEF Base, CtrlTypeInv, DrivenInv, FromKeyboard
  <2>3. CASE out # <<>> /\ out' = Append(Tail(out), Junk)
    BY <2>1, <2>3, ReadEffect DEF Base, DrivenInv, FromKeyboard, Junk, CtrlTypeInv
  <2> QED
    BY <1>1, <2>2, <2>3
<1>3. CtrlTypeInv'
  BY <1>1, <1>2 DEF Base, CtrlTypeInv, kernel, outside
<1>4. DrivenInv'
  <2>1. ctrl_pc \in BeforePcs
    BY DEF ReadConf
  <2> QED
    BY <1>1, <1>2, <2>1, EarlyStep DEF Base, DrivenInv, FromKeyboard, kernel, outside
<1> QED
  BY <1>3, <1>4 DEF Base

LEMMA WriteConfStep ==
  ASSUME Base, NEW at \in BeforePcs, NEW byte \in ConfBytes,
         NEW next \in BeforePcs, NEW failed \in BeforePcs,
         WriteConf(at, byte, next, failed)
  PROVE  Base'
<1>1. CtrlTypeInv'
  BY DEF Base, CtrlTypeInv, WriteConf, GoTo, kernel, outside
<1>2. DrivenInv'
  BY EarlyStep DEF Base, DrivenInv, FromKeyboard, WriteConf, GoTo, kernel, outside
<1> QED
  BY <1>1, <1>2 DEF Base

LEMMA SendByteStep ==
  ASSUME Base, NEW at \in BeforePcs,
         NEW byte \in {RESET_CMD, DISABLE_SCANNING, IDENTIFY},
         NEW next \in BeforePcs, NEW failed \in BeforePcs,
         SendByte(at, byte, next, failed)
  PROVE  Base'
<1>1. CtrlTypeInv'
  BY DEF Base, CtrlTypeInv, SendByte, GoTo, kernel
<1>2. DrivenInv'
  BY EarlyStep DEF Base, DrivenInv, FromKeyboard, SendByte, GoTo, kernel
<1> QED
  BY <1>1, <1>2 DEF Base

\* A step that reads a byte or times out.
LEMMA PollStep ==
  ASSUME Base, UNCHANGED <<conf_byte, chip, outside>>,
         TimedOut \/ (\E byte \in Answers : Received(byte)) \/ UNCHANGED out
  PROVE  out' \in Seq(Answers) /\ FromKeyboard(out)'
<1>1. dev' = dev
  BY DEF outside
<1>2. CASE UNCHANGED out
  BY <1>1, <1>2 DEF Base, CtrlTypeInv, DrivenInv, FromKeyboard
<1>3. CASE out # <<>> /\ out' = Tail(out)
  <2>1. /\ out' \in Seq(Answers) /\ Len(out') = Len(out) - 1 /\ Len(out) >= 1
        /\ \A i \in 1..Len(out') : out'[i] = out[i + 1]
    BY <1>3, TakenEffect DEF Base
  <2>2. out \in Seq(Answers) /\ \A i \in 1..Len(out) : out[i] = "AB" => dev.kind = "mf2"
    BY DEF Base, CtrlTypeInv, DrivenInv, FromKeyboard
  <2> QED
    BY <1>1, <2>1, <2>2 DEF FromKeyboard
<1> QED
  BY <1>2, <1>3 DEF TimedOut, Received

\* The configuration bytes that are written.
LEMMA ConfUpdates ==
  ASSUME NEW c \in ConfBytes, NEW a \in BOOLEAN, NEW b \in BOOLEAN
  PROVE  /\ [c EXCEPT !.off1 = a] \in ConfBytes
         /\ [c EXCEPT !.off2 = a] \in ConfBytes
         /\ NoIrqs(c) \in ConfBytes
         /\ [c EXCEPT !.irq1 = TRUE, !.irq2 = @ \/ ~ b] \in ConfBytes
         /\ [c EXCEPT !.irq1 = TRUE, !.trans = TRUE, !.off1 = FALSE] \in ConfBytes
BY DEF ConfBytes, NoIrqs

\* ps2ctrl_init() up to the reset of the device.
LEMMA SetupKeepsBase ==
  ASSUME Base,
         \/ disable_devices \/ flush_controller_output_buffer
         \/ set_controller_configuration_byte \/ FirstChannelTest
         \/ check_controller_selt_test \/ has_two_channels
         \/ check_interface_test \/ enable_devices
  PROVE  Base'
<1> chip \in ConfBytes /\ conf_byte \in ConfBytes
  BY DEF Base, CtrlTypeInv
<1> DEFINE Names == {"disable1", "disable2", "flush", "conf_read1", "conf_write1",
     "first_test", "self_test", "conf_read2", "conf_write2", "channels",
     "enable_second", "read_second", "check_second", "disable_second", "port1_test",
     "port2_test", "enable1", "enable2", "enable_read", "enable_write", "undo1",
     "undo2", "reset_send", "init_failed"}
<1>0. Names \subseteq BeforePcs
  BY DEF BeforePcs, SetupPcs, ConfPcs, ResetPcs, OtherPcs
<1>a. ASSUME NEW v \in BOOLEAN
      PROVE  Off2(v) \in ConfBytes
  BY <1>a, ConfUpdates DEF Off2
<1>1. CASE disable_devices
  BY <1>0, <1>1, <1>a, ConfUpdates, SendCmdStep DEF disable_devices
<1>2. CASE flush_controller_output_buffer
  <2>1. /\ ctrl_pc \in BeforePcs /\ ctrl_pc' \in BeforePcs
        /\ UNCHANGED <<conf_byte, kernel, chip, outside>>
    BY <1>0, <1>2 DEF flush_controller_output_buffer, GoTo
  <2>2. out' = out \/ (out # <<>> /\ out' = Tail(out))
    BY <1>2 DEF flush_controller_output_buffer
  <2>3. out' \in Seq(Answers) /\ FromKeyboard(out)'
    <3>1. CASE out' = out
      BY <2>1, <3>1, PollStep
    <3>2. CASE out # <<>> /\ out' = Tail(out)
      <4>1. Received(Head(out)) /\ Head(out) \in Answers
        BY <3>2, TakenEffect DEF Received, Base
      <4> QED
        BY <2>1, <4>1, PollStep
    <3> QED
      BY <2>2, <3>1, <3>2
  <2>4. CtrlTypeInv'
    BY <2>1, <2>3 DEF Base, CtrlTypeInv, kernel, outside
  <2>5. DrivenInv'
    BY <2>1, <2>3, EarlyStep DEF Base, DrivenInv, FromKeyboard, kernel, outside
  <2> QED
    BY <2>4, <2>5 DEF Base
<1>3. CASE set_controller_configuration_byte
  BY <1>0, <1>3, ConfUpdates, ReadConfStep, WriteConfStep
     DEF set_controller_configuration_byte
<1>4. ASSUME ctrl_pc \in Names, ctrl_pc' \in Names, chip' \in ConfBytes,
             UNCHANGED <<conf_byte, initialized, tries, drivers, installed, handler,
                         irq1_masked, id, out, outside>>
      PROVE  Base'
  <2>1. ctrl_pc \in BeforePcs /\ ctrl_pc' \in BeforePcs
    BY <1>0, <1>4
  <2>2. CtrlTypeInv'
    BY <1>4, <2>1 DEF Base, CtrlTypeInv, outside
  <2>3. DrivenInv'
    BY <1>4, <2>1, EarlyStep DEF Base, DrivenInv, FromKeyboard, outside
  <2> QED
    BY <2>2, <2>3 DEF Base
<1>5. CASE FirstChannelTest
  BY <1>4, <1>5 DEF FirstChannelTest, GoTo
<1>6. CASE check_controller_selt_test
  BY <1>4, <1>6, ConfUpdates DEF check_controller_selt_test, GoTo, kernel
<1>7. CASE has_two_channels
  <2>1. CASE /\ ctrl_pc = "channels"
             /\ GoTo(IF single THEN "port1_test" ELSE "enable_second")
             /\ UNCHANGED <<conf_byte, kernel, chip, out, outside>>
    BY <1>4, <2>1 DEF GoTo, kernel
  <2>2. CASE SendCmd("enable_second", Off2(FALSE), "read_second", "init_failed")
    BY <1>0, <1>a, <2>2, SendCmdStep
  <2>3. CASE ReadConf("read_second", "check_second", "init_failed")
    BY <1>0, <2>3, ReadConfStep
  <2>4. CASE /\ ctrl_pc = "check_second"
             /\ single' = conf_byte.off2
             /\ GoTo(IF conf_byte.off2 THEN "port1_test" ELSE "disable_second")
             /\ UNCHANGED <<conf_byte, initialized, tries, drivers, installed, handler,
                            irq1_masked, id, chip, out, outside>>
    BY <1>4, <2>4 DEF GoTo
  <2>5. CASE SendCmd("disable_second", Off2(TRUE), "port1_test", "init_failed")
    BY <1>0, <1>a, <2>5, SendCmdStep
  <2> QED
    BY <1>7, <2>1, <2>2, <2>3, <2>4, <2>5 DEF has_two_channels
<1>8. CASE check_interface_test
  BY <1>4, <1>8 DEF check_interface_test, GoTo, kernel
<1>9. CASE enable_devices
  <2>1. CASE SendCmd("enable1", [chip EXCEPT !.off1 = FALSE],
                     IF single THEN "enable_read" ELSE "enable2", "init_failed")
    <3>1. (IF single THEN "enable_read" ELSE "enable2") \in BeforePcs
      BY <1>0
    <3> QED
      BY <1>0, <2>1, <3>1, ConfUpdates, SendCmdStep
  <2>2. CASE SendCmd("enable2", Off2(FALSE), "enable_read", "undo1")
    BY <1>0, <1>a, <2>2, SendCmdStep
  <2>a. (IF single THEN "undo1" ELSE "undo2") \in BeforePcs
    BY <1>0
  <2>3. CASE ReadConf("enable_read", "enable_write", IF single THEN "undo1" ELSE "undo2")
    BY <1>0, <2>3, <2>a, ReadConfStep
  <2>4. CASE WriteConf("enable_write",
                       [conf_byte EXCEPT !.irq1 = TRUE, !.irq2 = @ \/ ~ single],
                       "reset_send", IF single THEN "undo1" ELSE "undo2")
    <3>1. [conf_byte EXCEPT !.irq1 = TRUE, !.irq2 = @ \/ ~ single] \in ConfBytes
      BY DEF ConfBytes
    <3> QED
      BY <1>0, <2>4, <2>a, <3>1, WriteConfStep
  <2>5. CASE SendCmd("undo2", Off2(TRUE), "undo1", "undo1")
    BY <1>0, <1>a, <2>5, SendCmdStep
  <2>6. CASE SendCmd("undo1", [chip EXCEPT !.off1 = TRUE], "init_failed", "init_failed")
    BY <1>0, <2>6, ConfUpdates, SendCmdStep
  <2> QED
    BY <1>9, <2>1, <2>2, <2>3, <2>4, <2>5, <2>6 DEF enable_devices
<1> QED
  BY <1>1, <1>2, <1>3, <1>5, <1>6, <1>7, <1>8, <1>9

\* reset_devices() and the calls after it, up to the identification.
LEMMA ResetKeepsBase ==
  ASSUME Base,
         reset_devices \/ InitEnds \/ InitFailed \/ ps2ctrl_register_driver
  PROVE  Base'
<1> DEFINE Names == {"reset_send", "reset_again", "reset_ack", "reset_result",
     "reset_done", "init_failed", "register", "identify", "panic"}
<1>0. Names \subseteq BeforePcs
  BY DEF BeforePcs, ResetPcs, CallPcs, OtherPcs
<1>1. ASSUME ctrl_pc \in Names, ctrl_pc' \in Names,
             UNCHANGED <<conf_byte, single, drivers, installed, handler, irq1_masked, id,
                         chip, outside>>,
             TimedOut \/ (\E byte \in Answers : Received(byte)) \/ UNCHANGED out
      PROVE  Base'
  <2>1. ctrl_pc \in BeforePcs /\ ctrl_pc' \in BeforePcs
    BY <1>0, <1>1
  <2>2. out' \in Seq(Answers) /\ FromKeyboard(out)'
    BY <1>1, PollStep
  <2>3. CtrlTypeInv'
    BY <1>1, <2>1, <2>2 DEF Base, CtrlTypeInv, outside
  <2>4. DrivenInv'
    BY <1>1, <2>1, <2>2, EarlyStep DEF Base, DrivenInv, FromKeyboard, outside
  <2> QED
    BY <2>3, <2>4 DEF Base
<1>2. CASE ResetSend
  <2>1. CASE SendByte("reset_send", RESET_CMD, "reset_ack", "reset_again")
    BY <1>0, <2>1, SendByteStep
  <2>2. CASE Polling("reset_again") /\ RetryReset /\ UNCHANGED out
    BY <1>1, <2>2 DEF Polling, RetryReset, GoTo
  <2> QED
    BY <1>2, <2>1, <2>2 DEF ResetSend
<1>3. CASE ResetAck
  <2>1. TimedOut \/ (\E byte \in Answers : Received(byte))
    BY <1>3 DEF ResetAck, Answers
  <2>2. ctrl_pc \in Names /\ ctrl_pc' \in Names
    BY <1>3 DEF ResetAck, Polling, RetryReset, GoTo
  <2>3. UNCHANGED <<conf_byte, single, drivers, installed, handler, irq1_masked, id,
                    chip, outside>>
    BY <1>3 DEF ResetAck, Polling, RetryReset, kernel
  <2> QED
    BY <1>1, <2>1, <2>2, <2>3
<1>4. CASE ResetResult
  <2>1. TimedOut \/ (\E byte \in Answers : Received(byte))
    BY <1>4 DEF ResetResult, Answers
  <2>2. ctrl_pc \in Names /\ ctrl_pc' \in Names
    BY <1>4 DEF ResetResult, Polling, RetryReset, GoTo
  <2>3. UNCHANGED <<conf_byte, single, drivers, installed, handler, irq1_masked, id,
                    chip, outside>>
    BY <1>4 DEF ResetResult, Polling, RetryReset, kernel
  <2> QED
    BY <1>1, <2>1, <2>2, <2>3
<1>5. CASE InitEnds
  BY <1>1, <1>5 DEF InitEnds, GoTo
<1>6. CASE InitFailed
  BY <1>1, <1>6 DEF InitFailed, GoTo, kernel
<1>7. CASE ps2ctrl_register_driver
  <2>1. ctrl_pc \in BeforePcs /\ ctrl_pc' \in BeforePcs
    BY <1>0, <1>7 DEF ps2ctrl_register_driver, GoTo
  <2>2. drivers' \subseteq {"mf2"}
    BY <1>7 DEF ps2ctrl_register_driver, Base, DrivenInv
  <2>3. UNCHANGED <<conf_byte, single, initialized, tries, installed, handler, irq1_masked,
                    id, chip, out, outside>>
    BY <1>7 DEF ps2ctrl_register_driver
  <2>4. CtrlTypeInv'
    BY <2>1, <2>3 DEF Base, CtrlTypeInv, outside
  <2>5. DrivenInv'
    BY <2>1, <2>2, <2>3, EarlyStep DEF Base, DrivenInv, FromKeyboard, outside
  <2> QED
    BY <2>4, <2>5 DEF Base
<1> QED
  BY <1>2, <1>3, <1>4, <1>5, <1>6, <1>7 DEF reset_devices

\* Only the identification bytes of a keyboard have the type of its driver.
LEMMA KeyboardType ==
  ASSUME NEW bytes, device_type_from_id_bytes(bytes) = "mf2"
  PROVE  bytes = <<"AB", "83">>
BY DEF device_type_from_id_bytes

\* ps2ctrl_identify_devices() and ps2ctrl_start_drivers().
LEMMA IdentifyKeepsBase ==
  ASSUME Base, ps2ctrl_identify_devices \/ ps2ctrl_start_drivers
  PROVE  Base'
<1> DEFINE Names == {"identify", "id_off", "id_off_ack", "id_cmd", "id_ack", "id_bytes",
                     "id_type", "failed", "panic"}
<1>0. Names \subseteq BeforePcs
  BY DEF BeforePcs, CallPcs, IdentifyPcs, OtherPcs
<1>1. CASE ctrl_pc = "identify" /\ GoTo(IF initialized THEN "id_off" ELSE "failed")
           /\ UNCHANGED <<conf_byte, kernel, chip, out, outside>>
  <2>1. ctrl_pc \in BeforePcs /\ ctrl_pc' \in BeforePcs
    BY <1>0, <1>1 DEF GoTo
  <2>2. CtrlTypeInv'
    BY <1>1, <2>1 DEF Base, CtrlTypeInv, kernel, outside
  <2>3. DrivenInv'
    BY <1>1, <2>1, EarlyStep DEF Base, DrivenInv, FromKeyboard, kernel, outside
  <2> QED
    BY <2>2, <2>3 DEF Base
<1>2. CASE SendByte("id_off", DISABLE_SCANNING, "id_off_ack", "failed")
  BY <1>0, <1>2, SendByteStep
<1>3. CASE SendByte("id_cmd", IDENTIFY, "id_ack", "failed")
  BY <1>0, <1>3, SendByteStep
<1>4. ASSUME NEW at \in BeforePcs, NEW next \in BeforePcs, WaitAck(at, next)
      PROVE  Base'
  <2>1. ctrl_pc \in BeforePcs /\ ctrl_pc' \in BeforePcs
    BY <1>0, <1>4 DEF WaitAck, Polling, GoTo
  <2>2. UNCHANGED <<conf_byte, kernel, chip, outside>>
    BY <1>4 DEF WaitAck, Polling
  <2>3. TimedOut \/ (\E byte \in Answers : Received(byte))
    BY <1>4 DEF WaitAck, Answers
  <2>4. out' \in Seq(Answers) /\ FromKeyboard(out)'
    BY <2>2, <2>3, PollStep
  <2>5. CtrlTypeInv'
    BY <2>1, <2>2, <2>4 DEF Base, CtrlTypeInv, kernel, outside
  <2>6. DrivenInv'
    BY <2>1, <2>2, <2>4, EarlyStep DEF Base, DrivenInv, FromKeyboard, kernel, outside
  <2> QED
    BY <2>5, <2>6 DEF Base
<1>5. CASE WaitAck("id_off_ack", "id_cmd") \/ WaitAck("id_ack", "id_bytes")
  BY <1>0, <1>4, <1>5
<1>6. CASE IdentifyBytes
  <2>1. ctrl_pc \in BeforePcs /\ ctrl_pc' \in BeforePcs
    BY <1>0, <1>6 DEF IdentifyBytes, Polling, GoTo
  <2>2. UNCHANGED <<conf_byte, chip, outside, single, initialized, tries, drivers,
                    installed, handler, irq1_masked>>
    BY <1>6 DEF IdentifyBytes, Polling
  <2>3. TimedOut \/ (\E byte \in Answers : Received(byte))
    BY <1>6 DEF IdentifyBytes
  <2>4. out' \in Seq(Answers) /\ FromKeyboard(out)'
    BY <2>2, <2>3, PollStep
  <2>5. id' \in Seq(Answers) /\ FromKeyboard(id)'
    <3>1. dev' = dev
      BY <2>2 DEF outside
    <3>2. id \in Seq(Answers) /\ \A i \in 1..Len(id) : id[i] = "AB" => dev.kind = "mf2"
      BY DEF Base, CtrlTypeInv, DrivenInv, FromKeyboard
    <3>3. CASE UNCHANGED id
      BY <3>1, <3>2, <3>3 DEF FromKeyboard
    <3>4. ASSUME NEW byte \in Answers, Received(byte), id' = Append(id, byte)
          PROVE  id' \in Seq(Answers) /\ FromKeyboard(id)'
      <4>1. byte = out[1] /\ Len(out) >= 1 /\ Len(out) \in Nat
        BY <3>4, TakenEffect DEF Received, Base, CtrlTypeInv
      <4>2. byte = "AB" => dev.kind = "mf2"
        <5>1. \A i \in 1..Len(out) : out[i] = "AB" => dev.kind = "mf2"
          BY DEF Base, DrivenInv, FromKeyboard
        <5>2. out \in Seq(Answers) /\ 1 \in 1..Len(out) /\ byte = out[1]
          BY <4>1 DEF Base, CtrlTypeInv
        <5> QED
          BY <5>1, <5>2
      <4>3. /\ id' \in Seq(Answers) /\ Len(id') = Len(id) + 1
            /\ \A i \in 1..Len(id) : id'[i] = id[i]
            /\ id'[Len(id) + 1] = byte
        BY <3>2, <3>4, AddLast
      <4> QED
        <5> SUFFICES ASSUME NEW i \in 1..Len(id'), id'[i] = "AB"
                     PROVE  dev.kind = "mf2"
          BY <3>1, <4>3 DEF FromKeyboard
        <5>1. CASE i = Len(id) + 1
          BY <4>2, <4>3, <5>1
        <5>2. CASE i \in 1..Len(id)
          BY <3>2, <4>3, <5>2
        <5> QED
          BY <3>2, <4>3, <5>1, <5>2
    <3> QED
      BY <1>6, <3>3, <3>4 DEF IdentifyBytes
  <2>6. CtrlTypeInv'
    BY <2>1, <2>2, <2>4, <2>5 DEF Base, CtrlTypeInv, outside
  <2>7. DrivenInv'
    BY <2>1, <2>2, <2>4, <2>5, EarlyStep DEF Base, DrivenInv, outside
  <2> QED
    BY <2>6, <2>7 DEF Base
<1>7. CASE Install
  <2>1. UNCHANGED <<conf_byte, single, initialized, tries, drivers, handler, irq1_masked, id,
                    chip, out, outside>> /\ ctrl_pc \in BeforePcs
    BY <1>0, <1>7 DEF Install
  <2>2. CASE ctrl_pc' = "failed" /\ UNCHANGED installed
    <3>1. ctrl_pc' \in BeforePcs
      BY <1>0, <2>2
    <3>2. CtrlTypeInv'
      BY <2>1, <3>1 DEF Base, CtrlTypeInv, outside
    <3>3. DrivenInv'
      BY <2>1, <2>2, <3>1, EarlyStep DEF Base, DrivenInv, FromKeyboard, outside
    <3> QED
      BY <3>2, <3>3 DEF Base
  <2>3. CASE /\ device_type_from_id_bytes(id) \in drivers
             /\ installed' = device_type_from_id_bytes(id)
             /\ ctrl_pc' \in {"start", "panic"}
    <3>1. installed' = "mf2" /\ device_type_from_id_bytes(id) = "mf2"
      BY <2>3 DEF Base, DrivenInv
    <3>2. id = <<"AB", "83">>
      BY <3>1, KeyboardType
    <3>3. dev.kind = "mf2"
      BY <3>2 DEF Base, DrivenInv, FromKeyboard
    <3>4. ctrl_pc' \in BeforePcs \cup StartPcs
      BY <1>0, <2>3 DEF StartPcs
    <3>5. CtrlTypeInv'
      BY <2>1, <3>4 DEF Base, CtrlTypeInv, outside
    <3>6. DrivenInv'
      BY <2>1, <2>3, <3>1, <3>3, PcNames DEF Base, DrivenInv, FromKeyboard, outside
    <3> QED
      BY <3>5, <3>6 DEF Base
  <2> QED
    BY <1>7, <2>2, <2>3 DEF Install, GoTo
<1>8. CASE /\ ctrl_pc = "start"
           /\ handler' = initialized
           /\ GoTo(IF initialized THEN "unmask" ELSE "failed")
           /\ UNCHANGED <<conf_byte, single, initialized, tries, drivers, installed,
                          irq1_masked, id, chip, out, outside>>
  <2>1. ctrl_pc' \in BeforePcs \cup StartPcs /\ (ctrl_pc' \in {"unmask", "started"} => initialized)
        /\ (ctrl_pc' \in StartPcs => ctrl_pc' = "unmask")
    BY <1>0, <1>8, PcNames DEF StartPcs, GoTo
  <2>2. CtrlTypeInv'
    BY <1>8, <2>1 DEF Base, CtrlTypeInv, outside
  <2>3. DrivenInv'
    BY <1>8, <2>1 DEF Base, DrivenInv, FromKeyboard, outside, StartPcs
  <2> QED
    BY <2>2, <2>3 DEF Base
<1>9. CASE /\ ctrl_pc = "unmask"
           /\ irq1_masked' = FALSE
           /\ GoTo("started")
           /\ UNCHANGED <<conf_byte, single, initialized, tries, drivers, installed,
                          handler, id, chip, out, outside>>
  <2>1. CtrlTypeInv'
    BY <1>9 DEF Base, CtrlTypeInv, outside, StartPcs, GoTo
  <2>2. DrivenInv'
    BY <1>9 DEF Base, DrivenInv, FromKeyboard, outside, StartPcs, GoTo
  <2> QED
    BY <2>1, <2>2 DEF Base
<1> QED
  BY <1>1, <1>2, <1>3, <1>5, <1>6, <1>7, <1>8, <1>9
     DEF ps2ctrl_identify_devices, ps2ctrl_start_drivers

\* The device.
LEMMA DeviceKeepsBase ==
  ASSUME Base, Device
  PROVE  Base'
<1> USE DEF Base
<1>0. out \in Seq(Answers) /\ \A i \in 1..Len(out) : out[i] = "AB" => dev.kind = "mf2"
  BY DEF CtrlTypeInv, DrivenInv, FromKeyboard
<1>1. ASSUME UNCHANGED <<ctrl_pc, conf_byte, kernel, chip, dual>>,
             dev' \in DeviceStates, dev'.kind = dev.kind,
             input' \in {NoInput, input}, faults' \in Nat, noise' \in Nat,
             out' \in Seq(Answers), FromKeyboard(out)'
      PROVE  Base'
  <2>1. CtrlTypeInv'
    BY <1>1 DEF CtrlTypeInv, kernel
  <2>2. DrivenInv'
    BY <1>1 DEF DrivenInv, FromKeyboard, kernel
  <2> QED
    BY <2>1, <2>2
<1>2. CASE DeviceTakes
  <2>1. /\ UNCHANGED <<ctrl_pc, conf_byte, kernel, chip, dual, faults, noise>>
        /\ input' = NoInput /\ dev' \in DeviceStates /\ dev'.kind = dev.kind
    BY <1>2, TakesEffect DEF DeviceTakes
  <2>2. Answered(out, dev.kind, out')
    BY <1>2, TakesEffect
  <2>3. FromKeyboard(out)'
    <3> SUFFICES ASSUME NEW i \in 1..Len(out'), out'[i] = "AB"
                 PROVE  dev.kind = "mf2"
      BY <2>1 DEF FromKeyboard
    <3>1. CASE i \in 1..Len(out)
      BY <1>0, <2>2, <3>1 DEF Answered
    <3>2. CASE i = Len(out) + 1
      BY <1>0, <2>2, <3>2 DEF Answered, ACK
    <3>3. CASE i > Len(out) + 1
      BY <1>0, <2>2, <3>3 DEF Answered
    <3> QED
      BY <1>0, <2>2, <3>1, <3>2, <3>3 DEF Answered
  <2> QED
    BY <1>1, <2>1, <2>2, <2>3 DEF CtrlTypeInv, Answered
<1>3. CASE DeviceTested
  <2>1. /\ UNCHANGED <<ctrl_pc, conf_byte, kernel, chip, dual, input, faults, noise>>
        /\ dev' \in DeviceStates /\ dev'.kind = dev.kind
    BY <1>3, TestedEffect DEF DeviceTested
  <2>2. /\ out' \in Seq(Answers) /\ Len(out') = Len(out) + 1
        /\ \A i \in 1..Len(out) : out'[i] = out[i]
        /\ out'[Len(out) + 1] # "AB"
    BY <1>3, TestedEffect DEF BAT_OK, BAT_BAD
  <2>3. FromKeyboard(out)'
    BY <1>0, <2>1, <2>2 DEF FromKeyboard
  <2> QED
    BY <1>1, <2>1, <2>2, <2>3 DEF CtrlTypeInv
<1>4. CASE LoseByte
  BY <1>0, <1>1, <1>4 DEF LoseByte, CtrlTypeInv, FromKeyboard
<1>5. CASE LoseAnswer
  <2>1. /\ UNCHANGED <<ctrl_pc, conf_byte, kernel, chip, dual, dev, input, noise>>
        /\ out # <<>> /\ out' = Tail(out) /\ faults' \in Nat
    BY <1>5 DEF LoseAnswer, CtrlTypeInv
  <2>2. /\ out' \in Seq(Answers) /\ Len(out') = Len(out) - 1 /\ Len(out) >= 1
        /\ \A i \in 1..Len(out') : out'[i] = out[i + 1]
    BY <2>1, TakenEffect
  <2>3. FromKeyboard(out)'
    BY <1>0, <2>1, <2>2 DEF FromKeyboard
  <2> QED
    BY <1>1, <2>1, <2>2, <2>3 DEF CtrlTypeInv
<1>6. CASE DeviceNoise
  <2>1. /\ UNCHANGED <<ctrl_pc, conf_byte, kernel, chip, dual, dev, input, faults>>
        /\ out' = Append(out, Junk) /\ noise' \in Nat
    BY <1>6 DEF DeviceNoise, CtrlTypeInv
  <2>2. /\ out' \in Seq(Answers) /\ Len(out') = Len(out) + 1
        /\ \A i \in 1..Len(out) : out'[i] = out[i]
        /\ out'[Len(out) + 1] = Junk
    BY <2>1, NoiseEffect
  <2>3. FromKeyboard(out)'
    BY <1>0, <2>1, <2>2 DEF FromKeyboard, Junk
  <2> QED
    BY <1>1, <2>1, <2>2, <2>3 DEF CtrlTypeInv
<1> QED
  BY <1>2, <1>3, <1>4, <1>5, <1>6 DEF Device

LEMMA BaseStep == Base /\ [CtrlNext]_ctrl_vars => Base'
<1> SUFFICES ASSUME Base, [CtrlNext]_ctrl_vars PROVE Base'
  OBVIOUS
<1>1. CASE UNCHANGED ctrl_vars
  BY <1>1 DEF ctrl_vars, kernel, outside, Base, CtrlTypeInv, DrivenInv, FromKeyboard
<1>2. CASE ps2_init
  BY <1>2, SetupKeepsBase, ResetKeepsBase, IdentifyKeepsBase DEF ps2_init
<1>3. CASE Device
  BY <1>3, DeviceKeepsBase
<1> QED
  BY <1>1, <1>2, <1>3 DEF CtrlNext

LEMMA BaseInit == CtrlInit => Base
<1> SUFFICES ASSUME CtrlInit PROVE Base
  OBVIOUS
<1>1. chip \in ConfBytes /\ conf_byte \in ConfBytes /\ dev \in DeviceStates
  BY DEF CtrlInit, ConfBytes, DeviceStates, Kinds
<1>2. out \in Seq(Answers) /\ FromKeyboard(out) /\ id \in Seq(Answers) /\ FromKeyboard(id)
  <2>1. out \in Seq(Answers) /\ id \in Seq(Answers)
    <3>1. Junk \in Answers /\ <<>> \in Seq(Answers)
      BY DEF Answers
    <3>2. <<Junk>> \in Seq(Answers)
      BY <3>1
    <3> QED
      BY <3>1, <3>2 DEF CtrlInit
  <2>2. \A i \in 1..Len(out) : out[i] # "AB"
    BY DEF CtrlInit, Junk
  <2>3. Len(id) = 0
    BY DEF CtrlInit
  <2> QED
    BY <2>1, <2>2, <2>3 DEF FromKeyboard
<1>3. ctrl_pc \in BeforePcs
  BY DEF CtrlInit, BeforePcs, SetupPcs
<1>4. CtrlTypeInv
  BY <1>1, <1>2, <1>3 DEF CtrlInit, CtrlTypeInv
<1>5. DrivenInv
  BY <1>2, <1>3, PcNames DEF CtrlInit, DrivenInv, StartPcs
<1> QED
  BY <1>4, <1>5 DEF Base

\* The shape of the state, and the driver that is installed, at every step.
THEOREM BaseInvariance == CtrlSpec => []Base
<1> QED
  BY BaseInit, BaseStep, PTL DEF CtrlSpec

\* When the interrupt line is unmasked the handler is set, the controller is
\* initialised and the driver is the one for the device, for any number of
\* lost bytes and unasked ones (ps2ctrl_start_drivers()).
THEOREM Driven == CtrlSpec => []UnmaskedMeansDriven
<1>1. Base => UnmaskedMeansDriven
  BY DEF Base, DrivenInv, UnmaskedMeansDriven, StartPcs
<1> QED
  BY <1>1, BaseInvariance, PTL

-----------------------------------------------------------------------------
(* What keyboard_start() finds *)

\* The bytes the device has sent or will send without being asked again.
Owed == Len(out) + (IF dev.testing THEN 1 ELSE 0)

\* How far that may fall short of what it should be: by the byte that was
\* lost, or by the one a key stood in for.
Slack == IF noise = 0 THEN faults ELSE 1

\* The faults under which StartAssumptionsHold says something.
Regime == faults = 0 \/ (noise = 0 /\ faults <= 1)

Without(byte) == \A i \in 1..Len(out) : out[i] # byte

NoneBefore(byte, n) == \A i \in 1..Len(out) : out[i] = byte => i >= n

\* The device has passed its self-test and nothing is about to undo that.
Good == dev.tested /\ ~ dev.testing /\ input # RESET_CMD

\* ... and it does not scan, unless a key was pressed meanwhile.
Quiet == Good /\ (noise = 0 => ~ dev.scanning)

\* What ps2_init() is at and which byte may be on its way to the device.
OrderInv ==
  /\ ctrl_pc \in IdentifyPcs \cup StartPcs \cup {"id_off"} => initialized
  /\ initialized =>
       ctrl_pc \in CallPcs \cup IdentifyPcs \cup StartPcs \cup {"failed", "panic"}
  /\ ctrl_pc \in SetupPcs \cup ConfPcs => input = NoInput /\ ~ dev.testing
  /\ ctrl_pc \in ResetPcs \cup CallPcs \cup {"reset_done", "init_failed"} =>
       input \in {NoInput, RESET_CMD}
  /\ ctrl_pc \in {"id_off_ack", "id_cmd"} => input \in {NoInput, DISABLE_SCANNING}
  /\ ctrl_pc \in {"id_ack", "id_bytes", "id_type"} \cup StartPcs =>
       input \in {NoInput, IDENTIFY}
  /\ ctrl_pc \notin {"id_bytes", "id_type", "failed", "panic"} \cup StartPcs => id = <<>>
  /\ ctrl_pc = "id_bytes" => Len(id) <= 1

\* What can be in the output buffer.
ContentInv ==
  /\ ctrl_pc \in SetupPcs \cup ConfPcs => \A i \in 1..Len(out) : out[i] = Junk
  /\ ctrl_pc \in ResetPcs \cup CallPcs \cup {"reset_done", "init_failed", "id_off_ack",
                                        "id_cmd"} =>
       \A i \in 1..Len(out) : out[i] \in {ACK, BAT_OK, BAT_BAD, Junk}

\* The steps between the second write of the configuration byte, which turns
\* the translation off, and the third.
NoTransPcs ==
  {"channels", "enable_second", "read_second", "check_second", "disable_second",
   "port1_test", "port2_test", "enable1", "enable2", "enable_read"}

\* Without keys the chip reads and writes its own bytes.
SetupInv ==
  noise = 0 =>
    /\ ctrl_pc \in SetupPcs => Len(out) <= 1
    /\ ctrl_pc \in ConfPcs => out = <<>>
    /\ ctrl_pc \in NoTransPcs => ~ chip.trans
    /\ ctrl_pc \in {"enable2", "enable_read"} => ~ chip.off1
    /\ ctrl_pc = "enable_write" => ~ conf_byte.trans /\ ~ conf_byte.off1

OnInv ==
  noise = 0 /\ (ctrl_pc \in ResetPcs \cup {"reset_done"} \/ initialized) =>
    ~ chip.off1 /\ chip.irq1 /\ ~ chip.trans

\* A result of the self-test is that of the last reset, or the answers to a
\* later reset are still to come.
ResetInv ==
  /\ ctrl_pc \in ResetPcs =>
       /\ noise = 0 => Without(Junk)
       /\ \A i \in 1..Len(out) : out[i] = BAT_OK =>
            \/ i = Len(out) /\ dev.tested /\ ~ dev.testing
            \/ Owed - i >= 2 - Slack
  /\ ctrl_pc = "reset_ack" /\ faults = 0 => input = RESET_CMD \/ Owed >= 2

\* After the reset the device is tested; or it is about to be reset again; or
\* it still owes the two answers to the last reset.
DoneInv ==
  ctrl_pc = "reset_done" \/ (ctrl_pc \in CallPcs /\ initialized) =>
    \/ Good /\ (noise = 0 => out = <<>>)
    \/ input = RESET_CMD /\ (noise > 0 \/ (dev.tested /\ ~ dev.testing /\ out = <<>>))
    \/ Owed >= 2 - Slack

\* The identification: the answers to the last reset, if they are owed, come
\* before the two ACKs and the bytes of the device, which are then not found
\* where they are looked for.
OffInv ==
  ctrl_pc = "id_off_ack" =>
    \/ Good /\ (noise = 0 => /\ input = DISABLE_SCANNING => out = <<>>
                             /\ input = NoInput => out = <<>> \/ ~ dev.scanning)
    \/ /\ input = DISABLE_SCANNING => Owed >= 2 - Slack
       /\ input = NoInput => Owed >= 3 - Slack

CmdInv ==
  ctrl_pc = "id_cmd" =>
    \/ Quiet
    \/ /\ input = DISABLE_SCANNING => Owed >= 1 - Slack
       /\ input = NoInput => Owed >= 2 - Slack

AckInv ==
  ctrl_pc = "id_ack" =>
    \/ Quiet
    \/ /\ input = IDENTIFY => Owed >= 2 - Slack /\ Without("AB")
       /\ input = NoInput => NoneBefore("AB", 4 - Slack)

BytesInv ==
  ctrl_pc = "id_bytes" =>
    \/ Quiet
    \/ /\ id = <<>> /\ input = IDENTIFY => Owed >= 1 - Slack /\ Without("AB")
       /\ id = <<>> /\ input = NoInput => NoneBefore("AB", 3 - Slack)
       /\ id # <<>> => id[1] # "AB"

StartInv ==
  /\ ctrl_pc = "id_type" => Quiet \/ id = <<>> \/ id[1] # "AB"
  /\ ctrl_pc \in StartPcs => Quiet

LateInv ==
  /\ SetupInv /\ OnInv /\ ResetInv /\ DoneInv
  /\ OffInv /\ CmdInv /\ AckInv /\ BytesInv /\ StartInv

CtrlInv == Base /\ OrderInv /\ ContentInv /\ (Regime => LateInv)

-----------------------------------------------------------------------------
(* The device keeps IInv *)

LEMMA Counts ==
  ASSUME CtrlTypeInv
  PROVE  /\ out \in Seq(Answers) /\ Len(out) \in Nat /\ (Len(out) = 0 <=> out = <<>>)
         /\ Owed \in Nat /\ Slack \in Nat /\ (Regime => Slack \in {0, 1})
         /\ dev.testing \in BOOLEAN /\ dev.tested \in BOOLEAN /\ dev.scanning \in BOOLEAN
         /\ dev.testing => Owed = Len(out) + 1
         /\ ~ dev.testing => Owed = Len(out)
<1>1. out \in Seq(Answers) /\ Len(out) \in Nat /\ (Len(out) = 0 <=> out = <<>>)
  BY DEF CtrlTypeInv
<1>2. dev.testing \in BOOLEAN /\ dev.tested \in BOOLEAN /\ dev.scanning \in BOOLEAN
  BY DEF CtrlTypeInv, DeviceStates
<1>3. Slack \in Nat /\ (Regime => Slack \in {0, 1})
  BY DEF CtrlTypeInv, Slack, Regime
<1> QED
  BY <1>1, <1>2, <1>3 DEF Owed

LEMMA CountsNext == CtrlTypeInv' =>
  /\ out' \in Seq(Answers) /\ Len(out') \in Nat /\ (Len(out') = 0 <=> out' = <<>>)
  /\ Owed' \in Nat /\ Slack' \in Nat /\ (Regime' => Slack' \in {0, 1})
  /\ dev'.testing \in BOOLEAN /\ dev'.tested \in BOOLEAN /\ dev'.scanning \in BOOLEAN
  /\ dev'.testing => Owed' = Len(out') + 1
  /\ ~ dev'.testing => Owed' = Len(out')
<1> SUFFICES ASSUME CtrlTypeInv'
             PROVE  /\ out' \in Seq(Answers) /\ Len(out') \in Nat
                    /\ Len(out') = 0 <=> out' = <<>>
                    /\ Owed' \in Nat /\ Slack' \in Nat /\ (Regime' => Slack' \in {0, 1})
                    /\ dev'.testing \in BOOLEAN /\ dev'.tested \in BOOLEAN
                    /\ dev'.scanning \in BOOLEAN
                    /\ dev'.testing => Owed' = Len(out') + 1
                    /\ ~ dev'.testing => Owed' = Len(out')
  OBVIOUS
<1>1. out' \in Seq(Answers) /\ Len(out') \in Nat /\ (Len(out') = 0 <=> out' = <<>>)
  BY DEF CtrlTypeInv
<1>2. dev'.testing \in BOOLEAN /\ dev'.tested \in BOOLEAN /\ dev'.scanning \in BOOLEAN
  BY DEF CtrlTypeInv, DeviceStates
<1>3. Slack' \in Nat /\ (Regime' => Slack' \in {0, 1})
  BY DEF CtrlTypeInv, Slack, Regime
<1> QED
  BY <1>1, <1>2, <1>3 DEF Owed

LEMMA TakesKeeps ==
  ASSUME CtrlInv, DeviceTakes
  PROVE  CtrlInv'
<1>0. Base /\ CtrlTypeInv /\ Base' /\ CtrlTypeInv'
  BY DeviceKeepsBase DEF CtrlInv, Base, Device
<1>1. /\ UNCHANGED <<ctrl_pc, conf_byte, kernel, chip, dual, faults, noise>>
      /\ input # NoInput /\ ~ chip.off1 /\ input' = NoInput
      /\ dev.testing => input = RESET_CMD
      /\ input = RESET_CMD => dev'.testing /\ ~ dev'.tested
      /\ input # RESET_CMD => dev'.testing = dev.testing /\ dev'.tested = dev.tested
      /\ input = DISABLE_SCANNING => ~ dev'.scanning
      /\ input = IDENTIFY => dev'.scanning = dev.scanning
  BY <1>0, TakesEffect DEF DeviceTakes
<1>2. /\ UNCHANGED <<ctrl_pc, conf_byte, chip, faults, noise, initialized, id>>
      /\ Slack' = Slack /\ Regime' = Regime
  BY <1>1 DEF kernel, Slack, Regime
<1>3. /\ Len(out') >= Len(out) + 1
      /\ \A i \in 1..Len(out) : out'[i] = out[i]
      /\ out'[Len(out) + 1] = ACK
      /\ \A i \in 1..Len(out') : i > Len(out) + 1 => out'[i] \in {"AB", "83", "00"}
      /\ input # IDENTIFY => Len(out') = Len(out) + 1
  BY <1>0, TakesEffect DEF Answered
<1>4. /\ Owed' >= Owed + 1
      /\ input = RESET_CMD => Owed' = Len(out) + 2
  BY <1>0, <1>1, <1>3, Counts, CountsNext DEF RESET_CMD, IDENTIFY
<1>5. OrderInv'
  BY <1>1, <1>2 DEF CtrlInv, OrderInv
<1>6. ContentInv'
  <2>1. ctrl_pc \notin SetupPcs \cup ConfPcs
    BY <1>1 DEF CtrlInv, OrderInv
  <2>2. ASSUME ctrl_pc \in ResetPcs \cup CallPcs \cup {"reset_done", "init_failed",
                                                  "id_off_ack", "id_cmd"}
        PROVE  \A i \in 1..Len(out') : out'[i] \in {ACK, BAT_OK, BAT_BAD, Junk}
    <3>1. input # IDENTIFY
      BY <2>2 DEF CtrlInv, OrderInv, RESET_CMD, IDENTIFY, NoInput, DISABLE_SCANNING
    <3>2. \A i \in 1..Len(out) : out[i] \in {ACK, BAT_OK, BAT_BAD, Junk}
      BY <2>2 DEF CtrlInv, ContentInv
    <3> QED
      BY <1>0, <1>3, <3>1, <3>2, Counts
  <2> QED
    BY <1>2, <2>1, <2>2 DEF ContentInv
<1>7. ASSUME Regime'
      PROVE  LateInv'
  <2>0. LateInv
    BY <1>2, <1>7 DEF CtrlInv
  <2>1. /\ Slack \in {0, 1} /\ out \in Seq(Answers) /\ Len(out) \in Nat /\ Owed \in Nat
        /\ Owed' \in Nat /\ Len(out') \in Nat
        /\ (~ dev.testing => Owed = Len(out)) /\ (Len(out) = 0 <=> out = <<>>)
        /\ Slack \in Nat /\ Slack' = Slack
    BY <1>0, <1>2, <1>7, Counts, CountsNext
  <2>b. /\ dev.testing \in BOOLEAN /\ dev.tested \in BOOLEAN /\ dev.scanning \in BOOLEAN
        /\ dev'.testing \in BOOLEAN /\ dev'.tested \in BOOLEAN /\ dev'.scanning \in BOOLEAN
    BY <1>0, Counts, CountsNext
  <2>a. input \in {RESET_CMD, DISABLE_SCANNING, IDENTIFY} /\ RESET_CMD # DISABLE_SCANNING
        /\ RESET_CMD # IDENTIFY /\ IDENTIFY # DISABLE_SCANNING /\ input # NoInput
        /\ NoInput # RESET_CMD /\ NoInput # DISABLE_SCANNING /\ NoInput # IDENTIFY
    BY <1>0, <1>1 DEF CtrlTypeInv, RESET_CMD, DISABLE_SCANNING, IDENTIFY, NoInput
  <2>2. SetupInv'
    <3>1. ctrl_pc \notin SetupPcs \cup ConfPcs
      BY <1>1 DEF CtrlInv, OrderInv
    <3> QED
      BY <1>2, <3>1 DEF SetupInv, ConfPcs, NoTransPcs
  <2>3. OnInv'
    BY <1>2, <2>0 DEF LateInv, OnInv
  <2>4. ResetInv'
    <3> SUFFICES ASSUME ctrl_pc \in ResetPcs PROVE ResetInv'
      BY <1>2 DEF ResetInv, ResetPcs
    <3>1. input = RESET_CMD /\ Owed' = Len(out) + 2 /\ Len(out') = Len(out) + 1
      BY <1>1, <1>3, <1>4, <2>a DEF CtrlInv, OrderInv
    <3>2. noise = 0 => Without(Junk)'
      BY <1>3, <2>0, <2>1, <3>1 DEF LateInv, ResetInv, Without, ACK, Junk
    <3>3. ASSUME NEW i \in 1..Len(out'), out'[i] = BAT_OK
          PROVE  Owed' - i >= 2 - Slack
      <4>1. i \in 1..Len(out) /\ out[i] = BAT_OK
        BY <1>3, <2>1, <3>1, <3>3 DEF ACK, BAT_OK
      <4> QED
        BY <2>1, <3>1, <4>1
    <3> QED
      BY <1>2, <2>1, <3>1, <3>2, <3>3 DEF ResetInv
  <2>5. DoneInv'
    <3> SUFFICES ASSUME ctrl_pc \in CallPcs \cup {"reset_done"} PROVE Owed' >= 2 - Slack
      BY <1>2 DEF DoneInv
    <3>1. input = RESET_CMD
      BY <1>1 DEF CtrlInv, OrderInv
    <3> QED
      BY <1>4, <2>1, <3>1
  <2>6. OffInv'
    <3> SUFFICES ASSUME ctrl_pc = "id_off_ack" PROVE OffInv'
      BY <1>2 DEF OffInv
    <3>1. input = DISABLE_SCANNING
      BY <1>1 DEF CtrlInv, OrderInv
    <3>2. CASE Good
      <4>1. Good' /\ ~ dev'.scanning
        BY <1>1, <2>a, <2>b, <3>1, <3>2 DEF Good
      <4> QED
        BY <1>1, <2>a, <4>1 DEF OffInv
    <3>3. CASE Owed >= 2 - Slack
      <4>1. Owed' >= 3 - Slack'
        BY <1>4, <2>1, <3>3
      <4> QED
        BY <1>1, <2>a, <4>1 DEF OffInv
    <3> QED
      BY <2>0, <3>1, <3>2, <3>3 DEF LateInv, OffInv
  <2>7. CmdInv'
    <3> SUFFICES ASSUME ctrl_pc = "id_cmd" PROVE CmdInv'
      BY <1>2 DEF CmdInv
    <3>1. input = DISABLE_SCANNING
      BY <1>1 DEF CtrlInv, OrderInv
    <3>2. CASE Quiet
      <4>1. Quiet'
        BY <1>1, <2>a, <2>b, <3>1, <3>2 DEF Good, Quiet
      <4> QED
        BY <4>1 DEF CmdInv
    <3>3. CASE Owed >= 1 - Slack
      <4>1. Owed' >= 2 - Slack'
        BY <1>4, <2>1, <3>3
      <4> QED
        BY <1>1, <2>a, <4>1 DEF CmdInv
    <3> QED
      BY <2>0, <3>1, <3>2, <3>3 DEF LateInv, CmdInv
  <2>8. ASSUME input = IDENTIFY, Quiet
        PROVE  Quiet'
    BY <1>1, <1>2, <2>8, <2>a DEF Quiet, Good
  <2>9. ASSUME input = IDENTIFY, ~ dev.testing, Without("AB"), NEW n \in Nat, Owed >= n
        PROVE  \A i \in 1..Len(out') : out'[i] = "AB" => i >= n + 2
    <3> SUFFICES ASSUME NEW i \in 1..Len(out'), out'[i] = "AB"
                 PROVE  i >= n + 2
      OBVIOUS
    <3>1. i > Len(out) + 1
      BY <1>3, <2>1, <2>9 DEF Without, ACK
    <3> QED
      BY <2>1, <2>9, <3>1
  <2>10. AckInv'
    <3> SUFFICES ASSUME ctrl_pc = "id_ack" PROVE AckInv'
      BY <1>2 DEF AckInv
    <3>1. input = IDENTIFY /\ ~ dev.testing
      BY <1>1, <2>a DEF CtrlInv, OrderInv
    <3>2. Quiet \/ (Owed >= 2 - Slack /\ Without("AB"))
      BY <2>0, <3>1 DEF LateInv, AckInv
    <3>a. 2 - Slack \in Nat /\ (2 - Slack) + 2 = 4 - Slack
      BY <2>1
    <3>3. Quiet' \/ \A i \in 1..Len(out') : out'[i] = "AB" => i >= (2 - Slack) + 2
      BY <2>8, <2>9, <3>1, <3>2, <3>a
    <3>4. Quiet' \/ NoneBefore("AB", 4 - Slack)'
      BY <2>1, <3>3, <3>a DEF NoneBefore
    <3> QED
      BY <1>1, <1>2, <2>a, <3>4 DEF AckInv
  <2>11. BytesInv'
    <3> SUFFICES ASSUME ctrl_pc = "id_bytes" PROVE BytesInv'
      BY <1>2 DEF BytesInv
    <3>1. input = IDENTIFY /\ ~ dev.testing
      BY <1>1, <2>a DEF CtrlInv, OrderInv
    <3>2. Quiet \/ (/\ id = <<>> => Owed >= 1 - Slack /\ Without("AB")
                    /\ id # <<>> => id[1] # "AB")
      BY <2>0, <3>1 DEF LateInv, BytesInv
    <3>a. 1 - Slack \in Nat /\ (1 - Slack) + 2 = 3 - Slack
      BY <2>1
    <3>3. \/ Quiet'
          \/ /\ id = <<>> => \A i \in 1..Len(out') : out'[i] = "AB" => i >= (1 - Slack) + 2
             /\ id # <<>> => id[1] # "AB"
      BY <2>8, <2>9, <3>1, <3>2, <3>a
    <3>4. \/ Quiet'
          \/ /\ id = <<>> => NoneBefore("AB", 3 - Slack)'
             /\ id # <<>> => id[1] # "AB"
      BY <2>1, <3>3, <3>a DEF NoneBefore
    <3> QED
      BY <1>1, <1>2, <2>a, <3>4 DEF BytesInv
  <2>12. StartInv'
    <3>1. ctrl_pc \in StartPcs \cup {"id_type"} => input = IDENTIFY
      BY <1>1 DEF CtrlInv, OrderInv
    <3> QED
      BY <1>2, <2>0, <2>8, <3>1 DEF LateInv, StartInv
  <2> QED
    BY <2>2, <2>3, <2>4, <2>5, <2>6, <2>7, <2>10, <2>11, <2>12 DEF LateInv
<1> QED
  BY <1>0, <1>5, <1>6, <1>7 DEF CtrlInv

LEMMA TestedKeeps ==
  ASSUME CtrlInv, DeviceTested
  PROVE  CtrlInv'
<1>0. Base /\ CtrlTypeInv /\ Base' /\ CtrlTypeInv'
  BY DeviceKeepsBase DEF CtrlInv, Base, Device
<1>1. /\ dev.testing /\ dev'.scanning = dev.scanning /\ ~ dev'.testing
      /\ out'[Len(out) + 1] = BAT_OK => dev'.tested
  BY <1>0, TestedEffect
<1>2. /\ UNCHANGED <<ctrl_pc, conf_byte, chip, input, faults, noise, initialized, id>>
      /\ Slack' = Slack /\ Regime' = Regime
  BY DEF DeviceTested, kernel, Slack, Regime
<1>3. /\ Len(out') = Len(out) + 1
      /\ \A i \in 1..Len(out) : out'[i] = out[i]
      /\ out'[Len(out) + 1] \in {BAT_OK, BAT_BAD}
  BY <1>0, TestedEffect
<1>4. Owed' = Owed /\ Owed \in Nat /\ Len(out) \in Nat /\ Owed = Len(out) + 1
  BY <1>0, <1>1, <1>3, Counts, CountsNext
<1>5. OrderInv'
  <2>1. ctrl_pc \notin SetupPcs \cup ConfPcs
    BY <1>1 DEF CtrlInv, OrderInv
  <2> QED
    BY <1>2, <2>1 DEF CtrlInv, OrderInv
<1>6. ContentInv'
  <2>1. ctrl_pc \notin SetupPcs \cup ConfPcs
    BY <1>1 DEF CtrlInv, OrderInv
  <2>2. ASSUME ctrl_pc \in ResetPcs \cup CallPcs \cup {"reset_done", "init_failed",
                                                  "id_off_ack", "id_cmd"}
        PROVE  \A i \in 1..Len(out') : out'[i] \in {ACK, BAT_OK, BAT_BAD, Junk}
    <3>1. \A i \in 1..Len(out) : out[i] \in {ACK, BAT_OK, BAT_BAD, Junk}
      BY <2>2 DEF CtrlInv, ContentInv
    <3> QED
      BY <1>3, <1>4, <3>1
  <2> QED
    BY <1>2, <2>1, <2>2 DEF ContentInv
<1>7. ASSUME Regime'
      PROVE  LateInv'
  <2>0. LateInv /\ ~ Good /\ ~ Quiet
    BY <1>1, <1>2, <1>7 DEF CtrlInv, Good, Quiet
  <2>1. Slack \in {0, 1} /\ Slack \in Nat /\ Slack' = Slack
    BY <1>0, <1>2, <1>7, Counts
  <2>2. SetupInv'
    <3>1. ctrl_pc \notin SetupPcs \cup ConfPcs
      BY <1>1 DEF CtrlInv, OrderInv
    <3> QED
      BY <1>2, <3>1 DEF SetupInv, ConfPcs, NoTransPcs
  <2>3. OnInv'
    BY <1>2, <2>0 DEF LateInv, OnInv
  <2>4. ResetInv'
    <3> SUFFICES ASSUME ctrl_pc \in ResetPcs PROVE ResetInv'
      BY <1>2 DEF ResetInv, ResetPcs
    <3>1. noise = 0 => Without(Junk)'
      BY <1>3, <1>4, <2>0 DEF LateInv, ResetInv, Without, Junk, BAT_OK, BAT_BAD
    <3>2. ASSUME NEW i \in 1..Len(out'), out'[i] = BAT_OK
          PROVE  (i = Len(out') /\ dev'.tested /\ ~ dev'.testing) \/ Owed' - i >= 2 - Slack
      <4>1. CASE i \in 1..Len(out)
        <5>1. Owed - i >= 2 - Slack
          BY <1>1, <1>3, <2>0, <3>2, <4>1 DEF LateInv, ResetInv
        <5> QED
          BY <1>4, <5>1
      <4>2. CASE i = Len(out) + 1
        BY <1>1, <1>3, <3>2, <4>2
      <4> QED
        BY <1>3, <1>4, <4>1, <4>2
    <3> QED
      BY <1>2, <1>4, <2>0, <3>1, <3>2 DEF ResetInv, LateInv
  <2>5. DoneInv'
    BY <1>1, <1>2, <1>4, <2>0 DEF LateInv, DoneInv
  <2>6. OffInv'
    BY <1>2, <1>4, <2>0 DEF LateInv, OffInv
  <2>7. CmdInv'
    BY <1>2, <1>4, <2>0 DEF LateInv, CmdInv
  <2>8. ASSUME Without("AB")
        PROVE  Without("AB")'
    BY <1>3, <1>4, <2>8 DEF Without, BAT_OK, BAT_BAD
  <2>9. ASSUME NEW n, NoneBefore("AB", n)
        PROVE  \A i \in 1..Len(out') : out'[i] = "AB" => i >= n
    BY <1>3, <1>4, <2>9 DEF NoneBefore, BAT_OK, BAT_BAD
  <2>10. /\ NoneBefore("AB", 4 - Slack) => NoneBefore("AB", 4 - Slack)'
         /\ NoneBefore("AB", 3 - Slack) => NoneBefore("AB", 3 - Slack)'
    BY <2>1, <2>9 DEF NoneBefore
  <2>11. AckInv'
    BY <1>2, <1>4, <2>0, <2>8, <2>10 DEF LateInv, AckInv
  <2>12. BytesInv'
    BY <1>2, <1>4, <2>0, <2>8, <2>10 DEF LateInv, BytesInv
  <2>13. StartInv'
    BY <1>2, <2>0 DEF LateInv, StartInv
  <2> QED
    BY <2>2, <2>3, <2>4, <2>5, <2>6, <2>7, <2>11, <2>12, <2>13 DEF LateInv
<1> QED
  BY <1>0, <1>5, <1>6, <1>7 DEF CtrlInv

LEMMA LoseByteKeeps ==
  ASSUME CtrlInv, LoseByte
  PROVE  CtrlInv'
<1>0. Base /\ CtrlTypeInv /\ Base' /\ CtrlTypeInv'
  BY DeviceKeepsBase DEF CtrlInv, Base, Device
<1>1. /\ input # NoInput /\ input' = NoInput /\ faults' = faults + 1 /\ faults \in Nat
      /\ UNCHANGED <<ctrl_pc, conf_byte, chip, out, dev, noise, initialized, id>>
  BY <1>0 DEF LoseByte, kernel, CtrlTypeInv
<1>2. Owed' = Owed /\ Owed \in Nat /\ Len(out) \in Nat
  BY <1>0, <1>1, Counts DEF Owed
<1>3. OrderInv'
  BY <1>1 DEF CtrlInv, OrderInv
<1>4. ContentInv'
  BY <1>1 DEF CtrlInv, ContentInv
<1>5. ASSUME Regime'
      PROVE  LateInv'
  <2>0. Regime /\ LateInv /\ faults = 0 /\ noise = 0 /\ Slack = 0 /\ Slack' = 1
    BY <1>1, <1>5 DEF CtrlInv, Regime, Slack
  <2>a. input \in {RESET_CMD, DISABLE_SCANNING, IDENTIFY} /\ RESET_CMD # DISABLE_SCANNING
        /\ RESET_CMD # IDENTIFY /\ IDENTIFY # DISABLE_SCANNING /\ input # NoInput
        /\ NoInput # RESET_CMD /\ NoInput # DISABLE_SCANNING /\ NoInput # IDENTIFY
    BY <1>0, <1>1 DEF CtrlTypeInv, RESET_CMD, DISABLE_SCANNING, IDENTIFY, NoInput
  <2>1. SetupInv'
    <3>1. ctrl_pc \notin SetupPcs \cup ConfPcs
      BY <1>1 DEF CtrlInv, OrderInv
    <3> QED
      BY <1>1, <3>1 DEF SetupInv, ConfPcs, NoTransPcs
  <2>2. OnInv'
    BY <1>1, <2>0 DEF LateInv, OnInv
  <2>3. ResetInv'
    <3> SUFFICES ASSUME ctrl_pc \in ResetPcs PROVE ResetInv'
      BY <1>1 DEF ResetInv, ResetPcs
    <3>1. Without(Junk)'
      BY <1>1, <2>0 DEF LateInv, ResetInv, Without
    <3>2. ASSUME NEW i \in 1..Len(out), out[i] = BAT_OK
          PROVE  (i = Len(out) /\ dev.tested /\ ~ dev.testing) \/ Owed - i >= 2 - 1
      <4>1. (i = Len(out) /\ dev.tested /\ ~ dev.testing) \/ Owed - i >= 2 - 0
        BY <2>0, <3>2 DEF LateInv, ResetInv
      <4> QED
        BY <1>2, <4>1
    <3> QED
      BY <1>1, <1>2, <2>0, <3>1, <3>2 DEF ResetInv
  <2>4. DoneInv'
    <3> SUFFICES ASSUME ctrl_pc = "reset_done" \/ (ctrl_pc \in CallPcs /\ initialized)
                 PROVE  DoneInv'
      BY <1>1 DEF DoneInv
    <3>1. input = RESET_CMD
      BY <1>1 DEF CtrlInv, OrderInv
    <3>2. (dev.tested /\ ~ dev.testing /\ out = <<>>) \/ Owed >= 2
      BY <2>0, <3>1 DEF LateInv, DoneInv, Good
    <3>3. CASE dev.tested /\ ~ dev.testing /\ out = <<>>
      BY <1>1, <2>a, <3>3 DEF DoneInv, Good
    <3>4. CASE Owed >= 2
      BY <1>2, <2>0, <3>4 DEF DoneInv
    <3> QED
      BY <3>2, <3>3, <3>4
  <2>5. OffInv'
    <3> SUFFICES ASSUME ctrl_pc = "id_off_ack" PROVE OffInv'
      BY <1>1 DEF OffInv
    <3>1. input = DISABLE_SCANNING
      BY <1>1 DEF CtrlInv, OrderInv
    <3>2. (Good /\ out = <<>>) \/ Owed >= 2
      BY <2>0, <3>1 DEF LateInv, OffInv
    <3>3. CASE Good /\ out = <<>>
      BY <1>1, <2>a, <3>3 DEF OffInv, Good
    <3>4. CASE Owed >= 2
      BY <1>1, <1>2, <2>0, <2>a, <3>4 DEF OffInv
    <3> QED
      BY <3>2, <3>3, <3>4
  <2>6. Quiet => Quiet'
    BY <1>1, <2>0, <2>a DEF Quiet, Good
  <2>7. CmdInv'
    <3> SUFFICES ASSUME ctrl_pc = "id_cmd" PROVE CmdInv'
      BY <1>1 DEF CmdInv
    <3>1. input = DISABLE_SCANNING
      BY <1>1 DEF CtrlInv, OrderInv
    <3>2. Quiet \/ Owed >= 1
      BY <2>0, <3>1 DEF LateInv, CmdInv
    <3> QED
      BY <1>1, <1>2, <2>0, <2>a, <2>6, <3>2 DEF CmdInv
  <2>8. ASSUME Without("AB")
        PROVE  NoneBefore("AB", 4 - Slack)' /\ NoneBefore("AB", 3 - Slack)'
    BY <1>1, <2>8 DEF Without, NoneBefore
  <2>9. AckInv'
    <3> SUFFICES ASSUME ctrl_pc = "id_ack" PROVE AckInv'
      BY <1>1 DEF AckInv
    <3>1. input = IDENTIFY
      BY <1>1 DEF CtrlInv, OrderInv
    <3> QED
      BY <1>1, <2>0, <2>a, <2>6, <2>8, <3>1 DEF LateInv, AckInv
  <2>10. BytesInv'
    <3> SUFFICES ASSUME ctrl_pc = "id_bytes" PROVE BytesInv'
      BY <1>1 DEF BytesInv
    <3>1. input = IDENTIFY
      BY <1>1 DEF CtrlInv, OrderInv
    <3> QED
      BY <1>1, <2>0, <2>a, <2>6, <2>8, <3>1 DEF LateInv, BytesInv
  <2>11. StartInv'
    BY <1>1, <2>0, <2>6 DEF LateInv, StartInv
  <2> QED
    BY <2>1, <2>2, <2>3, <2>4, <2>5, <2>7, <2>9, <2>10, <2>11 DEF LateInv
<1> QED
  BY <1>0, <1>3, <1>4, <1>5 DEF CtrlInv

LEMMA LoseAnswerKeeps ==
  ASSUME CtrlInv, LoseAnswer
  PROVE  CtrlInv'
<1>0. Base /\ CtrlTypeInv /\ Base' /\ CtrlTypeInv'
  BY DeviceKeepsBase DEF CtrlInv, Base, Device
<1>1. /\ out # <<>> /\ out' = Tail(out) /\ faults' = faults + 1 /\ faults \in Nat
      /\ UNCHANGED <<ctrl_pc, conf_byte, chip, input, dev, noise, initialized, id>>
  BY <1>0 DEF LoseAnswer, kernel, CtrlTypeInv
<1>2. /\ Len(out') = Len(out) - 1 /\ Len(out) >= 1 /\ Len(out) \in Nat
      /\ \A i \in 1..Len(out') : out'[i] = out[i + 1]
  BY <1>0, <1>1, TakenEffect, Counts
<1>3. Owed' = Owed - 1 /\ Owed \in Nat
  BY <1>0, <1>1, <1>2, Counts, CountsNext
<1>4. OrderInv'
  BY <1>1 DEF CtrlInv, OrderInv
<1>5. ContentInv'
  <2>1. ASSUME NEW S, \A i \in 1..Len(out) : out[i] \in S
        PROVE  \A i \in 1..Len(out') : out'[i] \in S
    BY <1>2, <2>1
  <2>2. ctrl_pc \in SetupPcs \cup ConfPcs => \A i \in 1..Len(out') : out'[i] = Junk
    BY <1>2 DEF CtrlInv, ContentInv
  <2> QED
    BY <1>1, <2>1, <2>2 DEF CtrlInv, ContentInv
<1>6. ASSUME Regime'
      PROVE  LateInv'
  <2>0. Regime /\ LateInv /\ faults = 0 /\ noise = 0 /\ Slack = 0 /\ Slack' = 1
    BY <1>1, <1>6 DEF CtrlInv, Regime, Slack
  <2>1. SetupInv'
    <3>1. ctrl_pc \notin ConfPcs /\ (ctrl_pc \in SetupPcs => Len(out) <= 1)
      BY <1>1, <2>0 DEF LateInv, SetupInv
    <3> QED
      BY <1>1, <1>2, <3>1 DEF SetupInv, ConfPcs, NoTransPcs
  <2>2. OnInv'
    BY <1>1, <2>0 DEF LateInv, OnInv
  <2>3. ResetInv'
    <3> SUFFICES ASSUME ctrl_pc \in ResetPcs PROVE ResetInv'
      BY <1>1 DEF ResetInv, ResetPcs
    <3>1. Without(Junk)'
      BY <1>2, <2>0 DEF LateInv, ResetInv, Without
    <3>2. ASSUME NEW i \in 1..Len(out'), out'[i] = BAT_OK
          PROVE  (i = Len(out') /\ dev.tested /\ ~ dev.testing) \/ Owed' - i >= 2 - 1
      <4>1. i + 1 \in 1..Len(out) /\ out[i + 1] = BAT_OK
        BY <1>2, <3>2
      <4>2. (i + 1 = Len(out) /\ dev.tested /\ ~ dev.testing) \/ Owed - (i + 1) >= 2 - 0
        BY <2>0, <4>1 DEF LateInv, ResetInv
      <4> QED
        BY <1>2, <1>3, <4>2
    <3> QED
      BY <1>1, <2>0, <3>1, <3>2 DEF ResetInv
  <2>4. DoneInv'
    <3> SUFFICES ASSUME ctrl_pc = "reset_done" \/ (ctrl_pc \in CallPcs /\ initialized)
                 PROVE  Owed' >= 2 - 1
      BY <1>1, <2>0 DEF DoneInv
    <3>1. Owed >= 2
      BY <1>1, <2>0 DEF LateInv, DoneInv
    <3> QED
      BY <1>3, <3>1
  <2>5. OffInv'
    <3> SUFFICES ASSUME ctrl_pc = "id_off_ack" PROVE OffInv'
      BY <1>1 DEF OffInv
    <3>0. input \in {NoInput, DISABLE_SCANNING} /\ NoInput # DISABLE_SCANNING
      BY DEF CtrlInv, OrderInv, NoInput, DISABLE_SCANNING
    <3>1. \/ Good /\ input = NoInput /\ ~ dev.scanning
          \/ /\ input = DISABLE_SCANNING => Owed >= 2
             /\ input = NoInput => Owed >= 3
      BY <1>1, <2>0, <3>0 DEF LateInv, OffInv
    <3>2. CASE Good /\ input = NoInput /\ ~ dev.scanning
      BY <1>1, <3>0, <3>2 DEF OffInv, Good
    <3>3. CASE /\ input = DISABLE_SCANNING => Owed >= 2
               /\ input = NoInput => Owed >= 3
      BY <1>1, <1>3, <2>0, <3>3 DEF OffInv
    <3> QED
      BY <3>1, <3>2, <3>3
  <2>6. Quiet => Quiet'
    BY <1>1 DEF Quiet, Good
  <2>7. CmdInv'
    BY <1>1, <1>3, <2>0, <2>6 DEF LateInv, CmdInv
  <2>8. Without("AB") => Without("AB")'
    BY <1>2 DEF Without
  <2>9. /\ NoneBefore("AB", 4 - Slack) => NoneBefore("AB", 4 - Slack)'
        /\ NoneBefore("AB", 3 - Slack) => NoneBefore("AB", 3 - Slack)'
    <3>1. NoneBefore("AB", 4) => \A i \in 1..Len(out') : out'[i] = "AB" => i >= 3
      BY <1>2 DEF NoneBefore
    <3>2. NoneBefore("AB", 3) => \A i \in 1..Len(out') : out'[i] = "AB" => i >= 2
      BY <1>2 DEF NoneBefore
    <3>3. 4 - Slack = 4 /\ 3 - Slack = 3 /\ 4 - Slack' = 3 /\ 3 - Slack' = 2
      BY <2>0
    <3> QED
      BY <3>1, <3>2, <3>3, Zenon DEF NoneBefore
  <2>10. AckInv'
    BY <1>1, <1>3, <2>0, <2>6, <2>8, <2>9 DEF LateInv, AckInv
  <2>11. BytesInv'
    BY <1>1, <1>3, <2>0, <2>6, <2>8, <2>9 DEF LateInv, BytesInv
  <2>12. StartInv'
    BY <1>1, <2>0, <2>6 DEF LateInv, StartInv
  <2> QED
    BY <2>1, <2>2, <2>3, <2>4, <2>5, <2>7, <2>10, <2>11, <2>12 DEF LateInv
<1> QED
  BY <1>0, <1>4, <1>5, <1>6 DEF CtrlInv

LEMMA NoiseKeeps ==
  ASSUME CtrlInv, DeviceNoise
  PROVE  CtrlInv'
<1>0. Base /\ CtrlTypeInv /\ Base' /\ CtrlTypeInv'
  BY DeviceKeepsBase DEF CtrlInv, Base, Device
<1>1. /\ out' = Append(out, Junk) /\ noise' = noise + 1 /\ noise \in Nat
      /\ UNCHANGED <<ctrl_pc, conf_byte, chip, input, dev, faults, initialized, id>>
      /\ ~ dev.testing
  BY <1>0 DEF DeviceNoise, kernel, CtrlTypeInv
<1>2. /\ Len(out') = Len(out) + 1 /\ Len(out) \in Nat
      /\ \A i \in 1..Len(out) : out'[i] = out[i]
      /\ out'[Len(out) + 1] = Junk
  BY <1>0, <1>1, NoiseEffect, Counts
<1>3. Owed' = Owed + 1 /\ Owed \in Nat /\ Owed = Len(out)
  BY <1>0, <1>1, <1>2, Counts, CountsNext
<1>4. OrderInv'
  BY <1>1 DEF CtrlInv, OrderInv
<1>5. ContentInv'
  <2>1. ASSUME NEW S, Junk \in S, \A i \in 1..Len(out) : out[i] \in S
        PROVE  \A i \in 1..Len(out') : out'[i] \in S
    BY <1>2, <2>1
  <2>2. ctrl_pc \in SetupPcs \cup ConfPcs => \A i \in 1..Len(out') : out'[i] = Junk
    BY <1>2 DEF CtrlInv, ContentInv
  <2> QED
    BY <1>1, <2>1, <2>2 DEF CtrlInv, ContentInv
<1>6. ASSUME Regime'
      PROVE  LateInv'
  <2>0. Regime /\ LateInv /\ faults = 0 /\ noise' # 0 /\ noise' > 0 /\ Slack' = 1
    BY <1>1, <1>6 DEF CtrlInv, Regime, Slack
  <2>a. Slack \in {0, 1}
    BY <1>0, <2>0, Counts
  <2>1. SetupInv' /\ OnInv'
    BY <2>0 DEF SetupInv, OnInv
  <2>3. ResetInv'
    <3> SUFFICES ASSUME ctrl_pc \in ResetPcs PROVE ResetInv'
      BY <1>1 DEF ResetInv, ResetPcs
    <3>2. ASSUME NEW i \in 1..Len(out'), out'[i] = BAT_OK
          PROVE  Owed' - i >= 2 - 1
      <4>1. i \in 1..Len(out)
        BY <1>2, <3>2 DEF BAT_OK, Junk
      <4> QED
        BY <1>2, <1>3, <4>1
    <3>3. ctrl_pc = "reset_ack" => input = RESET_CMD \/ Owed' >= 2
      BY <1>3, <2>0 DEF LateInv, ResetInv
    <3> QED
      BY <1>1, <2>0, <3>2, <3>3 DEF ResetInv
  <2>4. Good => Good'
    BY <1>1 DEF Good
  <2>5. Quiet => Quiet'
    BY <2>0, <2>4 DEF Quiet
  <2>6. \A n \in Nat : Owed >= n - Slack => Owed' >= n - 1
    BY <1>3, <2>a
  <2>7. DoneInv'
    BY <1>1, <2>0, <2>4, <2>6 DEF LateInv, DoneInv
  <2>8. OffInv'
    BY <1>1, <2>0, <2>4, <2>6 DEF LateInv, OffInv
  <2>9. CmdInv'
    BY <1>1, <2>0, <2>5, <2>6 DEF LateInv, CmdInv
  <2>10. Without("AB") => Without("AB")'
    BY <1>2 DEF Without, Junk
  <2>11. /\ NoneBefore("AB", 4 - Slack) => NoneBefore("AB", 4 - Slack)'
         /\ NoneBefore("AB", 3 - Slack) => NoneBefore("AB", 3 - Slack)'
    <3>1. ASSUME NEW n \in Nat, \A i \in 1..Len(out) : out[i] = "AB" => i >= n - Slack
          PROVE  \A i \in 1..Len(out') : out'[i] = "AB" => i >= n - 1
      BY <1>2, <2>a, <3>1 DEF Junk
    <3> QED
      BY <2>0, <3>1 DEF NoneBefore
  <2>12. AckInv'
    BY <1>1, <2>0, <2>5, <2>6, <2>10, <2>11 DEF LateInv, AckInv
  <2>13. BytesInv'
    BY <1>1, <2>0, <2>5, <2>6, <2>10, <2>11 DEF LateInv, BytesInv
  <2>14. StartInv'
    BY <1>1, <2>0, <2>5 DEF LateInv, StartInv
  <2> QED
    BY <2>1, <2>3, <2>7, <2>8, <2>9, <2>12, <2>13, <2>14 DEF LateInv
<1> QED
  BY <1>0, <1>4, <1>5, <1>6 DEF CtrlInv

LEMMA DeviceKeeps ==
  ASSUME CtrlInv, Device
  PROVE  CtrlInv'
BY TakesKeeps, TestedKeeps, LoseByteKeeps, LoseAnswerKeeps, NoiseKeeps DEF Device

-----------------------------------------------------------------------------
(* ps2ctrl_init() up to the reset keeps IInv *)

SetupNames == SetupPcs \cup ConfPcs

\* What is left to show of such a step.
LEMMA SetupFrame ==
  ASSUME CtrlInv, Base', ctrl_pc \in SetupNames,
         ctrl_pc' \in SetupNames \cup {"reset_send", "init_failed"},
         UNCHANGED <<initialized, input, dev, faults, noise, id>>,
         \A i \in 1..Len(out') : out'[i] = Junk,
         Regime /\ noise = 0 => SetupInv',
         Regime /\ noise = 0 /\ ctrl_pc' = "reset_send" =>
           out' = <<>> /\ ~ chip'.off1 /\ chip'.irq1 /\ ~ chip'.trans
  PROVE  CtrlInv'
<1> USE DEF SetupNames
<1>1. ~ initialized /\ input = NoInput /\ ~ dev.testing
  BY DEF CtrlInv, OrderInv, SetupPcs, ConfPcs, CallPcs, IdentifyPcs, StartPcs
<1>2. ctrl_pc' \notin CallPcs \cup IdentifyPcs \cup StartPcs \cup {"reset_done", "failed", "panic"}
      /\ (ctrl_pc' \in ResetPcs => ctrl_pc' = "reset_send")
  BY DEF SetupPcs, ConfPcs, CallPcs, IdentifyPcs, StartPcs, ResetPcs
<1>a. id' = <<>>
  BY DEF CtrlInv, OrderInv, SetupPcs, ConfPcs, StartPcs
<1>3. OrderInv'
  BY <1>1, <1>2, <1>a DEF OrderInv, IdentifyPcs, CallPcs
<1>4. ContentInv'
  BY DEF ContentInv
<1>5. ASSUME Regime'
      PROVE  LateInv'
  <2>0. Regime
    BY <1>5 DEF Regime
  <2>1. SetupInv'
    BY <2>0 DEF SetupInv
  <2>2. OnInv'
    BY <1>1, <1>2, <2>0 DEF OnInv
  <2>3. ResetInv'
    <3>1. ctrl_pc' # "reset_ack"
      BY <1>2 DEF ResetPcs
    <3>2. noise' = 0 /\ ctrl_pc' = "reset_send" => Without(Junk)'
      <4>1. Len(<<>>) = 0
        OBVIOUS
      <4> QED
        BY <2>0, <4>1 DEF Without
    <3>3. \A i \in 1..Len(out') : out'[i] # BAT_OK
      BY DEF Junk, BAT_OK
    <3> QED
      BY <1>2, <3>1, <3>2, <3>3 DEF ResetInv
  <2>4. DoneInv'
    BY <1>2 DEF DoneInv
  <2>5. OffInv' /\ CmdInv' /\ AckInv' /\ BytesInv' /\ StartInv'
    BY <1>2 DEF OffInv, CmdInv, AckInv, BytesInv, StartInv, IdentifyPcs
  <2> QED
    BY <2>1, <2>2, <2>3, <2>4, <2>5 DEF LateInv
<1> QED
  BY <1>3, <1>4, <1>5 DEF CtrlInv

\* A step that leaves the buffer alone.
LEMMA SetupSame ==
  ASSUME CtrlInv, Base', ctrl_pc \in SetupNames,
         ctrl_pc' \in SetupNames \cup {"reset_send", "init_failed"},
         UNCHANGED <<initialized, id, out, outside>>,
         Regime /\ noise = 0 => SetupInv',
         Regime /\ noise = 0 /\ ctrl_pc' = "reset_send" =>
           ctrl_pc \in ConfPcs /\ ~ chip'.off1 /\ chip'.irq1 /\ ~ chip'.trans
  PROVE  CtrlInv'
<1>1. \A i \in 1..Len(out') : out'[i] = Junk
  BY DEF CtrlInv, ContentInv, SetupNames
<1>2. Regime /\ noise = 0 /\ ctrl_pc' = "reset_send" => out' = <<>>
  BY DEF CtrlInv, LateInv, SetupInv
<1> QED
  BY <1>1, <1>2, SetupFrame DEF outside

LEMMA ConfFields ==
  ASSUME NEW c \in ConfBytes, NEW a \in BOOLEAN
  PROVE  /\ [c EXCEPT !.off1 = a].off1 = a
         /\ [c EXCEPT !.off1 = a].trans = c.trans
         /\ [c EXCEPT !.off2 = a].trans = c.trans
         /\ [c EXCEPT !.off2 = a].off1 = c.off1
         /\ NoIrqs(c).trans = FALSE
BY DEF ConfBytes, NoIrqs

LEMMA SetupKeeps ==
  ASSUME CtrlInv,
         \/ disable_devices \/ flush_controller_output_buffer
         \/ set_controller_configuration_byte \/ FirstChannelTest
         \/ check_controller_selt_test \/ has_two_channels
         \/ check_interface_test \/ enable_devices
  PROVE  CtrlInv'
<1> USE DEF SetupNames, SetupPcs, ConfPcs, NoTransPcs, GoTo
<1>0. Base /\ CtrlTypeInv /\ Base' /\ chip \in ConfBytes /\ conf_byte \in ConfBytes
  BY SetupKeepsBase DEF CtrlInv, Base, CtrlTypeInv
<1>1. Regime /\ noise = 0 => SetupInv
  BY DEF CtrlInv, LateInv
<1>a. ASSUME NEW v \in BOOLEAN
      PROVE  Off2(v).trans = chip.trans /\ Off2(v).off1 = chip.off1
  BY <1>0, <1>a, ConfFields DEF Off2
<1>2. CASE disable_devices
  <2>1. /\ UNCHANGED <<initialized, id, out, outside>> /\ ctrl_pc \in {"disable1", "disable2"}
        /\ ctrl_pc' \in {"disable2", "flush", "init_failed"}
    BY <1>2 DEF disable_devices, SendCmd, kernel
  <2>2. Regime /\ noise = 0 => SetupInv'
    BY <1>1, <2>1 DEF SetupInv, outside
  <2> QED
    BY <1>0, <2>1, <2>2, SetupSame
<1>3. CASE flush_controller_output_buffer
  <2>1. /\ UNCHANGED <<initialized, id, input, dev, faults, noise, chip>>
        /\ ctrl_pc = "flush" /\ ctrl_pc' = "conf_read1"
        /\ out' = out \/ (out # <<>> /\ out' = Tail(out))
    BY <1>3 DEF flush_controller_output_buffer, kernel, outside
  <2>2. /\ out = <<>> => out' = <<>>
        /\ out # <<>> => out' = Tail(out)
    BY <1>3 DEF flush_controller_output_buffer
  <2>3. \A i \in 1..Len(out) : out[i] = Junk
    BY <2>1 DEF CtrlInv, ContentInv
  <2>4. \A i \in 1..Len(out') : out'[i] = Junk
    <3>1. CASE out' = out
      BY <2>3, <3>1
    <3>2. CASE out # <<>> /\ out' = Tail(out)
      BY <1>0, <2>3, <3>2, TakenEffect, Counts
    <3> QED
      BY <2>1, <3>1, <3>2
  <2>5. Regime /\ noise = 0 => out' = <<>>
    <3> SUFFICES ASSUME Regime, noise = 0 PROVE out' = <<>>
      OBVIOUS
    <3>1. Len(out) <= 1
      BY <1>1, <2>1 DEF SetupInv
    <3>2. CASE out # <<>>
      <4>1. out' = Tail(out)
        BY <2>2, <3>2
      <4>2. Len(out') = Len(out) - 1 /\ Len(out) >= 1 /\ Len(out) \in Nat
        BY <1>0, <3>2, <4>1, TakenEffect, Counts
      <4>3. CtrlTypeInv'
        BY <1>0 DEF Base
      <4> QED
        BY <3>1, <4>2, <4>3, CountsNext
    <3> QED
      BY <2>2, <3>2
  <2>6. Regime /\ noise = 0 => SetupInv'
    BY <2>1, <2>5 DEF SetupInv
  <2> QED
    BY <1>0, <2>1, <2>4, <2>6, SetupFrame
<1>4. ASSUME NEW at, NEW next, NEW failed, ReadConf(at, next, failed),
             at \in SetupNames, next \in SetupNames,
             failed \in {"init_failed", "undo1", "undo2"}, next \notin {"undo1", "undo2"},
             at \in ConfPcs /\ next \in ConfPcs,
             next = "enable_write" => at = "enable_read",
             next \in NoTransPcs => at \in NoTransPcs /\ next \notin {"enable2", "enable_read"}
      PROVE  CtrlInv'
  <2>1. /\ UNCHANGED <<initialized, id, input, dev, faults, noise, chip>>
        /\ ctrl_pc = at /\ ctrl_pc' \in {next, failed}
    BY <1>4 DEF ReadConf, kernel, outside
  <2>2. UNCHANGED out \/ (out # <<>> /\ out' = Append(Tail(out), Junk))
    BY <1>4 DEF ReadConf
  <2>3. \A i \in 1..Len(out) : out[i] = Junk
    BY <1>4, <2>1 DEF CtrlInv, ContentInv
  <2>4. \A i \in 1..Len(out') : out'[i] = Junk
    <3>1. CASE UNCHANGED out
      BY <2>3, <3>1
    <3>2. CASE out # <<>> /\ out' = Append(Tail(out), Junk)
      <4>1. /\ Len(out') = Len(out) /\ Len(out) \in Nat /\ out'[Len(out)] = Junk
            /\ \A i \in 1..Len(out) - 1 : out'[i] = out[i + 1]
        BY <1>0, <3>2, ReadEffect, Counts
      <4> SUFFICES ASSUME NEW i \in 1..Len(out') PROVE out'[i] = Junk
        OBVIOUS
      <4>2. CASE i = Len(out)
        BY <4>1, <4>2
      <4>3. CASE i \in 1..Len(out) - 1
        BY <2>3, <4>1, <4>3
      <4> QED
        BY <4>1, <4>2, <4>3
    <3> QED
      BY <2>2, <3>1, <3>2
  <2>5. Regime /\ noise = 0 => out = <<>> /\ out' = <<>>
    BY <1>1, <1>4, <2>1, <2>2 DEF SetupInv
  <2>6. Regime /\ noise = 0 /\ ctrl_pc' = next => conf_byte' = chip
    BY <1>4, <2>5 DEF ReadConf
  <2>7. Regime /\ noise = 0 => SetupInv'
    <3> SUFFICES ASSUME Regime, noise = 0 PROVE SetupInv'
      OBVIOUS
    <3>1. out' = <<>> /\ Len(<<>>) = 0
      BY <2>5
    <3>2. CASE ctrl_pc' = failed
      BY <1>4, <3>1, <3>2 DEF SetupInv
    <3>3. CASE ctrl_pc' = next
      <4>1. ctrl_pc' \in NoTransPcs => ~ chip'.trans /\ ctrl_pc' \notin {"enable2", "enable_read"}
        BY <1>1, <1>4, <2>1, <3>3 DEF SetupInv
      <4>2. ctrl_pc' = "enable_write" => ~ conf_byte'.trans /\ ~ conf_byte'.off1
        BY <1>1, <1>4, <2>1, <2>6, <3>3 DEF SetupInv
      <4>3. ctrl_pc' \in {"enable2", "enable_read"} => ctrl_pc' \in NoTransPcs
        OBVIOUS
      <4> QED
        BY <3>1, <4>1, <4>2, <4>3 DEF SetupInv
    <3> QED
      BY <2>1, <3>2, <3>3
  <2>8. ctrl_pc' \in SetupNames \cup {"init_failed"} /\ ctrl_pc' # "reset_send"
    BY <1>4, <2>1
  <2> QED
    BY <1>0, <1>4, <2>1, <2>4, <2>7, <2>8, SetupFrame
<1>5. CASE set_controller_configuration_byte
  <2>1. CASE ReadConf("conf_read1", "conf_write1", "init_failed")
    BY <1>4, <2>1
  <2>2. CASE ReadConf("conf_read2", "conf_write2", "init_failed")
    BY <1>4, <2>2
  <2>3. CASE \/ WriteConf("conf_write1", NoIrqs(conf_byte), "first_test", "init_failed")
             \/ WriteConf("conf_write2", NoIrqs(conf_byte), "channels", "init_failed")
    <3>1. /\ UNCHANGED <<initialized, id, out, outside>> /\ ctrl_pc \in {"conf_write1", "conf_write2"}
          /\ ctrl_pc' \in {"first_test", "channels", "init_failed"}
          /\ ctrl_pc' # "init_failed" => chip' = NoIrqs(conf_byte)
      BY <2>3 DEF WriteConf, kernel
    <3>2. Regime /\ noise = 0 => SetupInv'
      <4> SUFFICES ASSUME Regime, noise = 0 PROVE SetupInv'
        OBVIOUS
      <4>1. noise' = noise /\ out' = <<>>
        BY <1>1, <3>1 DEF SetupInv, ConfPcs, outside
      <4>2. NoIrqs(conf_byte).trans = FALSE
        BY <1>0, ConfFields, Zenon
      <4>3. CASE ctrl_pc' = "init_failed"
        BY <4>1, <4>3 DEF SetupInv
      <4>4. CASE ctrl_pc' # "init_failed"
        <5>1. ~ chip'.trans /\ ctrl_pc' \in {"first_test", "channels"}
          BY <3>1, <4>2, <4>4
        <5> QED
          BY <4>1, <5>1 DEF SetupInv
      <4> QED
        BY <4>3, <4>4
    <3> QED
      BY <1>0, <3>1, <3>2, SetupSame
  <2> QED
    BY <1>5, <2>1, <2>2, <2>3 DEF set_controller_configuration_byte
<1>6. CASE FirstChannelTest
  <2>1. /\ UNCHANGED <<initialized, id, out, outside>>
        /\ ctrl_pc = "first_test" /\ ctrl_pc' = "self_test"
    BY <1>6 DEF FirstChannelTest
  <2>2. Regime /\ noise = 0 => SetupInv'
    BY <1>1, <2>1 DEF SetupInv, outside
  <2> QED
    BY <1>0, <2>1, <2>2, SetupSame
<1>7. CASE check_controller_selt_test
  <2>1. /\ UNCHANGED <<initialized, id, out, outside>>
        /\ ctrl_pc = "self_test" /\ ctrl_pc' \in {"conf_read2", "init_failed"}
    BY <1>7 DEF check_controller_selt_test, kernel
  <2>2. Regime /\ noise = 0 => SetupInv'
    BY <1>1, <2>1 DEF SetupInv, outside
  <2> QED
    BY <1>0, <2>1, <2>2, SetupSame
<1>8. CASE has_two_channels
  <2>1. CASE ReadConf("read_second", "check_second", "init_failed")
    BY <1>4, <2>1
  <2>2. CASE ~ ReadConf("read_second", "check_second", "init_failed")
    <3>1. /\ UNCHANGED <<initialized, id, out, outside>>
          /\ ctrl_pc \in NoTransPcs \ {"enable1", "enable2", "enable_read"}
          /\ ctrl_pc' \in (NoTransPcs \ {"enable1", "enable2", "enable_read"}) \cup {"init_failed"}
      BY <1>8, <2>2 DEF has_two_channels, SendCmd, kernel
    <3>2. chip'.trans = chip.trans
      BY <1>8, <2>2, <1>a DEF has_two_channels, SendCmd
    <3>3. Regime /\ noise = 0 => SetupInv'
      BY <1>1, <3>1, <3>2 DEF SetupInv, outside
    <3> QED
      BY <1>0, <3>1, <3>3, SetupSame
  <2> QED
    BY <2>1, <2>2
<1>9. CASE check_interface_test
  <2>1. /\ UNCHANGED <<initialized, id, out, outside, chip>>
        /\ ctrl_pc \in {"port1_test", "port2_test"}
        /\ ctrl_pc' \in {"enable1", "port2_test", "init_failed"}
    BY <1>9 DEF check_interface_test, kernel
  <2>2. Regime /\ noise = 0 => SetupInv'
    BY <1>1, <2>1 DEF SetupInv, outside
  <2> QED
    BY <1>0, <2>1, <2>2, SetupSame
<1>10. CASE enable_devices
  <2>1. CASE SendCmd("enable1", [chip EXCEPT !.off1 = FALSE],
                     IF single THEN "enable_read" ELSE "enable2", "init_failed")
    <3>1. /\ UNCHANGED <<initialized, id, out, outside>> /\ ctrl_pc = "enable1"
          /\ ctrl_pc' \in {"enable_read", "enable2", "init_failed"}
          /\ ctrl_pc' # "init_failed" => chip' = [chip EXCEPT !.off1 = FALSE]
      BY <2>1 DEF SendCmd, kernel
    <3>2. ctrl_pc' # "init_failed" => chip'.off1 = FALSE /\ chip'.trans = chip.trans
      <4> SUFFICES ASSUME ctrl_pc' # "init_failed"
                   PROVE  chip'.off1 = FALSE /\ chip'.trans = chip.trans
        OBVIOUS
      <4>1. chip' = [chip EXCEPT !.off1 = FALSE]
        BY <3>1
      <4> QED
        BY <1>0, <4>1 DEF ConfBytes
    <3>3. Regime /\ noise = 0 => SetupInv'
      BY <1>1, <3>1, <3>2 DEF SetupInv, outside
    <3> QED
      BY <1>0, <3>1, <3>3, SetupSame
  <2>2. CASE SendCmd("enable2", Off2(FALSE), "enable_read", "undo1")
    <3>1. /\ UNCHANGED <<initialized, id, out, outside>> /\ ctrl_pc = "enable2"
          /\ ctrl_pc' \in {"enable_read", "undo1"}
          /\ ctrl_pc' # "undo1" => chip'.trans = chip.trans /\ chip'.off1 = chip.off1
      BY <1>a, <2>2 DEF SendCmd, kernel
    <3>3. Regime /\ noise = 0 => SetupInv'
      BY <1>1, <3>1 DEF SetupInv, outside
    <3> QED
      BY <1>0, <3>1, <3>3, SetupSame
  <2>a. (IF single THEN "undo1" ELSE "undo2") \in {"undo1", "undo2"}
    OBVIOUS
  <2>3. CASE ReadConf("enable_read", "enable_write", IF single THEN "undo1" ELSE "undo2")
    BY <1>4, <2>3, <2>a
  <2>4. CASE WriteConf("enable_write",
                       [conf_byte EXCEPT !.irq1 = TRUE, !.irq2 = @ \/ ~ single],
                       "reset_send", IF single THEN "undo1" ELSE "undo2")
    <3>1. /\ UNCHANGED <<initialized, id, out, outside>> /\ ctrl_pc = "enable_write"
          /\ ctrl_pc' \in {"reset_send", "undo1", "undo2"}
          /\ ctrl_pc' = "reset_send" =>
               chip' = [conf_byte EXCEPT !.irq1 = TRUE, !.irq2 = @ \/ ~ single]
      BY <2>4 DEF WriteConf, kernel
    <3>2. ctrl_pc' = "reset_send" =>
            chip'.irq1 /\ chip'.trans = conf_byte.trans /\ chip'.off1 = conf_byte.off1
      <4> SUFFICES ASSUME ctrl_pc' = "reset_send"
                   PROVE  chip'.irq1 = TRUE /\ chip'.trans = conf_byte.trans
                          /\ chip'.off1 = conf_byte.off1
        OBVIOUS
      <4>1. chip' = [conf_byte EXCEPT !.irq1 = TRUE, !.irq2 = @ \/ ~ single]
        BY <3>1
      <4> QED
        BY <1>0, <4>1 DEF ConfBytes
    <3>3. Regime /\ noise = 0 => SetupInv'
      BY <1>1, <3>1 DEF SetupInv, outside
    <3>4. Regime /\ noise = 0 => ~ conf_byte.trans /\ ~ conf_byte.off1
      BY <1>1, <3>1 DEF SetupInv
    <3> QED
      BY <1>0, <3>1, <3>2, <3>3, <3>4, SetupSame
  <2>5. CASE \/ SendCmd("undo2", Off2(TRUE), "undo1", "undo1")
             \/ SendCmd("undo1", [chip EXCEPT !.off1 = TRUE], "init_failed", "init_failed")
    <3>1. /\ UNCHANGED <<initialized, id, out, outside>> /\ ctrl_pc \in {"undo1", "undo2"}
          /\ ctrl_pc' \in {"undo1", "init_failed"}
      BY <2>5 DEF SendCmd, kernel
    <3>3. Regime /\ noise = 0 => SetupInv'
      BY <1>1, <3>1 DEF SetupInv, outside
    <3> QED
      BY <1>0, <3>1, <3>3, SetupSame
  <2> QED
    BY <1>10, <2>1, <2>2, <2>3, <2>4, <2>5 DEF enable_devices
<1> QED
  BY <1>2, <1>3, <1>5, <1>6, <1>7, <1>8, <1>9, <1>10

-----------------------------------------------------------------------------
(* reset_devices() keeps IInv *)

LEMMA ResetFrame ==
  ASSUME CtrlInv, Base', ctrl_pc \in ResetPcs,
         ctrl_pc' \in ResetPcs \cup {"reset_done", "init_failed"},
         UNCHANGED <<initialized, id, chip, dev, faults, noise>>,
         input' \in {NoInput, RESET_CMD},
         \A i \in 1..Len(out') : out'[i] \in {ACK, BAT_OK, BAT_BAD, Junk},
         Regime => ResetInv', Regime => DoneInv'
  PROVE  CtrlInv'
<1>1. ~ initialized
  BY DEF CtrlInv, OrderInv, ResetPcs, CallPcs, IdentifyPcs, StartPcs
<1>2. ctrl_pc' \notin CallPcs \cup IdentifyPcs \cup StartPcs \cup SetupPcs \cup ConfPcs
                  \cup NoTransPcs \cup {"failed", "panic"}
  BY DEF SetupPcs, ConfPcs, CallPcs, IdentifyPcs, StartPcs, ResetPcs, NoTransPcs
<1>a. id' = <<>>
  BY DEF CtrlInv, OrderInv, ResetPcs, StartPcs
<1>3. OrderInv'
  BY <1>1, <1>2, <1>a DEF OrderInv, IdentifyPcs, CallPcs
<1>4. ContentInv'
  BY <1>2 DEF ContentInv
<1>5. ASSUME Regime'
      PROVE  LateInv'
  <2>0. Regime
    BY <1>5 DEF Regime
  <2>1. SetupInv'
    BY <1>2 DEF SetupInv, ConfPcs
  <2>2. OnInv'
    BY <1>1, <2>0 DEF CtrlInv, LateInv, OnInv
  <2>3. OffInv' /\ CmdInv' /\ AckInv' /\ BytesInv' /\ StartInv'
    BY <1>2 DEF OffInv, CmdInv, AckInv, BytesInv, StartInv, IdentifyPcs
  <2> QED
    BY <2>0, <2>1, <2>2, <2>3 DEF LateInv
<1> QED
  BY <1>3, <1>4, <1>5 DEF CtrlInv

\* What is left of the answers when one is read.
LEMMA ResetTaken ==
  ASSUME CtrlInv, ctrl_pc \in ResetPcs, Regime, Base', out # <<>>, out' = Tail(out),
         UNCHANGED <<dev, faults, noise>>
  PROVE  /\ Owed' = Owed - 1 /\ Slack' = Slack
         /\ noise = 0 => Without(Junk)'
         /\ \A i \in 1..Len(out') : out'[i] = BAT_OK =>
              \/ i = Len(out') /\ dev.tested /\ ~ dev.testing
              \/ Owed' - i >= 2 - Slack
<1>0. CtrlTypeInv /\ CtrlTypeInv'
  BY DEF CtrlInv, Base
<1>1. /\ Len(out') = Len(out) - 1 /\ Len(out) >= 1 /\ Len(out) \in Nat
      /\ \A i \in 1..Len(out') : out'[i] = out[i + 1]
  BY <1>0, TakenEffect, Counts
<1>2. Owed' = Owed - 1 /\ Owed \in Nat /\ Slack' = Slack /\ Slack \in Nat
  BY <1>0, <1>1, Counts, CountsNext DEF Slack
<1>3. noise = 0 => Without(Junk)'
  <2>1. noise = 0 => \A i \in 1..Len(out) : out[i] # Junk
    BY DEF CtrlInv, LateInv, ResetInv, Without
  <2> QED
    BY <1>1, <2>1 DEF Without
<1>4. ASSUME NEW i \in 1..Len(out'), out'[i] = BAT_OK
      PROVE  (i = Len(out') /\ dev.tested /\ ~ dev.testing) \/ Owed' - i >= 2 - Slack
  <2>1. i + 1 \in 1..Len(out) /\ out[i + 1] = BAT_OK
    BY <1>1, <1>4
  <2>2. (i + 1 = Len(out) /\ dev.tested /\ ~ dev.testing) \/ Owed - (i + 1) >= 2 - Slack
    BY <2>1 DEF CtrlInv, LateInv, ResetInv
  <2>3. CASE i + 1 = Len(out) /\ dev.tested /\ ~ dev.testing
    <3>1. i = Len(out')
      <4>1. i \in Nat /\ Len(out) \in Nat
        BY <1>1, <1>4
      <4>2. Len(out') = (i + 1) - 1
        BY <1>1, <2>3
      <4> QED
        BY <4>1, <4>2
    <3> QED
      BY <2>3, <3>1
  <2>4. CASE Owed - (i + 1) >= 2 - Slack
    <3>1. i \in Nat /\ Owed' - i = Owed - (i + 1)
      BY <1>1, <1>2, <1>4
    <3> QED
      BY <2>4, <3>1
  <2> QED
    BY <2>2, <2>3, <2>4
<1> QED
  BY <1>2, <1>3, <1>4

\* The result that ends reset_devices() is that of the last reset, or that
\* reset will still be answered.
LEMMA ResultTaken ==
  ASSUME CtrlInv, ctrl_pc \in ResetPcs, Regime, Base', out # <<>>, out' = Tail(out),
         UNCHANGED <<dev, faults, noise, input>>, out[1] = BAT_OK
  PROVE  DoneInv'
<1>0. CtrlTypeInv /\ CtrlTypeInv'
  BY DEF CtrlInv, Base
<1>1. Len(out') = Len(out) - 1 /\ Len(out) >= 1 /\ Len(out) \in Nat
  BY <1>0, TakenEffect, Counts
<1>2. Owed' = Owed - 1 /\ Slack' = Slack
  BY ResetTaken
<1>3. (1 = Len(out) /\ dev.tested /\ ~ dev.testing) \/ Owed - 1 >= 2 - Slack
  <2>1. 1 \in 1..Len(out)
    BY <1>1
  <2> QED
    BY <2>1 DEF CtrlInv, LateInv, ResetInv
<1>4. CASE 1 = Len(out) /\ dev.tested /\ ~ dev.testing
  <2>1. out' = <<>>
    BY <1>0, <1>1, <1>4, CountsNext
  <2>2. noise \in Nat
    BY <1>0 DEF CtrlTypeInv
  <2> QED
    BY <1>4, <2>1, <2>2 DEF DoneInv, Good
<1>5. CASE Owed - 1 >= 2 - Slack
  BY <1>2, <1>5 DEF DoneInv
<1> QED
  BY <1>3, <1>4, <1>5

LEMMA ResetKeeps ==
  ASSUME CtrlInv, reset_devices
  PROVE  CtrlInv'
<1>0. Base /\ CtrlTypeInv /\ Base' /\ CtrlTypeInv'
  BY ResetKeepsBase DEF CtrlInv, Base
<1>1. ctrl_pc \in ResetPcs
  BY DEF reset_devices, ResetSend, ResetAck, ResetResult, SendByte, Polling, ResetPcs
<1>2. /\ input \in {NoInput, RESET_CMD}
      /\ \A i \in 1..Len(out) : out[i] \in {ACK, BAT_OK, BAT_BAD, Junk}
  BY <1>1 DEF CtrlInv, OrderInv, ContentInv
\* The buffer is as it was, and the wait for an answer does not begin again.
<1>3. ASSUME UNCHANGED <<initialized, id, chip, out, dev, faults, noise>>,
             ctrl_pc' \in ResetPcs \cup {"init_failed"}, input' \in {NoInput, RESET_CMD},
             ctrl_pc' = "reset_ack" => input' = RESET_CMD
      PROVE  CtrlInv'
  <2>1. Regime => ResetInv'
    BY <1>1, <1>3 DEF CtrlInv, LateInv, ResetInv, Without, Owed, Slack
  <2>2. DoneInv'
    BY <1>3 DEF DoneInv, ResetPcs, CallPcs
  <2> QED
    BY <1>0, <1>1, <1>2, <1>3, <2>1, <2>2, ResetFrame
\* A byte is read and the reset goes on.
<1>4. ASSUME UNCHANGED <<initialized, id, chip, dev, input, faults, noise>>,
             out # <<>>, out' = Tail(out),
             ctrl_pc' \in {"reset_result", "reset_send", "init_failed"}
      PROVE  CtrlInv'
  <2>1. /\ Len(out') = Len(out) - 1 /\ Len(out) \in Nat
        /\ \A i \in 1..Len(out') : out'[i] = out[i + 1]
    BY <1>0, <1>4, TakenEffect, Counts
  <2>2. \A i \in 1..Len(out') : out'[i] \in {ACK, BAT_OK, BAT_BAD, Junk}
    BY <1>2, <2>1
  <2>3. Regime => ResetInv'
    BY <1>0, <1>1, <1>4, ResetTaken DEF ResetInv
  <2>4. DoneInv'
    BY <1>4 DEF DoneInv, CallPcs
  <2> QED
    BY <1>0, <1>1, <1>2, <1>4, <2>2, <2>3, <2>4, ResetFrame DEF ResetPcs
\* A byte is read and the reset is taken to be done.
<1>5. ASSUME UNCHANGED <<initialized, id, chip, dev, input, faults, noise>>,
             out # <<>>, out' = Tail(out), ctrl_pc' = "reset_done", Regime => DoneInv'
      PROVE  CtrlInv'
  <2>1. /\ Len(out') = Len(out) - 1 /\ Len(out) \in Nat
        /\ \A i \in 1..Len(out') : out'[i] = out[i + 1]
    BY <1>0, <1>5, TakenEffect, Counts
  <2>2. \A i \in 1..Len(out') : out'[i] \in {ACK, BAT_OK, BAT_BAD, Junk}
    BY <1>2, <2>1
  <2>3. ResetInv'
    BY <1>5 DEF ResetInv, ResetPcs
  <2> QED
    BY <1>0, <1>1, <1>2, <1>5, <2>2, <2>3, ResetFrame
<1>6. CASE ResetSend
  <2>1. UNCHANGED <<initialized, id, chip, out, dev, faults, noise>>
    BY <1>6 DEF ResetSend, SendByte, Polling, RetryReset, kernel, outside
  <2>2. ctrl_pc' \in {"reset_ack", "reset_again", "reset_send", "init_failed"}
    BY <1>6 DEF ResetSend, SendByte, RetryReset, GoTo
  <2>3. input' \in {NoInput, RESET_CMD} /\ (ctrl_pc' = "reset_ack" => input' = RESET_CMD)
    BY <1>2, <1>6 DEF ResetSend, SendByte, Polling, RetryReset, GoTo, outside
  <2> QED
    BY <1>3, <2>1, <2>2, <2>3 DEF ResetPcs
<1>7. CASE ResetAck
  <2>1. UNCHANGED <<initialized, id, chip, dev, input, faults, noise>> /\ ctrl_pc = "reset_ack"
    BY <1>7 DEF ResetAck, Polling, RetryReset, kernel, outside
  <2>2. CASE TimedOut /\ RetryReset
    <3>1. out' = out /\ ctrl_pc' \in {"reset_send", "init_failed"}
      BY <2>2 DEF TimedOut, RetryReset, GoTo
    <3> QED
      BY <1>2, <1>3, <2>1, <3>1 DEF ResetPcs
  <2>3. CASE (Received(BAT_BAD) /\ RetryReset) \/ (Received(ACK) /\ GoTo("reset_result"))
    <3>1. /\ out # <<>> /\ out' = Tail(out)
          /\ ctrl_pc' \in {"reset_result", "reset_send", "init_failed"}
      BY <2>3 DEF Received, RetryReset, GoTo
    <3> QED
      BY <1>4, <2>1, <3>1
  <2>4. CASE /\ \E byte \in Answers \ {ACK, BAT_BAD} : Received(byte)
             /\ GoTo("reset_done")
    <3>1. /\ out # <<>> /\ out' = Tail(out) /\ ctrl_pc' = "reset_done"
          /\ Head(out) \notin {ACK, BAT_BAD}
      BY <2>4 DEF Received, GoTo
    <3>2. Head(out) = out[1] /\ Len(out) >= 1 /\ Len(out) \in Nat
      BY <1>0, <3>1, TakenEffect, Counts
    <3>3. out[1] \in {BAT_OK, Junk}
      BY <1>2, <3>1, <3>2
    <3>4. ASSUME Regime
          PROVE  DoneInv'
      <4>1. CASE out[1] = BAT_OK
        BY <1>0, <1>1, <2>1, <3>1, <3>4, <4>1, ResultTaken
      <4>2. CASE out[1] = Junk
        <5>1. 1 \in 1..Len(out)
          BY <3>2
        <5>2. noise # 0 /\ noise \in Nat
          BY <1>0, <1>1, <3>4, <4>2, <5>1 DEF CtrlInv, LateInv, ResetInv, Without, CtrlTypeInv
        <5>3. faults = 0 /\ Slack = 1
          BY <3>4, <5>2 DEF Regime, Slack
        <5>4. input = RESET_CMD \/ Owed >= 2
          BY <2>1, <3>4, <5>3 DEF CtrlInv, LateInv, ResetInv
        <5>5. Owed' = Owed - 1 /\ Slack' = Slack /\ Owed \in Nat
          BY <1>0, <1>1, <2>1, <3>1, <3>4, ResetTaken, Counts
        <5> QED
          BY <2>1, <5>2, <5>3, <5>4, <5>5 DEF DoneInv
      <4> QED
        BY <3>3, <4>1, <4>2
    <3> QED
      BY <1>5, <2>1, <3>1, <3>4
  <2> QED
    BY <1>7, <2>2, <2>3, <2>4 DEF ResetAck
<1>8. CASE ResetResult
  <2>1. UNCHANGED <<initialized, id, chip, dev, input, faults, noise>> /\ ctrl_pc = "reset_result"
    BY <1>8 DEF ResetResult, Polling, RetryReset, kernel, outside
  <2>2. CASE TimedOut /\ RetryReset
    <3>1. out' = out /\ ctrl_pc' \in {"reset_send", "init_failed"}
      BY <2>2 DEF TimedOut, RetryReset, GoTo
    <3> QED
      BY <1>2, <1>3, <2>1, <3>1 DEF ResetPcs
  <2>3. CASE (\E byte \in Answers \ {BAT_OK} : Received(byte)) /\ RetryReset
    <3>1. /\ out # <<>> /\ out' = Tail(out)
          /\ ctrl_pc' \in {"reset_result", "reset_send", "init_failed"}
      BY <2>3 DEF Received, RetryReset, GoTo
    <3> QED
      BY <1>4, <2>1, <3>1
  <2>4. CASE Received(BAT_OK) /\ GoTo("reset_done")
    <3>1. out # <<>> /\ out' = Tail(out) /\ ctrl_pc' = "reset_done" /\ Head(out) = BAT_OK
      BY <2>4 DEF Received, GoTo
    <3>2. out[1] = BAT_OK
      BY <1>0, <3>1, TakenEffect
    <3>3. Regime => DoneInv'
      BY <1>0, <1>1, <2>1, <3>1, <3>2, ResultTaken
    <3> QED
      BY <1>5, <2>1, <3>1, <3>3
  <2> QED
    BY <1>8, <2>2, <2>3, <2>4 DEF ResetResult
<1> QED
  BY <1>6, <1>7, <1>8 DEF reset_devices

-----------------------------------------------------------------------------
(* The rest of ps2_init() keeps IInv *)

LEMMA CallKeeps ==
  ASSUME CtrlInv, Base', ctrl_pc \in {"reset_done", "init_failed", "register", "identify"},
         ctrl_pc' \in CallPcs \cup {"failed", "panic"}, UNCHANGED <<chip, out, id, outside>>,
         initialized' => initialized \/ ctrl_pc = "reset_done",
         ctrl_pc' = "id_off" => initialized'
  PROVE  CtrlInv'
<1> USE DEF CallPcs, outside
<1>0. /\ ctrl_pc' \notin SetupPcs \cup ConfPcs \cup NoTransPcs \cup IdentifyPcs \cup StartPcs
                    \cup ResetPcs \cup {"reset_done", "init_failed"}
  BY DEF SetupPcs, ConfPcs, NoTransPcs, IdentifyPcs, StartPcs, ResetPcs
<1>1. OrderInv'
  <2>1. id' = <<>> /\ input' \in {NoInput, RESET_CMD}
    BY DEF CtrlInv, OrderInv, StartPcs
  <2> QED
    BY <1>0, <2>1 DEF OrderInv, IdentifyPcs
<1>2. ContentInv'
  BY <1>0 DEF CtrlInv, ContentInv
<1>3. ASSUME Regime'
      PROVE  LateInv'
  <2>0. Regime /\ LateInv
    BY <1>3 DEF Regime, CtrlInv
  <2>1. SetupInv' /\ ResetInv'
    BY <1>0 DEF SetupInv, ResetInv, ConfPcs, ResetPcs
  <2>2. OnInv'
    BY <1>0, <2>0 DEF LateInv, OnInv
  <2>3. DoneInv'
    <3>1. initialized => ctrl_pc # "init_failed"
      BY DEF CtrlInv, OrderInv, IdentifyPcs, StartPcs
    <3> QED
      BY <2>0, <3>1 DEF LateInv, DoneInv, Good, Owed, Slack
  <2>4. OffInv' /\ CmdInv' /\ AckInv' /\ BytesInv' /\ StartInv'
    BY <1>0 DEF OffInv, CmdInv, AckInv, BytesInv, StartInv, IdentifyPcs
  <2> QED
    BY <2>1, <2>2, <2>3, <2>4 DEF LateInv
<1> QED
  BY <1>1, <1>2, <1>3 DEF CtrlInv

LEMMA IdentifyFrame ==
  ASSUME CtrlInv, Base', ctrl_pc \in {"id_off"} \cup IdentifyPcs \cup StartPcs,
         ctrl_pc' \in IdentifyPcs \cup StartPcs \cup {"failed", "panic"},
         UNCHANGED <<initialized, chip, dev, faults, noise>>,
         OrderInv', ContentInv',
         Regime => OffInv' /\ CmdInv' /\ AckInv' /\ BytesInv' /\ StartInv'
  PROVE  CtrlInv'
<1>1. ASSUME Regime'
      PROVE  LateInv'
  <2>0. Regime /\ LateInv
    BY <1>1 DEF Regime, CtrlInv
  <2>1. ctrl_pc' \notin SetupPcs \cup ConfPcs \cup NoTransPcs \cup CallPcs
                    \cup ResetPcs \cup {"reset_done", "init_failed"}
    BY DEF SetupPcs, ConfPcs, NoTransPcs, IdentifyPcs, StartPcs, ResetPcs, CallPcs
  <2>2. SetupInv' /\ ResetInv' /\ DoneInv'
    BY <2>1 DEF SetupInv, ResetInv, ConfPcs, ResetPcs, DoneInv
  <2>3. OnInv'
    BY <2>0, <2>1 DEF LateInv, OnInv
  <2> QED
    BY <2>0, <2>2, <2>3 DEF LateInv
<1> QED
  BY <1>1 DEF CtrlInv

\* The bytes are sent.
LEMMA IdentifySendKeeps ==
  ASSUME CtrlInv,
         \/ SendByte("id_off", DISABLE_SCANNING, "id_off_ack", "failed")
         \/ SendByte("id_cmd", IDENTIFY, "id_ack", "failed")
  PROVE  CtrlInv'
<1>0. Base /\ CtrlTypeInv /\ Base' /\ CtrlTypeInv'
  BY IdentifyKeepsBase DEF CtrlInv, Base, ps2ctrl_identify_devices
<1>1. UNCHANGED <<initialized, chip, dev, faults, noise, out, id>> /\ initialized
  BY DEF SendByte, kernel, CtrlInv, OrderInv, IdentifyPcs
<1>2. /\ Owed' = Owed /\ Slack' = Slack /\ Owed \in Nat /\ (Regime => Slack \in {0, 1})
  BY <1>0, <1>1, Counts DEF Owed, Slack
<1>a. /\ RESET_CMD # DISABLE_SCANNING /\ RESET_CMD # IDENTIFY
      /\ IDENTIFY # DISABLE_SCANNING /\ NoInput # RESET_CMD
      /\ NoInput # DISABLE_SCANNING /\ NoInput # IDENTIFY
  BY DEF RESET_CMD, DISABLE_SCANNING, IDENTIFY, NoInput
<1> USE DEF IdentifyPcs, StartPcs, GoTo
<1>3. CASE ctrl_pc' = "failed"
  <2>1. OrderInv'
    BY <1>1, <1>3 DEF OrderInv, ResetPcs, SetupPcs, ConfPcs, CallPcs
  <2>2. ContentInv'
    BY <1>3 DEF ContentInv, ResetPcs, SetupPcs, ConfPcs, CallPcs
  <2>3. OffInv' /\ CmdInv' /\ AckInv' /\ BytesInv' /\ StartInv'
    BY <1>3 DEF OffInv, CmdInv, AckInv, BytesInv, StartInv
  <2>4. ctrl_pc \in {"id_off", "id_cmd"}
    BY DEF SendByte
  <2> QED
    BY <1>0, <1>1, <1>3, <2>1, <2>2, <2>3, <2>4, IdentifyFrame
<1>4. CASE /\ ctrl_pc = "id_off" /\ ctrl_pc' = "id_off_ack"
           /\ input = NoInput /\ input' = DISABLE_SCANNING
  <2>0. id = <<>>
    BY <1>4 DEF CtrlInv, OrderInv
  <2>1. OrderInv'
    BY <1>1, <1>4, <2>0 DEF OrderInv, ResetPcs, SetupPcs, ConfPcs, CallPcs
  <2>2. ContentInv'
    BY <1>1, <1>4 DEF CtrlInv, ContentInv, ResetPcs, SetupPcs, ConfPcs, CallPcs
  <2>3. CmdInv' /\ AckInv' /\ BytesInv' /\ StartInv'
    BY <1>4 DEF CmdInv, AckInv, BytesInv, StartInv
  <2>4. ASSUME Regime
        PROVE  OffInv'
    <3>1. (Good /\ (noise = 0 => out = <<>>)) \/ Owed >= 2 - Slack
      BY <1>1, <1>4, <1>a, <2>4 DEF CtrlInv, LateInv, DoneInv, CallPcs
    <3> QED
      BY <1>1, <1>2, <1>4, <1>a, <3>1 DEF OffInv, Good
  <2> QED
    BY <1>0, <1>1, <1>4, <2>1, <2>2, <2>3, <2>4, IdentifyFrame
<1>5. CASE /\ ctrl_pc = "id_cmd" /\ ctrl_pc' = "id_ack"
           /\ input = NoInput /\ input' = IDENTIFY
  <2>1. OrderInv'
    BY <1>1, <1>5 DEF CtrlInv, OrderInv, ResetPcs, SetupPcs, ConfPcs, CallPcs
  <2>2. ContentInv'
    BY <1>1, <1>5 DEF ContentInv, ResetPcs, SetupPcs, ConfPcs, CallPcs
  <2>3. OffInv' /\ CmdInv' /\ BytesInv' /\ StartInv'
    BY <1>5 DEF OffInv, CmdInv, BytesInv, StartInv
  <2>4. ASSUME Regime
        PROVE  AckInv'
    <3>1. Quiet \/ Owed >= 2 - Slack
      BY <1>5, <2>4 DEF CtrlInv, LateInv, CmdInv
    <3>2. Quiet => Quiet'
      BY <1>1, <1>5, <1>a DEF Quiet, Good
    <3>3. \A i \in 1..Len(out) : out[i] \in {ACK, BAT_OK, BAT_BAD, Junk}
      BY <1>5 DEF CtrlInv, ContentInv
    <3>4. Without("AB")'
      BY <1>1, <3>3 DEF Without, ACK, BAT_OK, BAT_BAD, Junk
    <3> QED
      BY <1>2, <1>5, <1>a, <3>1, <3>2, <3>4 DEF AckInv
  <2> QED
    BY <1>0, <1>1, <1>5, <2>1, <2>2, <2>3, <2>4, IdentifyFrame
<1> QED
  BY <1>3, <1>4, <1>5 DEF SendByte

\* The ACKs are waited for.
LEMMA IdentifyAckKeeps ==
  ASSUME CtrlInv, WaitAck("id_off_ack", "id_cmd") \/ WaitAck("id_ack", "id_bytes")
  PROVE  CtrlInv'
<1>0. Base /\ CtrlTypeInv /\ Base' /\ CtrlTypeInv'
  BY IdentifyKeepsBase DEF CtrlInv, Base, ps2ctrl_identify_devices
<1>1. /\ UNCHANGED <<initialized, chip, dev, input, faults, noise, id>>
      /\ ctrl_pc \in {"id_off_ack", "id_ack"} /\ initialized
  BY DEF WaitAck, Polling, kernel, outside, CtrlInv, OrderInv, IdentifyPcs
<1>2. id = <<>>
  BY <1>1 DEF CtrlInv, OrderInv, StartPcs
<1> USE DEF IdentifyPcs, StartPcs, GoTo
<1>3. CASE ctrl_pc' = "failed"
  <2>1. OrderInv'
    BY <1>1, <1>3 DEF OrderInv, ResetPcs, SetupPcs, ConfPcs, CallPcs
  <2>2. ContentInv'
    BY <1>3 DEF ContentInv, ResetPcs, SetupPcs, ConfPcs, CallPcs
  <2>3. OffInv' /\ CmdInv' /\ AckInv' /\ BytesInv' /\ StartInv'
    BY <1>3 DEF OffInv, CmdInv, AckInv, BytesInv, StartInv
  <2> QED
    BY <1>0, <1>1, <1>3, <2>1, <2>2, <2>3, IdentifyFrame
<1>4. ASSUME out # <<>>, out' = Tail(out)
      PROVE  /\ Len(out') = Len(out) - 1 /\ Len(out) \in Nat
             /\ \A i \in 1..Len(out') : out'[i] = out[i + 1]
             /\ Owed' = Owed - 1 /\ Slack' = Slack /\ Owed \in Nat
             /\ Regime => Slack \in {0, 1}
             /\ Quiet => Quiet'
  <2>1. /\ Len(out') = Len(out) - 1 /\ Len(out) \in Nat
        /\ \A i \in 1..Len(out') : out'[i] = out[i + 1]
    BY <1>0, <1>4, TakenEffect, Counts
  <2>2. Owed' = Owed - 1 /\ Owed \in Nat
    BY <1>0, <1>1, <2>1, Counts, CountsNext
  <2>3. Slack' = Slack /\ (Regime => Slack \in {0, 1})
    BY <1>0, <1>1, Counts DEF Slack
  <2>4. Quiet => Quiet'
    BY <1>1 DEF Quiet, Good
  <2> QED
    BY <2>1, <2>2, <2>3, <2>4
<1>5. CASE ctrl_pc = "id_off_ack" /\ ctrl_pc' = "id_cmd" /\ out # <<>> /\ out' = Tail(out)
  <2>1. OrderInv'
    BY <1>1, <1>2, <1>5 DEF CtrlInv, OrderInv, ResetPcs, SetupPcs, ConfPcs, CallPcs
  <2>2. ContentInv'
    <3>1. \A i \in 1..Len(out) : out[i] \in {ACK, BAT_OK, BAT_BAD, Junk}
      BY <1>5 DEF CtrlInv, ContentInv
    <3>2. \A i \in 1..Len(out') : out'[i] \in {ACK, BAT_OK, BAT_BAD, Junk}
      BY <1>4, <1>5, <3>1
    <3> QED
      BY <1>5, <3>2 DEF ContentInv, SetupPcs, ConfPcs
  <2>3. OffInv' /\ AckInv' /\ BytesInv' /\ StartInv'
    BY <1>5 DEF OffInv, AckInv, BytesInv, StartInv
  <2>4. ASSUME Regime
        PROVE  CmdInv'
    <3>0. input \in {NoInput, DISABLE_SCANNING}
      BY <1>5 DEF CtrlInv, OrderInv
    <3>1. \/ Quiet
          \/ /\ input = DISABLE_SCANNING => Owed >= 2 - Slack
             /\ input = NoInput => Owed >= 3 - Slack
      BY <1>5, <2>4, <3>0 DEF CtrlInv, LateInv, OffInv, Quiet
    <3>2. CASE Quiet
      BY <1>4, <1>5, <3>2 DEF CmdInv
    <3>3. CASE /\ input = DISABLE_SCANNING => Owed >= 2 - Slack
               /\ input = NoInput => Owed >= 3 - Slack
      <4>1. Owed' = Owed - 1 /\ Slack' = Slack /\ Owed \in Nat /\ Slack \in {0, 1}
        BY <1>4, <1>5, <2>4
      <4>2. /\ input = DISABLE_SCANNING => Owed' >= 1 - Slack'
            /\ input = NoInput => Owed' >= 2 - Slack'
        BY <3>3, <4>1
      <4> QED
        BY <1>1, <4>2 DEF CmdInv
    <3> QED
      BY <3>1, <3>2, <3>3
  <2> QED
    BY <1>0, <1>1, <1>5, <2>1, <2>2, <2>3, <2>4, IdentifyFrame
<1>6. CASE ctrl_pc = "id_ack" /\ ctrl_pc' = "id_bytes" /\ out # <<>> /\ out' = Tail(out)
  <2>1. OrderInv'
    <3>1. Len(<<>>) = 0
      OBVIOUS
    <3> QED
      BY <1>1, <1>2, <1>6, <3>1 DEF CtrlInv, OrderInv, ResetPcs, SetupPcs, ConfPcs, CallPcs
  <2>2. ContentInv'
    BY <1>6 DEF ContentInv, ResetPcs, SetupPcs, ConfPcs, CallPcs
  <2>3. OffInv' /\ CmdInv' /\ AckInv' /\ StartInv'
    BY <1>6 DEF OffInv, CmdInv, AckInv, StartInv
  <2>4. ASSUME Regime
        PROVE  BytesInv'
    <3>1. \/ Quiet
          \/ /\ input = IDENTIFY => Owed >= 2 - Slack /\ Without("AB")
             /\ input = NoInput => NoneBefore("AB", 4 - Slack)
      BY <1>6, <2>4 DEF CtrlInv, LateInv, AckInv
    <3>2. CASE Quiet
      BY <1>4, <1>6, <3>2 DEF BytesInv
    <3>3. CASE /\ input = IDENTIFY => Owed >= 2 - Slack /\ Without("AB")
               /\ input = NoInput => NoneBefore("AB", 4 - Slack)
      <4>1. Owed' = Owed - 1 /\ Slack' = Slack /\ Owed \in Nat /\ Slack \in {0, 1}
        BY <1>4, <1>6, <2>4
      <4>2. Without("AB") => Without("AB")'
        BY <1>4, <1>6 DEF Without
      <4>3. NoneBefore("AB", 4 - Slack) => NoneBefore("AB", 3 - Slack)'
        <5>1. ASSUME NEW n \in Nat, \A i \in 1..Len(out) : out[i] = "AB" => i >= n
              PROVE  \A i \in 1..Len(out') : out'[i] = "AB" => i >= n - 1
          BY <1>4, <1>6, <5>1
        <5>2. 4 - Slack \in Nat /\ (4 - Slack) - 1 = 3 - Slack
          BY <4>1
        <5> QED
          BY <4>1, <5>1, <5>2 DEF NoneBefore
      <4>4. /\ input = IDENTIFY => Owed' >= 1 - Slack' /\ Without("AB")'
            /\ input = NoInput => NoneBefore("AB", 3 - Slack)'
        BY <3>3, <4>1, <4>2, <4>3
      <4> QED
        BY <1>1, <1>2, <4>4 DEF BytesInv
    <3> QED
      BY <3>1, <3>2, <3>3
  <2> QED
    BY <1>0, <1>1, <1>6, <2>1, <2>2, <2>3, <2>4, IdentifyFrame
<1> QED
  BY <1>3, <1>5, <1>6 DEF WaitAck, Polling, Received

\* The identification bytes are read.
LEMMA IdentifyBytesKeeps ==
  ASSUME CtrlInv, IdentifyBytes
  PROVE  CtrlInv'
<1>0. Base /\ CtrlTypeInv /\ Base' /\ CtrlTypeInv'
  BY IdentifyKeepsBase DEF CtrlInv, Base, ps2ctrl_identify_devices
<1>1. /\ UNCHANGED <<initialized, chip, dev, input, faults, noise>>
      /\ ctrl_pc = "id_bytes" /\ ctrl_pc' \in {"id_bytes", "id_type"}
      /\ ctrl_pc' = "id_bytes" => Len(id) = 0 \/ ctrl_pc' = "id_type"
  BY DEF IdentifyBytes, Polling, outside, GoTo
<1>2. /\ initialized /\ id \in Seq(Answers) /\ Len(id) \in Nat /\ Len(id) <= 1
      /\ (Len(id) = 0 <=> id = <<>>) /\ input \in {NoInput, IDENTIFY}
  BY <1>0, <1>1 DEF CtrlInv, OrderInv, CtrlTypeInv, IdentifyPcs
<1> USE DEF IdentifyPcs, StartPcs
<1>3. /\ ctrl_pc' = "id_bytes" => Len(id') <= 1
      /\ Regime => Quiet' \/ id' = <<>> \/ id'[1] # "AB"
      /\ ctrl_pc' = "id_bytes" => id' # <<>>
  <2>1. Quiet => Quiet'
    BY <1>1 DEF Quiet, Good
  <2>2. Regime =>
          \/ Quiet
          \/ /\ id = <<>> => NoneBefore("AB", 2)
             /\ id # <<>> => id[1] # "AB"
    <3> SUFFICES ASSUME Regime, ~ Quiet, id = <<>>
                 PROVE  NoneBefore("AB", 2)
      BY <1>1 DEF CtrlInv, LateInv, BytesInv
    <3>1. Without("AB") \/ NoneBefore("AB", 3 - Slack)
      BY <1>1, <1>2 DEF CtrlInv, LateInv, BytesInv
    <3>2. Slack \in {0, 1} /\ Len(out) \in Nat
      BY <1>0, Counts
    <3> QED
      BY <3>1, <3>2 DEF NoneBefore, Without
  <2>3. CASE TimedOut /\ GoTo("id_type") /\ UNCHANGED id
    <3>1. ctrl_pc' = "id_type" /\ id' = id
      BY <2>3 DEF GoTo
    <3> QED
      BY <2>1, <2>2, <3>1
  <2>4. ASSUME NEW byte \in Answers, Received(byte), id' = Append(id, byte)
        PROVE  /\ Len(id') = Len(id) + 1 /\ id' # <<>>
               /\ Regime => Quiet' \/ id'[1] # "AB"
    <3>1. /\ Len(id') = Len(id) + 1
          /\ \A i \in 1..Len(id) : id'[i] = id[i]
          /\ id'[Len(id) + 1] = byte
      BY <1>2, <2>4, AddLast
    <3>2. id' # <<>>
      <4>1. Len(<<>>) = 0
        OBVIOUS
      <4> QED
        BY <1>2, <3>1, <4>1
    <3>3. byte = out[1] /\ Len(out) >= 1 /\ Len(out) \in Nat
      BY <1>0, <2>4, TakenEffect, Counts DEF Received
    <3>4. ASSUME Regime, ~ Quiet
          PROVE  id'[1] # "AB"
      <4>1. CASE id = <<>>
        <5>1. NoneBefore("AB", 2) /\ id'[1] = byte
          BY <1>2, <2>2, <3>1, <3>4, <4>1
        <5>2. 1 \in 1..Len(out)
          BY <3>3
        <5>3. out[1] # "AB"
          BY <5>1, <5>2 DEF NoneBefore
        <5> QED
          BY <3>3, <5>1, <5>3
      <4>2. CASE id # <<>>
        <5>1. 1 \in 1..Len(id) /\ id[1] # "AB"
          BY <1>2, <2>2, <3>4, <4>2
        <5> QED
          BY <3>1, <5>1
      <4> QED
        BY <4>1, <4>2
    <3> QED
      BY <2>1, <3>1, <3>2, <3>4
  <2>5. CASE \E byte \in Answers : Received(byte) /\ id' = Append(id, byte)
    <3>1. /\ Len(id') = Len(id) + 1 /\ id' # <<>>
          /\ Regime => Quiet' \/ id'[1] # "AB"
      BY <2>4, <2>5
    <3> QED
      BY <1>1, <1>2, <3>1
  <2> QED
    BY <2>3, <2>5 DEF IdentifyBytes
<1>4. OrderInv'
  BY <1>1, <1>2, <1>3 DEF OrderInv, ResetPcs, SetupPcs, ConfPcs, CallPcs
<1>5. ContentInv'
  BY <1>1 DEF ContentInv, ResetPcs, SetupPcs, ConfPcs, CallPcs
<1>6. OffInv' /\ CmdInv' /\ AckInv'
  BY <1>1 DEF OffInv, CmdInv, AckInv
<1>7. Regime => BytesInv' /\ StartInv'
  BY <1>1, <1>3 DEF BytesInv, StartInv
<1> QED
  BY <1>0, <1>1, <1>4, <1>5, <1>6, <1>7, IdentifyFrame

\* The driver is installed and started.
LEMMA InstallKeeps ==
  ASSUME CtrlInv, Install \/ ps2ctrl_start_drivers
  PROVE  CtrlInv'
<1>0. Base /\ CtrlTypeInv /\ Base' /\ CtrlTypeInv'
  BY IdentifyKeepsBase DEF CtrlInv, Base, ps2ctrl_identify_devices
<1> USE DEF IdentifyPcs, StartPcs
<1>1. /\ UNCHANGED <<initialized, chip, dev, input, faults, noise, id, out>>
      /\ ctrl_pc \in {"id_type", "start", "unmask"}
      /\ ctrl_pc' \in {"start", "unmask", "started", "failed", "panic"}
  BY DEF Install, ps2ctrl_start_drivers, outside, GoTo
<1>2. initialized /\ input \in {NoInput, IDENTIFY}
  BY <1>1 DEF CtrlInv, OrderInv
<1>3. ASSUME Regime, ctrl_pc' \in StartPcs
      PROVE  Quiet
  <2>1. CASE ctrl_pc = "id_type"
    <3>1. Install
      BY <2>1 DEF ps2ctrl_start_drivers
    <3>2. device_type_from_id_bytes(id) \in drivers
      BY <1>3, <3>1 DEF Install, GoTo
    <3>3. device_type_from_id_bytes(id) = "mf2"
      BY <1>0, <3>2 DEF Base, DrivenInv
    <3>4. id = <<"AB", "83">>
      BY <3>3, KeyboardType
    <3>5. id # <<>> /\ id[1] = "AB"
      BY <3>4
    <3> QED
      BY <1>3, <2>1, <3>5 DEF CtrlInv, LateInv, StartInv
  <2>2. CASE ctrl_pc \in StartPcs
    BY <1>3, <2>2 DEF CtrlInv, LateInv, StartInv
  <2> QED
    BY <1>1, <2>1, <2>2
<1>4. OrderInv'
  BY <1>1, <1>2 DEF OrderInv, ResetPcs, SetupPcs, ConfPcs, CallPcs
<1>5. ContentInv'
  BY <1>1 DEF ContentInv, ResetPcs, SetupPcs, ConfPcs, CallPcs
<1>6. OffInv' /\ CmdInv' /\ AckInv' /\ BytesInv'
  BY <1>1 DEF OffInv, CmdInv, AckInv, BytesInv
<1>7. Regime => StartInv'
  <2>1. Quiet => Quiet'
    BY <1>1 DEF Quiet, Good
  <2> QED
    BY <1>1, <1>3, <2>1 DEF StartInv
<1> QED
  BY <1>0, <1>1, <1>4, <1>5, <1>6, <1>7, IdentifyFrame

LEMMA StepInv == CtrlInv /\ [CtrlNext]_ctrl_vars => CtrlInv'
<1> SUFFICES ASSUME CtrlInv, [CtrlNext]_ctrl_vars PROVE CtrlInv'
  OBVIOUS
<1>0. Base'
  BY BaseStep DEF CtrlInv
<1>1. CASE UNCHANGED ctrl_vars
  <2>1. OrderInv' /\ ContentInv'
    BY <1>1 DEF ctrl_vars, kernel, outside, CtrlInv, OrderInv, ContentInv
  <2>2. ASSUME Regime'
        PROVE  LateInv'
    <3>0. LateInv
      BY <1>1, <2>2 DEF CtrlInv, Regime, ctrl_vars, outside
    <3>1. SetupInv' /\ OnInv' /\ ResetInv' /\ DoneInv'
      BY <1>1, <3>0 DEF ctrl_vars, kernel, outside, LateInv, SetupInv, OnInv, ResetInv, DoneInv,
                        Owed, Slack, Without, Good
    <3>2. OffInv' /\ CmdInv' /\ AckInv' /\ BytesInv' /\ StartInv'
      BY <1>1, <3>0 DEF ctrl_vars, kernel, outside, LateInv, OffInv, CmdInv, AckInv, BytesInv,
                        StartInv, Owed, Slack, Without, NoneBefore, Good, Quiet
    <3> QED
      BY <3>1, <3>2 DEF LateInv
  <2> QED
    BY <1>0, <2>1, <2>2 DEF CtrlInv
<1>2. CASE Device
  BY <1>2, DeviceKeeps
<1>3. CASE InitEnds \/ InitFailed \/ ps2ctrl_register_driver
  <2>1. /\ ctrl_pc \in {"reset_done", "init_failed", "register"}
        /\ ctrl_pc' \in {"register", "identify", "panic"}
        /\ UNCHANGED <<chip, out, id, outside>>
        /\ initialized' => initialized \/ ctrl_pc = "reset_done"
    BY <1>3 DEF InitEnds, InitFailed, ps2ctrl_register_driver, GoTo, kernel
  <2> QED
    BY <1>0, <2>1, CallKeeps DEF CallPcs
<1>4. CASE /\ ctrl_pc = "identify"
           /\ GoTo(IF initialized THEN "id_off" ELSE "failed")
           /\ UNCHANGED <<conf_byte, kernel, chip, out, outside>>
  <2>1. /\ ctrl_pc' \in {"id_off", "failed"} /\ (ctrl_pc' = "id_off" => initialized')
        /\ UNCHANGED <<chip, out, id, outside, initialized>>
    BY <1>4 DEF GoTo, kernel
  <2> QED
    BY <1>0, <1>4, <2>1, CallKeeps DEF CallPcs
<1>5. CASE ps2_init
  BY <1>3, <1>4, <1>5, SetupKeeps, ResetKeeps, IdentifySendKeeps, IdentifyAckKeeps,
     IdentifyBytesKeeps, InstallKeeps DEF ps2_init, ps2ctrl_identify_devices
<1> QED
  BY <1>1, <1>2, <1>5 DEF CtrlNext

LEMMA InitInv == CtrlInit => CtrlInv
<1> SUFFICES ASSUME CtrlInit PROVE CtrlInv
  OBVIOUS
<1>0. Base
  BY BaseInit
<1>1. /\ ctrl_pc = "disable1" /\ ~ initialized /\ input = NoInput /\ id = <<>>
      /\ noise = 0 /\ faults = 0 /\ ~ dev.testing
  BY DEF CtrlInit
<1>2. Len(out) <= 1 /\ \A i \in 1..Len(out) : out[i] = Junk
  <2>1. CASE out = <<>>
    BY <2>1
  <2>2. CASE out = <<Junk>>
    BY <2>2
  <2> QED
    BY <2>1, <2>2 DEF CtrlInit
<1> USE DEF SetupPcs, ConfPcs, ResetPcs, CallPcs, IdentifyPcs, StartPcs, NoTransPcs
<1>3. OrderInv
  BY <1>1 DEF OrderInv
<1>4. ContentInv
  BY <1>1, <1>2 DEF ContentInv
<1>5. LateInv
  BY <1>1, <1>2 DEF LateInv, SetupInv, OnInv, ResetInv, DoneInv, OffInv, CmdInv, AckInv,
                    BytesInv, StartInv
<1> QED
  BY <1>0, <1>3, <1>4, <1>5 DEF CtrlInv

\* What ps2_init() has seen of the device and what is still to come, at every
\* step.
THEOREM CtrlInvariance == CtrlSpec => []CtrlInv
<1> QED
  BY InitInv, StepInv, PTL DEF CtrlSpec

\* What keyboard_start() assumes (keyboard.c:996) holds when ps2_init() starts
\* the driver, for any number of keys and of lost bytes: after at most one
\* lost byte and no key the port, its interrupt and the translation are as
\* they must be, scanning is off and the device has passed its self-test; and
\* keys alone do not make an untested device pass for a tested one, although
\* reset_devices() goes on after any byte it does not know.
THEOREM Assumptions == CtrlSpec => []StartAssumptionsHold
<1>1. CtrlInv => StartAssumptionsHold
  <2> SUFFICES ASSUME CtrlInv, ctrl_pc = "started", Regime
               PROVE  /\ noise = 0 => ~ chip.off1 /\ chip.irq1 /\ ~ chip.trans
                                        /\ ~ dev.scanning
                      /\ dev.tested
    BY DEF StartAssumptionsHold, Regime
  <2>1. LateInv /\ initialized /\ Quiet
    BY DEF CtrlInv, OrderInv, LateInv, StartInv, StartPcs
  <2> QED
    BY <2>1 DEF LateInv, OnInv, Quiet, Good
<1> QED
  BY <1>1, CtrlInvariance, PTL

-----------------------------------------------------------------------------
(***************************************************************************)
(* The kernel around the driver, module KernelLoop, for every set of       *)
(* devices, every width of the tick counter, every quantum, clock          *)
(* frequency and set of timeouts: the kernel leaves the interrupt          *)
(* controllers as it should, whatever device requests an interrupt between *)
(* two statements, and no wait is cut short.                               *)
(***************************************************************************)
BootPcs == {"setup_idt", "irq_init", "clock_init", "enable"}

\* The statements of ps2driver_read().
ReadPcs == {"lock_in", "lock_out", "unlock_in", "unlock_out", "test", "sleep",
            "return"}

LoopPcs == {"ps2_init", "start_out", "sched", "slice"}

\* Between these two statements the driver has masked its line.
LineLocked == kernel_pc \in {"unlock_in", "unlock_out"}

LoopTypeInv ==
  /\ kernel_pc \in BootPcs \cup LoopPcs \cup ReadPcs
  /\ imr \in [Chips -> SUBSET (0..7)]
  /\ irr \subseteq Devices
  /\ irq_line \in {IRQ0_CLOCK, IRQ1_KEYBOARD}
  /\ caller \in {"none", "task", "ps2_init"}
  /\ intr_flag \in BOOLEAN

\* During the set-up the flag keeps all interrupts away, and the masks are as
\* far as irq_init() and clock_init() have brought them.
LoopSetupInv ==
  /\ kernel_pc \in BootPcs => ~ intr_flag /\ irq_line = IRQ0_CLOCK
  /\ kernel_pc \in {"clock_init", "enable"} =>
       imr["slave"] = 0..7 /\ 0..7 \ imr["master"] \subseteq {IRQ0_CLOCK}
  /\ kernel_pc = "enable" => IRQ0_CLOCK \notin imr["master"]
  /\ kernel_pc \notin {"setup_idt", "irq_init"} => offset = [master |-> 32, slave |-> 40]

\* After it, the lines that are not masked are those with a driver, up to the
\* lock; a value read from the mask register is still what is in it, since no
\* handler writes it.
MaskInv ==
  kernel_pc \notin BootPcs =>
    /\ imr["slave"] = 0..7
    /\ 0..7 \ imr["master"] =
         {IRQ0_CLOCK, irq_line} \ (IF LineLocked THEN {irq_line} ELSE {})
    /\ kernel_pc \in {"start_out", "lock_out", "unlock_out"} => port = imr["master"]
    /\ kernel_pc = "start_out" => irq_line = IRQ0_CLOCK

\* No handler is left without its end, and none is missing.
ServedInv ==
  /\ panicked \in {"no", "tick overflow", "sleep overflow", "spurious"}
  /\ panicked = "no" => in_service = {}

LinesInv == LoopTypeInv /\ LoopSetupInv /\ MaskInv /\ ServedInv

-----------------------------------------------------------------------------
(* The controllers *)

\* A line that gets through to the processor has a driver and a vector of its
\* own: the clock or the keyboard.
LEMMA OnlyDrivenLines ==
  ASSUME LinesInv, panicked = "no", NEW irq \in Devices, Deliverable(irq)
  PROVE  /\ irq \in {IRQ0_CLOCK, IRQ1_KEYBOARD}
         /\ Vector(irq) = 32 + irq
         /\ Acknowledged(irq) = {irq}
<1>1. irq \in 0..15 /\ intr_flag /\ Bit(irq) \notin imr[Chip(irq)]
  BY DevicesAssumption DEF Deliverable, Passes
<1>2. kernel_pc \notin BootPcs
  BY <1>1 DEF LinesInv, LoopSetupInv
<1>3. Bit(irq) \in 0..7
  BY <1>1 DEF Bit
<1>4. irq < 8
  BY <1>1, <1>2, <1>3 DEF Chip, LinesInv, MaskInv
<1>5. Bit(irq) = irq /\ Chip(irq) = "master"
  BY <1>1, <1>4 DEF Bit, Chip
<1>6. irq \in {IRQ0_CLOCK, irq_line}
  BY <1>1, <1>2, <1>3, <1>5 DEF LinesInv, MaskInv
<1>7. offset["master"] = 32
  BY <1>2 DEF LinesInv, LoopSetupInv, BootPcs
<1>8. irq \in {IRQ0_CLOCK, IRQ1_KEYBOARD}
  BY <1>6 DEF LinesInv, LoopTypeInv
<1>9. Acknowledged(irq) = {irq}
  BY <1>1, <1>4 DEF Acknowledged, LinesInv, ServedInv
<1> QED
  BY <1>5, <1>7, <1>8, <1>9 DEF Vector

\* The unspecific EOI of the handler ends the service of its own line.
LEMMA EoiEndsService ==
  ASSUME NEW irq \in {IRQ0_CLOCK, IRQ1_KEYBOARD}
  PROVE  irq_send_eoi({irq}, irq) = {}
BY DEF irq_send_eoi, MostUrgent, Chip, IRQ0_CLOCK, IRQ1_KEYBOARD

LEMMA InitLines == KernelInit => LinesInv
BY DEF KernelInit, InterruptsInit, LinesInv, LoopTypeInv, LoopSetupInv, MaskInv, ServedInv,
       BootPcs, LineLocked, Chips, IRQ0_CLOCK

LEMMA InterruptLines ==
  ASSUME LinesInv, NEW irq \in Devices, Interrupt(irq)
  PROVE  LinesInv'
<1>1. /\ irq \in {IRQ0_CLOCK, IRQ1_KEYBOARD}
      /\ Vector(irq) = 32 + irq
      /\ Acknowledged(irq) = {irq}
  BY OnlyDrivenLines DEF Interrupt
<1>2. LET after == isr_handler(32 + irq, {irq})
      IN  after.panicked \in {"no", "tick overflow"}
          /\ (after.panicked = "no" => after.served = {})
  <2>1. CASE irq = 0
    BY <2>1, EoiEndsService DEF isr_handler, clock_irq_handler, IRQ0_CLOCK
  <2>2. CASE irq = 1
    BY <2>2, EoiEndsService DEF isr_handler, ps2ctrl_irq1_handler, IRQ1_KEYBOARD
  <2> QED
    BY <1>1, <2>1, <2>2 DEF IRQ0_CLOCK, IRQ1_KEYBOARD
<1>3. ServedInv'
  BY <1>1, <1>2 DEF Interrupt, ServedInv
<1>4. UNCHANGED <<idt, offset, imr, intr_flag, kernel_pc, irq_line, port, caller>>
      /\ irr' \subseteq irr
  BY DEF Interrupt, locals
<1> QED
  BY <1>3, <1>4 DEF LinesInv, LoopTypeInv, LoopSetupInv, MaskInv, LineLocked

\* Steps that leave the lines, the controllers and the kernel's place alone.
LEMMA LinesFrame ==
  ASSUME LinesInv, UNCHANGED <<pic, locals, kernel_pc, panicked>>
  PROVE  LinesInv'
<1> USE DEF pic, locals, LinesInv
<1>1. LoopTypeInv'
  BY DEF LoopTypeInv
<1>2. LoopSetupInv' /\ MaskInv' /\ ServedInv'
  BY DEF LoopSetupInv, MaskInv, ServedInv, LineLocked
<1> QED
  BY <1>1, <1>2

\* A statement of the kernel: only the writes of the lock, of the unlock and of
\* the start change the masks, and each has just read what it writes back.
LEMMA KernelLines ==
  ASSUME LinesInv, Kernel \/ LockWritesTooLate
  PROVE  LinesInv'
<1> USE DEF LinesInv, LoopTypeInv, LoopSetupInv, MaskInv, ServedInv, LineLocked, BootPcs,
            LoopPcs, ReadPcs, IRQ0_CLOCK, IRQ1_KEYBOARD, locals, pic
<1>1. CASE SetupIdt
  BY <1>1 DEF SetupIdt, Step, setup_idt
<1>2. CASE IrqInit
  BY <1>2 DEF IrqInit, Step, irq_init, Chips
<1>3. CASE clock_init
  BY <1>3 DEF clock_init, irq_clear_mask, Bit, Chips
<1>4. CASE EnableInterrupts
  BY <1>4 DEF EnableInterrupts, Step, enable_interrupts
<1>5. CASE StartFails \/ StartReturns
  BY <1>5 DEF StartFails, StartReturns, Step
<1>6. CASE StartReads
  BY <1>6 DEF StartReads, Step
<1>7. CASE StartWrites
  BY <1>7 DEF StartWrites, Step, irq_clear_mask, Bit, Chips
<1>8. CASE SliceStarts \/ SliceEnds \/ TaskReads
  BY <1>8 DEF SliceStarts, SliceEnds, TaskReads, Step
<1>9. CASE \E length \in TimeoutsMs : StartCalls(length)
  BY <1>9 DEF StartCalls, Step
<1>10. CASE LockReads \/ UnlockReads
  BY <1>10 DEF LockReads, UnlockReads, Step
<1>11. CASE LockWrites
  BY <1>11 DEF LockWrites, Lock, Step, irq_set_mask, Bit, Chips
<1>12. CASE UnlockWrites
  BY <1>12 DEF UnlockWrites, Step, irq_clear_mask, Bit, Chips
<1>13. CASE Found \/ GivesUp \/ Spins \/ WakesUp \/ Returns
  <2>1. CASE Found \/ GivesUp
    BY <2>1 DEF Found, GivesUp, Step
  <2>2. CASE Spins
    <3>1. UNCHANGED <<pic, locals, kernel_pc, panicked>>
      BY <2>2 DEF Spins, Step
    <3> QED
      BY <3>1, LinesFrame
  <2>3. CASE WakesUp
    BY <2>3 DEF WakesUp, Step
  <2>4. CASE Returns
    BY <2>4 DEF Returns, Step
  <2> QED
    BY <1>13, <2>1, <2>2, <2>3, <2>4
<1>14. CASE Sleeps
  BY <1>14 DEF Sleeps, clock_sleep
<1>15. CASE LockWritesTooLate
  BY <1>15 DEF LockWritesTooLate, Lock, irq_set_mask, Bit, Chips
<1> QED
  BY <1>1, <1>2, <1>3, <1>4, <1>5, <1>6, <1>7, <1>8, <1>9, <1>10, <1>11, <1>12,
     <1>13, <1>14, <1>15 DEF Kernel

LEMMA NextLines == LinesInv /\ [KernelNext]_kernel_vars => LinesInv'
<1> SUFFICES ASSUME LinesInv, [KernelNext]_kernel_vars PROVE LinesInv'
  OBVIOUS
<1>1. CASE Kernel \/ LockWritesTooLate
  BY <1>1, KernelLines
<1>2. ASSUME NEW irq \in Devices, DeviceRequests(irq) PROVE LinesInv'
  BY <1>2 DEF DeviceRequests, Request, LinesInv, LoopTypeInv, LoopSetupInv, MaskInv,
              ServedInv, LineLocked, locals
<1>3. ASSUME NEW irq \in Devices, Interrupt(irq) PROVE LinesInv'
  BY <1>3, InterruptLines
<1>4. CASE UNCHANGED kernel_vars
  BY <1>4, LinesFrame DEF kernel_vars
<1> QED
  BY <1>1, <1>2, <1>3, <1>4 DEF KernelNext

THEOREM LinesInvariance == KernelSpec => []LinesInv
<1>1. LinesInv /\ [KernelNext]_kernel_vars => LinesInv'
  BY NextLines
<1> QED
  BY <1>1, InitLines, PTL DEF KernelSpec

\* No interrupt that comes between the read and the write of a mask register
\* leaves the kernel with the clock masked, a line in service or a vector
\* without a handler.
THEOREM LinesServed == KernelSpec => []LinesStayServed
<1>1. LinesInv => LinesStayServed
  BY DEF LinesInv, MaskInv, ServedInv, LinesStayServed, Running, LineLocked, BootPcs
<1> QED
  BY <1>1, LinesInvariance, PTL

-----------------------------------------------------------------------------
(* The waits *)

\* While the kernel runs, the counter has not overflowed.
TickInv == tick \in Int /\ (panicked = "no" => tick \in 0..IntMax)

\* The sleep under way: its target has not overflowed, or the kernel stopped.
SleepInv ==
  /\ sleep_from \in Nat
  /\ kernel_pc = "sleep" /\ panicked = "no" => target_tick = sleep_from + SleepLength

\* The target of a timeout is the sum as the machine computes it.
TimeoutInv ==
  /\ timeout_from \in Nat /\ timeo.length \in Nat
  /\ timeo.target = Int32(timeout_from + timeo.length)

\* So is the end of the time slice, also while the task reads in it.
SliceInv ==
  /\ slice_from \in Nat
  /\ caller \in {"none", "task", "ps2_init"}
  /\ caller # "none" => kernel_pc \in ReadPcs
  /\ kernel_pc = "slice" \/ caller = "task" => end_tick = Int32(slice_from + Quantum)

WaitsInv == TickInv /\ SleepInv /\ TimeoutInv /\ SliceInv

LEMMA LoopConstants ==
  /\ IntMax \in Nat /\ Quantum \in Nat /\ SleepLength \in Nat
  /\ SleepLength <= IntMax /\ CLOCK_FREQ \in Nat
BY KernelLoopAssumption, SleepAssumption

LEMMA Int32Facts ==
  ASSUME NEW n \in Nat
  PROVE  /\ Int32(n) \in Int
         /\ n <= IntMax => Int32(n) = n
         /\ n > IntMax /\ n <= 2 * IntMax + 1 => Int32(n) < 0
BY LoopConstants DEF Int32

LEMMA InitWaits == KernelInit => WaitsInv
BY LoopConstants DEF KernelInit, InterruptsInit, WaitsInv, TickInv, SleepInv, TimeoutInv, SliceInv,
       NoTimeout, Int32

\* A timeout of so many milliseconds is a whole number of ticks.
LEMMA TimeoutTicks ==
  ASSUME NEW length \in TimeoutsMs \cup {0}
  PROVE  (length * CLOCK_FREQ) \div 1000 \in Nat
<1>1. length \in Nat /\ CLOCK_FREQ \in Nat
  BY LoopConstants, KernelLoopAssumption
<1>2. length * CLOCK_FREQ \in Nat
  BY <1>1
<1> QED
  BY <1>2

LEMMA KernelWaits ==
  ASSUME WaitsInv, Kernel \/ LockWritesTooLate
  PROVE  WaitsInv'
<1> USE LoopConstants DEF WaitsInv, TickInv, SliceInv, ReadPcs, locals, waits
<1>1. CASE SetupIdt \/ IrqInit \/ EnableInterrupts
  BY <1>1 DEF SetupIdt, IrqInit, EnableInterrupts, Step, SleepInv, TimeoutInv
<1>2. CASE clock_init
  BY <1>2 DEF clock_init, SleepInv, TimeoutInv
<1>3. CASE StartFails \/ StartReads \/ StartWrites \/ StartReturns
  BY <1>3 DEF StartFails, StartReads, StartWrites, StartReturns, Step, SleepInv,
              TimeoutInv
<1>4. CASE SliceStarts \/ SliceEnds
  BY <1>4 DEF SliceStarts, SliceEnds, Step, SleepInv, TimeoutInv
<1>5. CASE TaskReads
  <2>1. (0 * CLOCK_FREQ) \div 1000 \in Nat
    BY TimeoutTicks
  <2> QED
    BY <1>5, <2>1 DEF TaskReads, timeout_start, Step, SleepInv, TimeoutInv
<1>6. ASSUME NEW length \in TimeoutsMs, StartCalls(length) PROVE WaitsInv'
  <2>1. (length * CLOCK_FREQ) \div 1000 \in Nat
    BY TimeoutTicks
  <2> QED
    BY <1>6, <2>1 DEF StartCalls, timeout_start, Step, SleepInv, TimeoutInv
<1>7. CASE LockReads \/ LockWrites \/ UnlockReads \/ UnlockWrites
  BY <1>7 DEF LockReads, LockWrites, UnlockReads, UnlockWrites, Step, SleepInv,
              TimeoutInv
<1>8. CASE Found \/ GivesUp \/ Spins
  BY <1>8 DEF Found, GivesUp, Spins, Step, SleepInv, TimeoutInv
<1>9. CASE WakesUp
  BY <1>9 DEF WakesUp, Step, SleepInv, TimeoutInv
<1>10. CASE Returns
  BY <1>10, Int32Facts DEF Returns, Step, SleepInv, TimeoutInv, NoTimeout
<1>11. CASE Sleeps
  <2>1. panicked' = "no" => target_tick' = tick + SleepLength
    BY <1>11, Int32Facts DEF Sleeps, clock_sleep
  <2> QED
    BY <1>11, <2>1 DEF Sleeps, SleepInv, TimeoutInv
<1>12. CASE LockWritesTooLate
  BY <1>12 DEF LockWritesTooLate, SleepInv, TimeoutInv
<1> QED
  BY <1>1, <1>2, <1>3, <1>4, <1>5, <1>6, <1>7, <1>8, <1>9, <1>10, <1>11, <1>12
     DEF Kernel

\* A tick counts one up, and the handler stops the kernel when that overflows.
LEMMA InterruptWaits ==
  ASSUME LinesInv, WaitsInv, NEW irq \in Devices, Interrupt(irq)
  PROVE  WaitsInv'
<1>1. /\ irq \in {0, 1}
      /\ Vector(irq) = 32 + irq
  BY OnlyDrivenLines DEF Interrupt, IRQ0_CLOCK, IRQ1_KEYBOARD
<1>2. UNCHANGED <<kernel_pc, caller, waits>> /\ panicked = "no"
  BY DEF Interrupt, locals
<1>3. TickInv'
  <2>1. CASE irq = 0
    <3>1. isr_handler(Vector(irq), Acknowledged(irq))
            = clock_irq_handler(Acknowledged(irq))
      BY <1>1, <2>1 DEF isr_handler
    <3>2. LET after == clock_irq_handler(Acknowledged(irq))
          IN  /\ after.tick = Int32(tick + 1)
              /\ Int32(tick + 1) < 0 => after.panicked # "no"
      BY DEF clock_irq_handler
    <3>3. tick' = Int32(tick + 1) /\ (Int32(tick + 1) < 0 => panicked' # "no")
      BY <3>1, <3>2 DEF Interrupt
    <3>4. tick \in 0..IntMax
      BY <1>2 DEF WaitsInv, TickInv
    <3> QED
      BY <3>3, <3>4, Int32Facts, LoopConstants DEF TickInv
  <2>2. CASE irq = 1
    <3>1. isr_handler(Vector(irq), Acknowledged(irq))
            = ps2ctrl_irq1_handler(Acknowledged(irq))
      BY <1>1, <2>2 DEF isr_handler
    <3>2. tick' = tick
      BY <3>1 DEF Interrupt, ps2ctrl_irq1_handler
    <3> QED
      BY <1>2, <3>2 DEF WaitsInv, TickInv
  <2> QED
    BY <1>1, <2>1, <2>2
<1> QED
  BY <1>2, <1>3 DEF WaitsInv, SleepInv, TimeoutInv, SliceInv, waits

LEMMA NextWaits ==
  LinesInv /\ WaitsInv /\ [KernelNext]_kernel_vars => WaitsInv'
<1> SUFFICES ASSUME LinesInv, WaitsInv, [KernelNext]_kernel_vars PROVE WaitsInv'
  OBVIOUS
<1>1. CASE Kernel \/ LockWritesTooLate
  BY <1>1, KernelWaits
<1>2. ASSUME NEW irq \in Devices, DeviceRequests(irq) PROVE WaitsInv'
  BY <1>2 DEF DeviceRequests, locals, waits, WaitsInv, TickInv, SleepInv, TimeoutInv,
              SliceInv
<1>3. ASSUME NEW irq \in Devices, Interrupt(irq) PROVE WaitsInv'
  BY <1>3, InterruptWaits
<1>4. CASE UNCHANGED kernel_vars
  BY <1>4 DEF kernel_vars, locals, waits, WaitsInv, TickInv, SleepInv, TimeoutInv, SliceInv
<1> QED
  BY <1>1, <1>2, <1>3, <1>4 DEF KernelNext

THEOREM WaitsInvariance == KernelSpec => []WaitsInv
<1>1. KernelInit => WaitsInv
  BY InitWaits
<1>2. LinesInv /\ WaitsInv /\ [KernelNext]_kernel_vars => WaitsInv'
  BY NextWaits
<1> QED
  BY <1>1, <1>2, LinesInvariance, PTL DEF KernelSpec

\* A sleep always lasts its ticks, in spite of the width of the counter; an
\* expired timeout and a time slice do unless their targets overflowed.
THEOREM FullWaits == KernelSpec => WaitsAreFull
<1> DEFINE Full ==
      /\ WakesUp => tick - sleep_from >= SleepLength
      /\ GivesUp => \/ tick - timeout_from >= timeo.length
                    \/ timeout_from + timeo.length > IntMax
      /\ SliceEnds => \/ tick - slice_from >= Quantum
                      \/ slice_from + Quantum > IntMax
<1>1. WaitsInv => Full
  <2> SUFFICES ASSUME WaitsInv PROVE Full
    OBVIOUS
  <2> USE LoopConstants DEF WaitsInv, TickInv
  <2>1. ASSUME WakesUp PROVE tick - sleep_from >= SleepLength
    BY <2>1 DEF WakesUp, Step, SleepInv
  <2>2. ASSUME GivesUp, timeout_from + timeo.length <= IntMax
        PROVE  tick - timeout_from >= timeo.length
    BY <2>2, Int32Facts DEF GivesUp, timeout_expired, Step, TimeoutInv
  <2>3. ASSUME SliceEnds, slice_from + Quantum <= IntMax
        PROVE  tick - slice_from >= Quantum
    BY <2>3, Int32Facts DEF SliceEnds, Step, SliceInv
  <2> QED
    BY <2>1, <2>2, <2>3 DEF TimeoutInv, SliceInv
<1> QED
  BY <1>1, WaitsInvariance, PTL DEF WaitsAreFull

=============================================================================
