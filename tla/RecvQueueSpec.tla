---------------------------- MODULE RecvQueueSpec ----------------------------
(***************************************************************************)
(* What the receive queue of a PS/2 driver promises: a first-in first-out  *)
(* queue of at most Max bytes between the device and the driver's task.  A *)
(* byte that was received is lost only if the queue is full, or if the     *)
(* driver flushes the queue.                                               *)
(***************************************************************************)
EXTENDS Integers, Sequences

CONSTANTS Byte, NoByte, Max

VARIABLES
  port,    \* the byte the device has sent, NoByte if it was fetched
  queue,   \* the bytes received and not read yet, oldest first
  data     \* the byte the last successful read returned

vars == <<port, queue, data>>

Init == port = NoByte /\ queue = <<>> /\ data = 0

Arrive(b) ==
  /\ port = NoByte
  /\ port' = b
  /\ UNCHANGED <<queue, data>>

Receive ==
  /\ port # NoByte
  /\ port' = NoByte
  /\ queue' = IF Len(queue) < Max THEN Append(queue, port) ELSE queue
  /\ UNCHANGED data

Read ==
  /\ queue # <<>>
  /\ data' = Head(queue)
  /\ queue' = Tail(queue)
  /\ UNCHANGED port

Flush == queue' = <<>> /\ UNCHANGED <<port, data>>

Next == (\E b \in Byte : Arrive(b)) \/ Receive \/ Read \/ Flush

Spec == Init /\ [][Next]_vars

=============================================================================
