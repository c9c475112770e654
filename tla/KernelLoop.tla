----------------------------- MODULE KernelLoop -----------------------------
(***************************************************************************)
(* The kernel from kernel_init() (src/kernel/kernel/init.c) to its main    *)
(* loop (kernel.c): the tick counter with its width (drivers/clock.c), the *)
(* timeouts (timeout.c), the scheduler (scheduler.c), and the waits of     *)
(* ps2driver_read() (drivers/ps2driver.c), which lock by masking a line of *)
(* the controller that the clock depends on as well.  Between two          *)
(* statements of the kernel the processor takes the interrupts of all      *)
(* devices.  What is in the receive queue is left to Ps2Driver: here a     *)
(* poll may find a byte or not.                                            *)
(***************************************************************************)
EXTENDS Interrupts

CONSTANTS
  IntMax,      \* the largest int32_t
  Quantum,     \* ticks of a time slice
  TimeoutsMs,  \* timeouts passed to ps2driver_read() during start-up, in ms
  CLOCK_FREQ   \* interrupts of the clock per second

ASSUME KernelLoopAssumption ==
  /\ IntMax \in Nat /\ Quantum \in 2..IntMax
  /\ TimeoutsMs \subseteq Nat
  /\ CLOCK_FREQ \in 1..1000

VARIABLES
  tick,          \* clock_tick
  kernel_pc,     \* the statement the kernel is at
  caller,        \* who called ps2driver_read()
  irq_line,      \* keyboard_driver.irq_line, 0 until the driver is started
  port,          \* the value read from a mask register, not yet written back
  taking,        \* ps2driver_read() has seen a byte and takes it
  end_tick,      \* of sched_run_task()
  timeo,         \* the struct timeout of ps2driver_read()
  target_tick,   \* of clock_sleep()
  slice_from, timeout_from, sleep_from,
                 \* history: the tick at which each of the three waits began
  ran            \* the kernel ran since the last interrupt of the clock

waits  == <<end_tick, timeo, target_tick, slice_from, timeout_from, sleep_from>>
locals == <<caller, irq_line, port, taking>>
kernel_vars == <<pic, panicked, tick, kernel_pc, locals, waits, ran>>

\* A sum of two ints that is stored in an int32_t.
Int32(n) == IF n > IntMax THEN n - 2 * (IntMax + 1) ELSE n

NoTimeout == [length |-> 0, target |-> 0]

KernelInit ==
  /\ InterruptsInit
  /\ tick = 0
  /\ kernel_pc = "setup_idt"
  /\ caller = "none" /\ irq_line = 0 /\ port = {} /\ taking = FALSE
  /\ end_tick = 0 /\ timeo = NoTimeout /\ target_tick = 0
  /\ slice_from = 0 /\ timeout_from = 0 /\ sleep_from = 0
  /\ ran = FALSE

-----------------------------------------------------------------------------
(* Interrupt handlers.  Each is what it leaves of the tick counter, the     *)
(* lines in service and the panic, given the lines served on its entry.     *)

clock_irq_handler(served) ==
  IF Int32(tick + 1) < 0
    THEN [tick |-> Int32(tick + 1), panicked |-> "tick overflow",
          served |-> served]
    ELSE [tick |-> Int32(tick + 1), panicked |-> "no",
          served |-> irq_send_eoi(served, IRQ0_CLOCK)]

\* Faulty variant: the line stays in service.
ps2ctrl_irq1_handler_NoEoi(served) ==
  [tick |-> tick, panicked |-> "no", served |-> served]

\* The byte goes to the driver's queue (Ps2Driver).  The panic for a
\* controller that is not initialised is Ps2Ctrl!UnmaskedMeansDriven.
ps2ctrl_irq1_handler(served) ==
  [tick |-> tick, panicked |-> "no",
   served |-> irq_send_eoi(served, IRQ1_KEYBOARD)]

\* Exceptions and unexpected vectors end in the same way.
unhandled_interrupt(served) ==
  [tick |-> tick, panicked |-> "unhandled", served |-> served]

\* Vector 44, of the second port, is left out: its line is never unmasked,
\* because a driver is only installed on the first port (Ps2Ctrl).
isr_handler(vector, served) ==
  IF vector = 32 THEN clock_irq_handler(served)
  ELSE IF vector = 33 THEN ps2ctrl_irq1_handler(served)
  ELSE unhandled_interrupt(served)

\* The processor takes the interrupt of a line.  The clock interrupts every
\* 10 ms: in between, the kernel gets to execute something.
Interrupt(irq) ==
  /\ panicked = "no"
  /\ Deliverable(irq)
  /\ irq = IRQ0_CLOCK => ran
  /\ irr' = irr \ {irq}
  /\ LET after == isr_handler(Vector(irq), Acknowledged(irq))
     IN  /\ tick' = after.tick
         /\ panicked' = after.panicked
         /\ in_service' = after.served
  /\ ran' = (ran /\ irq # IRQ0_CLOCK)
  /\ UNCHANGED <<idt, offset, imr, intr_flag, kernel_pc, locals, waits>>

DeviceRequests(irq) ==
  /\ panicked = "no"
  /\ Request(irq)
  /\ UNCHANGED <<panicked, tick, kernel_pc, locals, waits, ran>>

-----------------------------------------------------------------------------
(* Start-up *)

\* A statement of the kernel that neither touches the controllers nor panics.
Step(from, to) ==
  /\ panicked = "no"
  /\ kernel_pc = from /\ kernel_pc' = to
  /\ ran' = TRUE
  /\ UNCHANGED <<tick, panicked>>

\* kernel_init() after mem_init(), in its order.
SetupIdt ==
  /\ Step("setup_idt", "irq_init")
  /\ setup_idt
  /\ UNCHANGED <<locals, waits>>

IrqInit ==
  /\ Step("irq_init", "clock_init")
  /\ irq_init(32, 40)
  /\ UNCHANGED <<locals, waits>>

\* clock_init(): the counter is cleared and the line unmasked.
clock_init ==
  /\ panicked = "no"
  /\ kernel_pc = "clock_init" /\ kernel_pc' = "enable"
  /\ tick' = 0 /\ ran' = TRUE
  /\ imr' = [imr EXCEPT !["master"] = irq_clear_mask(@, IRQ0_CLOCK)]
  /\ UNCHANGED <<panicked, idt, offset, irr, in_service, intr_flag, locals, waits>>

EnableInterrupts ==
  /\ Step("enable", "ps2_init")
  /\ enable_interrupts
  /\ UNCHANGED <<locals, waits>>

\* ps2_init() fails (Ps2Ctrl) before it starts the keyboard driver: the main
\* loop starts with a driver whose irq_line is still 0.
StartFails ==
  /\ Step("ps2_init", "sched")
  /\ irq_line = 0
  /\ UNCHANGED <<pic, locals, waits>>

\* ps2ctrl_start_drivers(): irq_clear_mask(1), then keyboard_start().
StartReads ==
  /\ Step("ps2_init", "start_out")
  /\ irq_line = 0
  /\ port' = imr["master"]
  /\ UNCHANGED <<pic, caller, irq_line, taking, waits>>

StartWrites ==
  /\ Step("start_out", "ps2_init")
  /\ imr' = [imr EXCEPT !["master"] = irq_clear_mask(port, IRQ1_KEYBOARD)]
  /\ irq_line' = IRQ1_KEYBOARD
  /\ port' = {}
  /\ UNCHANGED <<idt, offset, irr, in_service, intr_flag, caller, taking, waits>>

StartReturns ==
  /\ Step("ps2_init", "sched")
  /\ irq_line = IRQ1_KEYBOARD
  /\ UNCHANGED <<pic, locals, waits>>

-----------------------------------------------------------------------------
(* The main loop: kernel_main_loop() and sched_run_task() *)

\* Faulty variant: the quantum is taken for milliseconds.
SliceStarts_Milliseconds ==
  /\ Step("sched", "slice")
  /\ end_tick' = Int32(tick + (Quantum * CLOCK_FREQ) \div 1000)
  /\ slice_from' = tick
  /\ UNCHANGED <<pic, locals, timeo, target_tick, timeout_from, sleep_from>>

SliceStarts ==
  /\ Step("sched", "slice")
  /\ end_tick' = Int32(tick + Quantum)
  /\ slice_from' = tick
  /\ UNCHANGED <<pic, locals, timeo, target_tick, timeout_from, sleep_from>>

\* The end of the slice is looked at before every call of the task.
SliceEnds ==
  /\ Step("slice", "sched")
  /\ tick >= end_tick
  /\ end_tick' = 0 /\ slice_from' = 0
  /\ UNCHANGED <<pic, locals, timeo, target_tick, timeout_from, sleep_from>>

\* timeout_init() and timeout_start(), length in ms.
timeout_start(length) ==
  LET ticks == (length * CLOCK_FREQ) \div 1000
  IN  /\ timeo' = [length |-> ticks, target |-> Int32(tick + ticks)]
      /\ timeout_from' = tick

timeout_expired == tick >= timeo.target

\* keyboard_task() reads without a timeout.
TaskReads ==
  /\ Step("slice", "lock_in")
  /\ tick < end_tick
  /\ caller' = "task"
  /\ timeout_start(0)
  /\ UNCHANGED <<pic, irq_line, port, taking, end_tick, target_tick, slice_from,
                 sleep_from>>

\* keyboard_start() and its commands read the answers of the keyboard.
StartCalls(length) ==
  /\ Step("ps2_init", "lock_in")
  /\ irq_line = IRQ1_KEYBOARD
  /\ caller' = "ps2_init"
  /\ timeout_start(length)
  /\ UNCHANGED <<pic, irq_line, port, taking, end_tick, target_tick, slice_from,
                 sleep_from>>

-----------------------------------------------------------------------------
(* ps2driver_read(): irq_set_mask() and irq_clear_mask() each read the mask *)
(* register and write it back.                                              *)

LockReads ==
  /\ Step("lock_in", "lock_out")
  /\ port' = imr["master"]
  /\ UNCHANGED <<pic, caller, irq_line, taking, waits>>

Lock == imr' = [imr EXCEPT !["master"] = irq_set_mask(port, irq_line)]

LockWrites ==
  /\ Step("lock_out", "unlock_in")
  /\ Lock
  /\ port' = {}
  /\ UNCHANGED <<idt, offset, irr, in_service, intr_flag, caller, irq_line, taking,
                 waits>>

\* The line requests service in the very moment it is masked: the processor
\* has seen the request, the controller finds none left and presents the
\* vector of its line 7, which isr_handler() does not know.
LockWritesTooLate ==
  /\ panicked = "no"
  /\ kernel_pc = "lock_out" /\ kernel_pc' = "unlock_in"
  /\ Deliverable(irq_line)
  /\ Lock
  /\ panicked' = IF isr_handler(offset["master"] + 7, in_service).panicked = "no"
                   THEN "no" ELSE "spurious"
  /\ port' = {}
  /\ UNCHANGED <<idt, offset, irr, in_service, intr_flag, tick, caller, irq_line,
                 taking, waits, ran>>

UnlockReads ==
  /\ Step("unlock_in", "unlock_out")
  /\ port' = imr["master"]
  /\ UNCHANGED <<pic, caller, irq_line, taking, waits>>

UnlockWrites ==
  /\ Step("unlock_out", IF taking THEN "return" ELSE "test")
  /\ imr' = [imr EXCEPT !["master"] = irq_clear_mask(port, irq_line)]
  /\ port' = {}
  /\ UNCHANGED <<idt, offset, irr, in_service, intr_flag, caller, irq_line, taking,
                 waits>>

\* The poll found a byte (there is none without the interrupts of the
\* keyboard): lock again and take it.
Found ==
  /\ Step("test", "lock_in")
  /\ irq_line = IRQ1_KEYBOARD
  /\ taking' = TRUE
  /\ UNCHANGED <<pic, caller, irq_line, port, waits>>

GivesUp ==
  /\ Step("test", "return")
  /\ timeout_expired
  /\ UNCHANGED <<pic, locals, waits>>

SleepMsec == 20

SleepLength == SleepMsec \div (1000 \div CLOCK_FREQ)

\* The counter is wide enough for a sleep: 2 ticks against 2^31 - 1.
ASSUME SleepAssumption == SleepLength \in 0..IntMax

\* Faulty variant: the overflow of the target is not looked for.
clock_sleep_NoCheck ==
  /\ ~ timeout_expired
  /\ target_tick' = Int32(tick + SleepLength)
  /\ panicked' = "no"

\* No byte and time left: clock_sleep(20), which panics if the target
\* overflows.
clock_sleep ==
  /\ ~ timeout_expired
  /\ target_tick' = Int32(tick + SleepLength)
  /\ panicked' = IF target_tick' < 0 THEN "sleep overflow" ELSE "no"

Sleeps ==
  /\ panicked = "no"
  /\ kernel_pc = "test" /\ kernel_pc' = "sleep"
  /\ clock_sleep
  /\ sleep_from' = tick
  /\ ran' = TRUE
  /\ UNCHANGED <<pic, tick, locals, end_tick, timeo, slice_from, timeout_from>>

\* The loop of the active sleep.
Spins ==
  /\ Step("sleep", "sleep")
  /\ tick < target_tick
  /\ UNCHANGED <<pic, locals, waits>>

WakesUp ==
  /\ Step("sleep", "lock_in")
  /\ tick >= target_tick
  /\ target_tick' = 0 /\ sleep_from' = 0
  /\ UNCHANGED <<pic, locals, end_tick, timeo, slice_from, timeout_from>>

Returns ==
  /\ Step("return", IF caller = "task" THEN "slice" ELSE "ps2_init")
  /\ caller' = "none" /\ taking' = FALSE
  /\ timeo' = NoTimeout /\ timeout_from' = 0
  /\ UNCHANGED <<pic, irq_line, port, end_tick, target_tick, slice_from, sleep_from>>

-----------------------------------------------------------------------------

Kernel ==
  \/ SetupIdt \/ IrqInit \/ clock_init \/ EnableInterrupts
  \/ StartFails \/ StartReads \/ StartWrites \/ StartReturns
  \/ SliceStarts \/ SliceEnds \/ TaskReads
  \/ \E length \in TimeoutsMs : StartCalls(length)
  \/ LockReads \/ LockWrites \/ UnlockReads \/ UnlockWrites
  \/ Found \/ GivesUp \/ Sleeps \/ Spins \/ WakesUp \/ Returns

KernelNext ==
  \/ Kernel
  \/ LockWritesTooLate
  \/ \E irq \in Devices : DeviceRequests(irq)
  \/ \E irq \in Devices : Interrupt(irq)

\* The kernel runs whenever no handler does; the clock requests its next
\* interrupt, and the processor takes a request it can take again and again.
KernelFairness ==
  /\ WF_kernel_vars(Kernel)
  /\ WF_kernel_vars(DeviceRequests(IRQ0_CLOCK))
  /\ SF_kernel_vars(Interrupt(IRQ0_CLOCK))

KernelSpec == KernelInit /\ [][KernelNext]_kernel_vars /\ KernelFairness

-----------------------------------------------------------------------------
(* Properties *)

Running ==
  panicked = "no" /\ kernel_pc \notin {"setup_idt", "irq_init", "clock_init", "enable"}

\* No wait is cut short: a sleep, an expired timeout and a time slice lasted
\* at least the ticks they were asked for.  Only a target beyond the largest
\* int32_t is an exception, for the timeout and the slice, which do not look
\* for the overflow of their sums; the sleep has none.
WaitsAreFull ==
  [][/\ WakesUp => tick - sleep_from >= SleepLength
     /\ GivesUp => \/ tick - timeout_from >= timeo.length
                   \/ timeout_from + timeo.length > IntMax
     /\ SliceEnds => \/ tick - slice_from >= Quantum
                     \/ slice_from + Quantum > IntMax]_kernel_vars

\* Whatever is requested while the masks are read and written back, the kernel
\* leaves the controllers as it should: every handler has ended the service of
\* its line, the clock can interrupt, and so can the keyboard once it has been
\* started, except for the line that the driver has locked.  No other device
\* gets through, to a vector without a handler: not with the masks the BIOS
\* left, nor with a request from before the set-up.
LinesStayServed ==
  /\ panicked # "unhandled"
  /\ Running =>
       /\ in_service = {}
       /\ imr["slave"] = 0..7
       /\ 0..7 \ imr["master"] =
            {IRQ0_CLOCK, irq_line}
              \ (IF kernel_pc \in {"unlock_in", "unlock_out"} THEN {irq_line} ELSE {})

\* clock_sleep() returns, also when it ends in the last tick there is.
SleepReturns == kernel_pc = "sleep" /\ panicked = "no" ~> kernel_pc = "lock_in"

\* The main loop calls the task in every time slice, as long as the end of the
\* slice does not overflow.
TaskIsCalled ==
  (kernel_pc = "sched" /\ panicked = "no" /\ tick + Quantum < IntMax)
    ~> (kernel_pc = "lock_in" /\ caller = "task")

=============================================================================
