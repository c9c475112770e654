----------------------------- MODULE Interrupts -----------------------------
(***************************************************************************)
(* The interrupt hardware as the kernel programs it: the descriptor table  *)
(* (src/kernel/arch/i386/idt.c), the interrupt flag (interrupt.c) and the  *)
(* two cascaded 8259A controllers (irq.c).  A mask register is the set of  *)
(* its set bits.  Interrupt gates clear the interrupt flag, so a handler   *)
(* runs to its end once it is dispatched.                                  *)
(***************************************************************************)
EXTENDS Integers

CONSTANTS
  Devices   \* the lines on which a device may request an interrupt

ASSUME DevicesAssumption ==
  /\ Devices \subseteq 0..15 \ {2}
  /\ {0, 1} \subseteq Devices

VARIABLES
  idt,         \* the vectors that have a gate
  offset,      \* per controller, the vector of its line 0
  imr,         \* per controller, the masked lines
  irr,         \* the lines that request service
  in_service,  \* the lines whose handler has not sent its EOI yet
  intr_flag,   \* the processor accepts interrupts
  panicked     \* why the kernel stopped, "no" while it runs

pic == <<idt, offset, imr, irr, in_service, intr_flag>>

IRQ0_CLOCK     == 0
IRQ1_KEYBOARD  == 1
IRQ2_SLAVE_INT == 2

Chips == {"master", "slave"}

Chip(irq) == IF irq < 8 THEN "master" ELSE "slave"

Bit(irq) == irq % 8

\* What irq_set_mask() and irq_clear_mask() write to the data port, for the
\* value they have read from it.

\* Faulty variant: the other bits of the register are not kept.
irq_clear_mask_Overwrites(value, irq) == 0..7 \ {Bit(irq)}

irq_set_mask(value, irq)   == value \cup {Bit(irq)}
irq_clear_mask(value, irq) == value \ {Bit(irq)}

\* An unspecific EOI ends the service of the most urgent line of a controller.
MostUrgent(served, chip) ==
  {k \in served : Chip(k) = chip
                  /\ \A j \in served : Chip(j) = chip => k <= j}

\* irq_send_eoi(): the slave gets one as well for a line behind it.
irq_send_eoi(served, irq) ==
  served \ (MostUrgent(served, "master")
              \cup (IF irq > 8 THEN MostUrgent(served, "slave") ELSE {}))

-----------------------------------------------------------------------------
(* Set-up, with the interrupt flag off *)

\* What the BIOS leaves: its own vectors (those of exceptions), and lines
\* masked or not as it liked.
BiosOffset == [master |-> 8, slave |-> 112]

InterruptsInit ==
  /\ idt = {}
  /\ offset = BiosOffset
  /\ imr \in [Chips -> {{}, 0..7}]
  /\ irr = {} /\ in_service = {}
  /\ intr_flag = FALSE
  /\ panicked = "no"

\* setup_idt(): a gate for the exceptions and for the sixteen lines.
setup_idt ==
  /\ idt' = 0..47
  /\ UNCHANGED <<offset, imr, irr, in_service, intr_flag>>

\* irq_init(): ICW1 to ICW4 reset both controllers and give them their
\* vectors, then all sixteen lines are masked one after the other.
irq_init(master_offset, slave_offset) ==
  /\ offset' = [master |-> master_offset, slave |-> slave_offset]
  /\ imr' = [chip \in Chips |-> 0..7]
  /\ irr' = {} /\ in_service' = {}
  /\ UNCHANGED <<idt, intr_flag>>

\* enable_nmi() and enable_interrupts().
enable_interrupts ==
  /\ intr_flag' = TRUE
  /\ UNCHANGED <<idt, offset, imr, irr, in_service>>

-----------------------------------------------------------------------------
(* The controllers *)

\* A device requests an interrupt; the request stays until it is served.
Request(irq) ==
  /\ irq \notin irr
  /\ irr' = irr \cup {irq}
  /\ UNCHANGED <<idt, offset, imr, in_service, intr_flag>>

\* The controllers, from the most to the least urgent line: the lines of the
\* slave come in on line 2 of the master.
Level(irq) == IF irq < 8 THEN 8 * irq ELSE 8 * IRQ2_SLAVE_INT + Bit(irq)

\* Nothing as urgent or more urgent is in service, and no mask is in the way.
Passes(irq) ==
  /\ irq \in irr
  /\ Bit(irq) \notin imr[Chip(irq)]
  /\ \A k \in in_service : Level(k) > Level(irq)
  /\ irq >= 8 => IRQ2_SLAVE_INT \notin imr["master"]

Deliverable(irq) ==
  /\ intr_flag
  /\ Passes(irq)
  /\ \A k \in irr : Passes(k) => Level(irq) <= Level(k)

\* The vector the controllers present for a line.
Vector(irq) == offset[Chip(irq)] + Bit(irq)

\* The lines in service once the processor has acknowledged irq.
Acknowledged(irq) ==
  in_service \cup {irq} \cup (IF irq >= 8 THEN {IRQ2_SLAVE_INT} ELSE {})

=============================================================================
