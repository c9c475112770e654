# AhOS in TLA+

AhOS is a small i386 kernel (`src/kernel`, with its C library in `src/libc`).
This directory is a verification project for it: TLA+ modules translated from
the C source, TLC configurations that check them on small instances, and proofs
checked by TLAPS for every value of the constants.

## 1. The system

The kernel boots from multiboot, sets up its memory, starts the PS/2 keyboard
and then runs one cooperative loop (`kernel/kernel.c`): there is one task, the
keyboard task, and interrupt handlers that interrupt it anywhere. There is one
processor and no preemption. `panic()` disables interrupts and loops for ever.

| component | state | operations | interacts with |
|---|---|---|---|
| page frame allocator, `mem/page_frame_allocator.c` | a pagemap per region: free, used, head, part, tail | `pfa_init`, `pfa_alloc`, `pfa_free` | takes its regions from the memory map; called by paging and the heap |
| paging, `mem/paging.c` | the page directory, the page tables, the present bits | `paging_setup`, `map_page`, `unmap_page` | takes page tables from the frame allocator; called by the heap |
| heap, `mem/kmalloc.c` | the list of blocks with their chunk maps, the list of big allocations | `kmalloc`, `kfree` | frames from the frame allocator, mappings from paging, and itself for the metadata of a big allocation |
| physical memory map, `mem/phys_mem_map.c` | the sorted list of regions | `phys_mem_map_init` with its sorts, search, splits and reservations | reads the multiboot structures; read by `pfa_init` |
| PS/2 driver, `drivers/ps2driver.c` | the receive ring, the interrupt line | `recv` (interrupt), `read`, `flush`, `lock`, `unlock` | called by the keyboard driver and the controller's interrupt handler; sleeps on the clock |
| keyboard task, `drivers/keyboard.c` | the state of the scan code machine, the bytes of the sequence | `keyboard_task` and its four state handlers | reads the ring of the PS/2 driver |
| keyboard start-up, `drivers/keyboard.c` | what the device was told | `keyboard_start` and the commands it sends | sends through the controller, receives through the ring |
| PS/2 controller, `drivers/ps2ctrl.c` | configuration byte, identified devices, installed drivers | `ps2ctrl_init`, `ps2ctrl_identify_devices`, `ps2ctrl_start_drivers`, `irq1_handler` | the 8042 chip; calls the drivers |
| clock, timeouts, scheduler, `drivers/clock.c`, `kernel/timeout.c`, `kernel/scheduler.c` | the tick counter, a signed 32-bit number | `clock_irq_handler`, `clock_sleep`, `timeout_*`, `sched_run_task` | every wait of the drivers; the main loop |
| interrupts, `arch/i386/irq.c`, `idt.c`, `interrupt.c` | the gates, the vectors and masks of the two 8259A controllers, the lines in service | `setup_idt`, `irq_init`, `irq_set_mask`, `irq_clear_mask`, `irq_send_eoi`, `isr_handler` | the lock of the PS/2 driver, the clock, every handler |
| symbols and panic, `kernel/symbol.c`, `arch/i386/panic.c` | the table of symbols | `symbol_init`, `symbol_find`, `symbol_lookup`, `panic` | the module the bootloader loaded, the heap; `panic` comes from anywhere |
| terminal, `drivers/terminal.c`, `drivers/vga.c` | row, column, text buffer, cursor | `terminal_write`, `vga_update_cursor` | printed to by the kernel and by interrupt handlers |

### 1.1 What is hard, and what makes each component correct

* **Page frame allocator.** One pagemap per region marks single pages and the
  head, part and tail of blocks. The danger is a long sequence of calls: a mark
  that survives a release, a page that two callers hold, a fit that is missed or
  read past the end of the pagemap. Correct means: the pagemap and the callers
  agree at all times, the answer is the first fit, misuse and only misuse panics.
* **Memory map and boot.** The map is built in the memory it describes, next to
  structures it is still read from, with 32-bit sums; the frame allocator then
  takes what is left. Correct means: nothing in use is overwritten or handed
  out, no free page is lost, and only a hopeless machine does not boot.
* **Paging and heap.** One allocation takes several resources (frames, a chunk
  for metadata, page tables) and can fail at each. Correct means: every frame
  has exactly one owner, exactly the owned pages are mapped, areas do not
  overlap, a failure undoes what was done, `kfree` tells its own pointers from
  any others.
* **Receive ring.** The interrupt handler takes no lock; the task masks the line
  while it touches the ring, and samples the size under one lock to use it under
  another. Correct means: a FIFO queue under every interleaving.
* **Keyboard task.** A key is 1, 2, 3, 4, 6 or 8 bytes that arrive one by one;
  bytes can be lost at a full queue. Correct means: intact streams are decoded
  exactly, and nothing can overrun the buffer of the sequence.
* **Keyboard start-up.** Nested retries against a device that loses, refuses or
  delays bytes. Correct means: it returns, and an acknowledged start means that
  the keyboard is in the state the task expects.
* **PS/2 controller.** Chip and device answer through one port, and every wait
  has a timeout. Correct means: the boot goes on whatever they do, the line is
  unmasked only when the handler can run, and what `keyboard_start` assumes
  holds.
* **Clock, scheduler and interrupts.** The driver locks its queue by a
  read-modify-write of the mask register that holds the bit of the clock as
  well, with interrupts on; all waits add to a tick counter that overflows.
  Correct means: the masks are always those the code intends, every handler ends
  the service of its line, waits are neither cut short nor endless, the task is
  called.
* **Symbols and panic.** The table is built with interrupts on, by a parser that
  writes into its input, and is read by a `panic` that can come at any step.
  Correct means: exactly the files of the grammar are loaded, the file and the
  heap are given back on every other path, and a trace names the right
  functions.
* **Terminal.** Row, column and cursor are changed without any lock by the
  kernel and by handlers that print. Correct means: undisturbed text looks as it
  should, and no interleaving pushes the position off the screen.

The places where each of these can go wrong are listed, with source lines and
the properties that watch them, under `hazards` in `PROJECT.json`.

## 2. The modules

| module | models | state and actions |
|---|---|---|
| `PfaOps` | the pagemap and the pure part of `page_frame_allocator.c` | operators on a pagemap; the layout (`FirstPage`, `NbPages`) is a constant |
| `FrameSpec` | what the frame allocator promises | a set of free frames, the blocks held |
| `PageFrameAllocator` | `pfa_alloc`, `pfa_free`, one step per call | `pagemap`, the history `blocks`; refines `FrameSpec` |
| `PfaAllocSteps` | one call of `pfa_alloc`, loop iteration by iteration | the locals of its three functions |
| `PhysMemMap` | `mem_init`: `phys_mem_map_init`, `pfa_init`, `paging_setup` (which pages the bootstrap maps, the frames for the page directory and the page tables) | the memory map of the bootloader, the map being built, the regions of the frame allocator, the program counter; one action per function or round of a loop |
| `Paging` | `paging.c` over the frame allocator | operators on a memory state (pagemap, page directory, present pages) |
| `KernelHeap` | `kmalloc.c` over `Paging` | the memory state with the two lists; `kmalloc(size)`, `kfree(ptr)` |
| `RecvQueueSpec` | what the receive queue promises: a bounded FIFO | a sequence |
| `Ps2Driver` | `ps2driver.c`, one step per statement on shared state, with the interrupts of device and clock | the ring, the mask of the line, the program counter of the task; refines `RecvQueueSpec` |
| `KeyboardTask` | `keyboard_task` and its four states | the state, `kbd_seq`, queue and wire, the history `typed` |
| `KeyboardStart` | `keyboard_start` and the commands it sends | where the dialogue is, the counters of retries, queue, device |
| `Ps2Ctrl` | `ps2_init`: initialise, reset, identify, register, start | program counter, configuration byte, chip, device, mask |
| `Interrupts` | `irq.c`, `idt.c`, `interrupt.c` over the two 8259A controllers | gates, vectors, masks (a set of bits per controller), requests, lines in service; what the kernel writes, and which interrupt the processor takes |
| `KernelLoop` | `kernel_init` from `setup_idt` on, `kernel_main_loop`, `sched_run_task`, `clock.c`, `timeout.c` and the waits of `ps2driver_read`, over `Interrupts` | the tick counter modulo its width, the program counter of the kernel, the value read from the mask register, the three targets; one action per statement and one per interrupt |
| `Symbols` | `symbol.c`, the trace of `panic.c`, `atoh.c` | the file, the bytes overwritten in it, the table, the program counter; one action per statement that changes one of them, and a panic at any step |
| `Terminal` | `terminal.c`, `vga_update_cursor`, `putchar` | position and buffer, the registers of the processor and of the VGA controller; one action per load or store, and whole messages of interrupt handlers in between |
| `PfaProofs` | the theorems about `PageFrameAllocator` and `PfaAllocSteps` | |
| `Ps2Proofs` | the theorems about `Ps2Driver`, `Ps2Ctrl` and `KernelLoop` | |
| `KeyboardTaskProofs` | the theorems about `KeyboardTask` and `KeyboardStart` | |
| `KernelHeapProofs`, `PhysMemMapProofs`, `SymbolsProofs`, `TerminalProofs` | the theorems about the module of that name | |
| `InductionProofs` | the lemmas on induction and recursion that the proofs share | |
| `MC_*` | instances for TLC | |

`PhysMemMap` ends with the layout of regions that the other memory modules have
as constants: `FramesAreTheFreePages` contains what `LayoutAssumption` of
`PfaOps` and `PagingAssumption` of `Paging` ask of it, that nothing mapped at
boot is in the last page table included; only that no *frame* is there is an
assumption of `Paging` alone. `KernelHeap` composes the heap, paging and the
frame allocator: it uses the same operators of `PfaOps` that
`PageFrameAllocator` is proved with. `KeyboardTask`
and `KeyboardStart` use the receive queue as the FIFO that `Ps2Driver` is shown
to implement. `Ps2Ctrl` ends where `KeyboardStart` begins, and
`StartAssumptionsHold` is the contract between the two. `KernelLoop` is built on
the actions of `Interrupts`; where it polls, the queue is abstracted to "there is
a byte or not", which is what `Ps2Driver` decides in detail, and in turn the one
mask bit of `Ps2Driver` is the whole register here. `Ps2Driver` may take the
interrupts of its line as masked in its critical sections because of
`LinesStayServed`.

What is abstracted. In `PhysMemMap` addresses are numbers that wrap at
`AddrSpace` and the machine is scaled down (pages of 16 bytes, structures of one
to three); the types of memory that are not available are one. Elsewhere addresses of frames are frame numbers. The chunk map of a
block is the set of its used chunks. A page table is the set of its present
entries, for all mappings are identity mappings with the same flags. Scan codes
and commands are the bytes the code tells apart. In `Symbols` a line of the
file is its fields and a number the sequence of its digits; in `Terminal` colours
are left out. Elsewhere log output is left out. A
`panic()` is a final state, never an error of the model by itself. Definitions
named `X_Something` next to a definition `X` are plausible bugs: the mutants
that the properties are tested with; nothing else uses them.

Granularity. `kmalloc`, `kfree`, `pfa_alloc` and `pfa_free` are called by the
one task only and share nothing with interrupt handlers, so a call is one step;
the loops of `pfa_alloc` are refined in `PfaAllocSteps`. In `Ps2Driver` the
handler can run between any two statements of the task that touch the ring or
the mask, but not inside the critical sections: the line is masked there. In
`KeyboardStart` and `Ps2Ctrl` each send, receive and timeout is a step of its
own and the device moves in between. In `KernelLoop` a read of the mask register
and its write are two steps. In `Terminal` the steps are the loads and stores of
the object code: the order is that of gcc with the `-O2` of `config.sh`, which
keeps the incremented row and column in a register and compares that; a build
with `-O0` reads the variable again for the comparison and would lose
`PositionInRange`.

## 3. The runs

| run | instance | states | what it checks |
|---|---|---|---|
| `pfa` | regions of 5 and 3 frames with a hole; requests 0, 1, 2, 4, 6; any `pfa_free`, aligned or not | 23 k | agreement of pagemap and callers, legal frees never panic, misuse always does, refinement of `FrameSpec` |
| `pfa_alloc_steps` | all 512 patterns of regions of 6, 0 and 3 pages; requests 0 to 4 and 7 | 28 k | no read past a pagemap, answer is the first fit, the call returns |
| `ps2driver` | ring of 3 bytes, 2 byte values, timeouts of 0 and 3 ticks, sleep of 2 | 49 k | consistency of the ring, refinement of `RecvQueueSpec`, reads return, bytes are fetched |
| `kbd_decode` | 13 key events, two under way, queue of 5, stray bytes E1 and 7C | 2 M | exact decoding of intact streams, completion, bounds for all others |
| `heap` | 32 pages of 64 bytes, page tables of 4 entries, 8 frames; sizes 0, 12, 30, 64, 100; ten wild pointers | 27 k | ownership of frames and mappings, usable areas, rollback, panics, misuse |
| `kbd_start` | five faults, one key, keyboards in time or late | 109 k | returns; an acknowledged start leaves the keyboard ready and no answer behind |
| `ps2ctrl` | every chip state, three kinds of device, two lost bytes, one key | 298 k | ends; the interrupt handler can run when unmasked; the assumptions of `keyboard_start` |
| `boot_memory` | 9.5 k machines of 32 pages: one or two regions (odd starts and ends, up to 4 GiB, beyond it), listed in any order; kernel end on a page boundary or not; structures in low memory, behind the kernel or scattered; no module, one in five places, two | 207 k | safe place for the map, exact map, frames are the free pages, only explained panics, the boot ends |
| `kernel_loop` | counter of 12 ticks, slices of 3, timeouts of 0, 2 and 3 ticks, sleeps of 2; clock, keyboard, serial line and disk request interrupts; any masks left by the BIOS | 129 k | masks and service of the lines, full waits, sleeps end, the task is called |
| `symbols` | 454 files: sorted good files of up to 3 lines over 3 addresses, each kind of bad line alone, first or last, files without last line feed; 18 stacks | 218 k | what is loaded, what is restored, right traces, where a panic finds no table |
| `terminal` | screen of 2 rows and 3 columns, 9 characters, messages of one and of two rows | 688 k | layout, position, cursor |
| `boot_bootstrap` (violation) | the machines of `boot_memory` | - | see section 5 |

Why the bounds are enough. *Frames:* two regions show that blocks are not joined
across regions and that the search goes on; five frames hold a block of four
with a page next to it, and every order of releases of mixed blocks. *Steps:*
three regions, one empty (the code can make one), and runs of every length
before and after a used page; the request of 7 is larger than every region.
*Ring:* three slots fill, wrap and drain in a few steps, and no index is
special beyond that; the theorem covers every size. *Keys:* every sequence
length the driver knows, keys whose code also occurs inside longer sequences,
a queue shorter than the longest sequence. *Heap:* a page of 64 bytes has the
real header of 24 bytes and room for 2 chunks, so blocks fill up at once; eight
frames run out after a few calls, at every place of an allocation; the boot
takes three of them; the page tables of the rest do not exist yet. Sizes cover
small, medium, one and two pages, and a failed argument. *Dialogue:* three
attempts per loop, so five faults exhaust one loop and disturb the next. *Boot:* the
regions are chosen so that the map fits before, between and behind the
structures, exactly, only in the second region, only in one that is refused
because it reaches 4 GiB, or nowhere; every reason to panic that
`PanicIsExplained` lists is reached. *Loop:* the counter
overflows in the middle of sleeps, timeouts and slices; a timeout of less than a
tick, one as long as a sleep and one longer; a device without a handler on each
controller. *Symbols:* equal addresses, gaps, first, middle and last symbol, the
stub in each place, and return addresses at every border; each rule of the
grammar is broken once. *Terminal:* nine characters fill and scroll the screen
twice, tabs wrap inside, and handlers come up to four times, at any load or
store. *Bring-up:* two
lost bytes are one more than `StartAssumptionsHold` tolerates, and the
histories `faults` and `noise` say in the property what it tolerates.

Deadlock is checked where the system never stops (`ps2driver`,
`pfa_alloc_steps`, whose finished call stutters) and not where it does: after a
panic, at the end of a start-up, or while the keyboard is silent.

### Fairness

* `Ps2Driver`: weak fairness of the statements of the task (nothing else runs on
  the processor), weak fairness of the clock interrupt, strong fairness of the
  device's interrupt: the task masks and unmasks the line again and again, the
  8042 keeps its request pending, and the processor takes it as soon as it is
  unmasked.
* `KeyboardTask`: weak fairness of the task (the main loop in `kernel.c` calls
  it again and again) and of the delivery of a pending byte.
* `KeyboardStart`: weak fairness of the driver. Only a keyboard that is not
  `late` is fair; the termination of the dialogue does not depend on it.
* `Ps2Ctrl`: weak fairness of `ps2_init`, and of a device that is on taking the
  byte it was sent within the timeout of 200 ms; losing the byte is the
  alternative.
* `PfaAllocSteps`, `PhysMemMap`: weak fairness of the one thread of control
  (during the boot the interrupts are off).
* `KernelLoop`: weak fairness of the kernel (no other code runs but handlers,
  and interrupt gates keep handlers from being interrupted), weak fairness of
  the clock requesting its interrupt (it is programmed to, periodically), strong
  fairness of the processor taking it: the request stays pending while the line
  is masked. Between two interrupts of the clock the kernel executes at least
  one statement, for they are 10 ms apart.
* `PageFrameAllocator`, `KernelHeap`, `Symbols` and `Terminal` need none: safety
  only.

## 4. The proofs

All theorems hold for every value of the constants that satisfies the named
assumptions; `tlapm` checks them with Z3, Zenon and LS4.

**`PfaProofs`, `PageFrameAllocator`** (assumes `LayoutAssumption`: regions are disjoint, do not
contain frame 0, lie in the address space). The inductive invariant is
`TypeOK /\ PagemapTellsTheBlocks`: blocks lie in regions, are disjoint, their
pages carry the marks of a block and every marked page is in a block. The last
two directions need each other: to see that the walk of `pfa_free` from a head
meets the tail of the same block, the pages in between must be known to be
marked `part`, and to see that a new block meets no old one, free pages must be
known to be in none. Consequences: `TypeCorrect`, `PagemapCorrect`,
`MisuseCaught`, `LegalFree` (this one also assumes `TopIsFree`: `find_region`
computes the end of a region in 32 bits, and for a region that ends at 4 GiB it
wraps to 0) and `Refinement`, the step simulation of `FrameSpec`.

**`PfaProofs`, `PfaAllocSteps`** (the same layout, any pagemap to start from).
`AnswerIsFirstFit` becomes inductive with what the loops have established on
the way: the regions passed have no fit (`PassedRegionsAreFull`), no start
before `start_page` has one (`MultiplePassed`, which contains the reason why the
greedy scan may jump over a run that was too short), the pages counted are free
(`RunCounted`), the pages marked so far are marked as they should be
(`RunMarked`). Consequences: `InBounds`, `FirstFit`.

**`Ps2Proofs`, `Ps2Driver`** (assumes a ring of at least one byte). The invariant is
`TypeOK /\ LockedInside /\ RingInv /\ SampleInv`: the line is masked exactly in
the critical sections; at every statement of a critical section the ring is
consistent up to the fields not updated yet; a positive sample is still covered
by the queue, because between the two locks only the handler runs and it only
adds. Consequences: `TypeCorrect`, `RingConsistency`, `NoUnderflow`,
`Refinement`: the ring is a FIFO queue, with the copy out of the slot as the
moment a byte leaves.

**`KeyboardTaskProofs`, `KeyboardTask`** (any events and reports that are bytes). `SequenceFits`
alone is not inductive, since `need` is raised in the middle of a sequence:
`ReadMoreInv` records which pairs of collected and missing bytes go with which
prefix. Consequences: `BufferIsNeverOverrun` and, contained in it,
`OnlyKnownLengths`. `Decoding` is about streams from which nothing is lost, for
any number of events typed ahead and any size of the queue. It assumes
`EventsAreScanCodes` (every event has one of the shapes of scan code set 2 and
the meaning the tables give it; the instance of the run is checked for it). The
invariant `StreamInv` says that collected bytes, queue and wire together are the
sequences of the events not translated yet, one after the other (`Cut`, by the
positions where they end, so that events can be added behind and taken in front),
and that the number of bytes the task believes are missing is the right one for
the first event, once it can know. `LastBytes`, by which the model finds the
events that survive the flush of the queue, is recursive: what it computes is
shown with the least number for which it would be wrong.

**`KeyboardTaskProofs`, `KeyboardStart`** (any number of faults and keys, a keyboard that is not
`late`). The invariant `Dialogue` is about what the driver will read, wherever
it is on its way: `coming`, the queue followed by what the keyboard has not
delivered. Before a byte is sent no answer is on its way, afterwards at most one
(`SendInv`, `AskedInv`, `AnsweredInv`, `ReadInv`), and an acknowledgement there
comes from a keyboard that did as it was told (`AckInv`). `DeviceInv` is needed
for the resends: an argument that was lost leaves the keyboard waiting for it,
and the next command must not be taken for it in a way that matters.
Consequences: `Ready`, `NothingLeft`.

**`Ps2Proofs`, `Ps2Ctrl`** (any number of lost bytes and of keys). `Driven` follows from
`Base`, the order of the steps. `Assumptions` is the difficult one: the answer
to the first of two resets may come after the second was sent, so that every
later step may read an answer to an earlier one. `LateInv` counts, at each step,
the bytes the device still owes (`Owed`), with one byte of slack for a lost one
or a key (`Slack`), and says how far in front of them the bytes "self-test
passed" and "AB" can be. Without the count the invariant does not carry from the
reset to the identification, where a self-test that is still running would turn
scanning on again.

**`Ps2Proofs`, `KernelLoop`** (any devices, timeouts, quantum and width of the tick
counter; a sleep fits into the counter, which is `SleepAssumption`). `LinesInv`:
the masks are what the statement says, and what was read from the mask register
is still in it when it is written back, since no handler writes it. `WaitsInv`:
the targets are the sums as the machine computes them, and the counter has not
overflowed while the kernel runs. Consequences: `LinesServed`, `FullWaits`.

**`KernelHeapProofs`** (any layout of regions, page size, page tables, header and
metadata sizes that `LayoutAssumption`, `PagingAssumption`, `RangesAssumption`
and `HeapAssumption` allow; any sequence of calls, wild pointers included).
`PowersAssumption` only spells out what 2^k is, which the provers do not know.
All five properties of the run are proved. The first two need no more, and hold
for sizes above 2^31 too. `EveryFrameHasOneOwner` counts frames and does not say which
owner has which: the invariant `HeapOK` adds that page tables, blocks and big
allocations are pairwise disjoint, that every mapped page has a page table, and
that the frames of a big allocation are still marked as one block of the frame
allocator (`BigOK`). The marks are what makes `kfree` give back exactly those
frames, and they survive because later allocations only touch free pages
(`Grows`) and releases only their own block (`MarkedStays`). Inside `big_alloc`
the frames are taken, a block and a page table may be added, and only then is
there an owner: `HeapOK` therefore has a parameter for frames that are taken but
not in a list yet. The lemmas follow the calls: `pfa_alloc` and `pfa_free` on a
pagemap (`Takes`, `GivesBack`), `map_page` and the loops over it (`Maps`, by the
least round for which it would be wrong), `new_block`, `SmallAlloc`, `big_alloc`,
`big_free`, the boot. The consequences are `OneOwner`, and `FailedKmalloc`, for
which pagemap and record are shown to be restored exactly. Nothing is claimed of
the state after a panic.

The other three have the hypothesis `SizesFit` (no size above 2^31, where the
rounding of `kmalloc.c:230` gives 0 and areas do overlap), and the last two also `TopIsFree` (no region ends at 4 GiB, where `find_region` finds nothing);
the instance of the run is checked for both. `UsableAreas` rests on the
invariant `AreasOK`: the chunks of a block lie behind its chunkmap and on its
page (`BlockOK`), every area of a caller is a chunk in use or a big allocation,
and the metadata of big allocations are chunks of which no caller knows. Two
chunks at one address are the same chunk because no two blocks share a page,
which is where `HeapOK` is needed again (`ChunkUnique`). `PanicOutOfFrames` goes
through the panics on the way of `kmalloc` one by one: a block has room for a
chunk since a power of two below the page size is at most half of it
(`BlockHasChunks`), a block that counts a free chunk has one
(`TakeChunkFinds`), the pages to map are not mapped yet, and the rollback frees a
block of the frame allocator. What is left is `new_page_table` (`Excused`).
`KfreeExact` needs the converse of `AreasOK` (`Exact`: nothing is in use but what
the callers hold and the metadata) to show that a wrong pointer is caught, and
that the search of `kfree` for a block leads to the one block of the pointer's
page (`ChunkReleased`) to show that a right one is not.

**`PhysMemMapProofs`** (any machine that `BootAssumption` allows: any number of
entries in any order, any place of kernel, structures and module, any sizes of
pages and structures). `WellLoaded` says what the bootloader guarantees. Most of
it is the multiboot specification; what the proofs had to add is that nothing is
loaded into the video memory, that the last addresses below 4 GiB belong to the
firmware and its devices (no available region starts, and nothing is loaded, from
`Top` on, some 5 MiB: the last page table, three pages, a map and, `MetaBound`,
the metadata), and that a region which reaches 4 GiB begins on a page boundary:
without them the 32-bit sums of the search and of `is_valid_region` wrap, and the
bootstrap maps into the page table where the page directory maps itself.

* `SafePlace`. `LocationInv`: the two bubble sorts keep the entries and sort
  what they have passed, and a place that is tried is behind the structures the
  search has passed and stays behind them, because they are sorted; so one
  pass over them is enough.
* `ExactMap`. `MapInv`: at each reservation the map is in order (`MapOK`), each
  entry is a piece of one entry of the bootloader (`Pieces`), the bytes of each
  type are those of the bootloader without those reserved (`BytesInv`), and each
  reservation adds at most two entries (`Counted`), so that the map does not
  outgrow what `phys_mem_map_size` set aside.
* `FreeFrames`. The recursive functions of `pfa_init` over the map are unrolled:
  regions are in the order of the map, their pages are the whole pages of the available
  entries, the row for the metadata is taken from one of them, and
  the area that is reserved for it is large enough for all regions (`MetaFits`).
  `bootstrap_mapping` maps none of their pages (`NotMapped`), unless the kernel
  ends on a page boundary, and nothing in the last page table (`MappedBelow`,
  from `EntryStart`: no available entry of the map begins more than a page and a
  map's length behind `Top`).
* `ExplainedPanics`. `RoomInv` follows an arbitrary place that is good for the
  map, in a region that does not reach 4 GiB: as long as the search goes on it
  has not been passed. For a region that does reach it the code has no such
  promise to prove (section 5), and the property names it as an exception. `CanReserve` shows
  that the kernel and the map are always found in one entry, so those panics
  never happen; a module is not found only if it is empty, or in no entry or in
  one that reaches 4 GiB (`SameEntry`); `paging_setup` panics only if there are
  too few frames for the page directory and the page tables, or if the page
  behind a kernel that ends on a page boundary is in use (`BehindKernel`,
  `BootstrapPanics`), which is the finding of section 5.

**`SymbolsProofs`** (any set of files and stacks that `SymbolsAssumption`
allows, any base). `LoadInv` relates, at each statement of the parser, the bytes
overwritten to the lines read so far, and the table to the lines parsed; the
fold in `atoh` is shown to give a number by `InductionProofs`.
`Loads`: `symbol_init` succeeds exactly for the files of its grammar.
`FindsTheTable`: only at the statements it names does a panic meet a table that
is not in memory. `Traces`: for a sorted file whose stub is bounded, the search
of `symbol_find` gives the owner of each address, and the trace that the
fold over the frames builds is the one that the property describes. `Loading`
is the invariant itself.

**`TerminalProofs`** (any size of the screen with cells that two bytes can
number, any text, any messages that end their line). `Printing` is the
invariant: position in range, and at each load or store what the registers of
the processor hold, given that a handler may have printed since. It contains why
`PositionStays` is true although nothing is locked: an increment is stored back
from the register, and so is the value the comparison is made with. `Cursor`: after
each `putchar` that no handler interrupted, the two bytes of the cursor register
are those of the position.
`Shown` is about undisturbed text: the buffer is the last rows of the text laid
out on an endless screen, row by row through each scroll and tab.

**`InductionProofs`** (no assumptions). The induction theorems of the library
have an operator as a parameter, which these provers do not instantiate.
`LeastNatural` and `Induction` are stated for a *set*: the naturals for which a
claim holds. `RecursionExists` and `FoldExists` show with them that the function
a recursive definition or a fold of the community modules chooses exists, so
that its defining equation may be used. The proofs about `LastBytes`, the
loops of the heap, the recursive functions of `PhysMemMap`, `atoh` and the layout
of text rest on these.

**Only model-checked.** The liveness properties (`CallReturns`, `ReadReturns`,
`ByteIsFetched`, `SequenceIsCompleted`, `StartReturns`, `BringUpEnds`,
`BootEnds`, `SleepReturns`, `TaskIsCalled`): they need fairness and `ENABLED`,
which this prover does not treat. And `BootstrapNeverFails`, which is false (see
below). Every invariant and every action property of a passing run is proved.
The type invariants of
`PageFrameAllocator`, `PfaAllocSteps` and `Ps2Driver` are part of the proofs and
have no run of their own.

## 5. Findings

`paging.c:124`, run `boot_bootstrap`: when the kernel image ends on a page
boundary, the page behind it is mapped with the kernel, and mapping it again
(as metadata of the frame allocator, or as the module loaded right there)
panics in a function that "must NEVER failed". The property asks only for
machines with frames enough for the page directory and all page tables.

Observations without a run of their own, met while modelling:

* *Memory.* `kmalloc` panics instead of returning `NULL` when the last frame is
  needed for a page table (`paging.c:456`; `PanicMeansOutOfFrames` says that it
  happens only then). A size above 2^31 is rounded to 0 (`kmalloc.c:230`), and
  `kmalloc` returns an area of no bytes. The bound of `find_region` wraps for a
  region that ends at 4 GiB, which `PhysMemMap` shows can exist; a module or a
  map in such a region cannot be reserved, and an empty module stops the boot.
  `find_pmm_location` shrinks a region of 4 GiB or more in order to use it
  (`phys_mem_map.c:404`), but then refuses every region that reaches 4 GiB,
  because `seg_end` (line 443) is 0, and the boot panics if the map has room
  only there: `PanicIsExplained` names it as an exception. Its own sums wrap
  for one that starts just below 4 GiB (`phys_mem_map.c:438`, `445`), as does the
  end of a region in `is_valid_region` (`page_frame_allocator.c:107`): `WellLoaded`
  excludes those machines, which no firmware is known to report.
* *Keyboard and controller.* Response bytes that arrive when no command waits
  for them are looked up as scan codes (`keyboard.c:481`), although the comment
  on `enum keyboard_response` (`keyboard.c:69`) sets them apart.
  `keyboard_start` returns true when scanning could not be enabled
  (`keyboard.c:1037`). An unknown answer to the reset is treated like a passed
  self-test (`ps2ctrl.c:675`; `StartAssumptionsHold` says without which faults
  it cannot happen). The first test of the number of channels (`ps2ctrl.c:968`)
  sees one port always, and the handler of line 12 panics if the controller has
  *two* channels (its condition is inverted; the line is never unmasked).
* *Interrupts.* A line that fires in the moment it is masked leads to vector 39
  and a panic (`LockWritesTooLate`). If the keyboard was never started,
  `irq_line` is 0 and the task's lock masks the clock (`ps2driver.c:35`):
  `LinesStayServed` and `TaskIsCalled` show that it is always unmasked again and
  time goes on. `irq_send_eoi` sends no EOI to the second controller for line 8
  itself (`irq > 8`, `irq.c:78`), which nobody unmasks.
* *Time.* Targets of timeouts and time slices may overflow (`timeout.c:50`,
  `scheduler.c:27`): in the last ticks before the counter overflows and the
  kernel panics, timeouts expire at once and the task is not called any more.
  `clock_sleep` of less than 10 ms does not sleep at all (`clock.c:117`).
* *Symbols.* While lines are counted, and again between `kfree` and the reset of
  `nb_syms`, a panic in an interrupt handler reads through a null or dangling
  pointer and dies of a page fault without printing (`PanicFindsTheTable` says:
  only there). A number that is none in `symbols.map` stops the kernel through
  `abort` in `atoh`, and so does a lack of memory, although `init.c:121` calls a
  failure to load the symbols "not critical". If the stub of the interrupt
  handlers is the last symbol of the file and has no length there, its length is
  0 and a trace does not name the function that was interrupted (`StubIsBounded`
  excludes it from `TraceIsRight`).

## 6. Not modelled

* Memory maps in which an entry below 4 GiB reaches past it by less than 4 GiB in
  length: the code does not expect them, and no machine with the usual hole for
  devices below 4 GiB has one.
* The second PS/2 port, which the code answers with `NOT_IMPLEMENTED()`.
* Page flags, TLB and the page fault handler, which only reports and panics.
* Colours, the log level and the serial line. `serial_init` writes fixed values
  into registers and `serial_write` stores bytes into a port and reads nothing
  back, so there is no state to get wrong; that it does not wait for the
  transmitter is a matter of speed the source says nothing about.
* The handlers of exceptions: all of them panic.
* Descriptor tables, boot code and register access: straight-line configuration.
* The C library but `atoh`, `abort` and `putchar`: `printf.c` is taken over from
  Linux, the string functions copy or compare bytes.
* Commands of the keyboard and functions of the drivers that nothing calls.

## 7. Plan

1. Done: frame allocator with proofs, receive ring with proofs, keyboard task
   with proofs, heap and paging, keyboard start-up, controller bring-up, memory
   map and the layout of the frame allocator.
2. Done: interrupt controllers, clock, timeouts, scheduler and main loop; the
   symbol table and `panic`; the terminal.
3. Done: proofs for `KernelLoop`, `KeyboardStart` and `Ps2Ctrl`, the decoding
   of `KeyboardTask`, all properties of `KernelHeap`.
4. Done: proofs for `Terminal`, `Symbols` and `PhysMemMap`; no invariant or
   action property of a passing run is left without a theorem.
5. Open: liveness, which needs another prover; the second PS/2 port and the
   serial line, once the code uses them.
