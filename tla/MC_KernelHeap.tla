--------------------------- MODULE MC_KernelHeap ---------------------------
(* A machine of 32 pages of 64 bytes, 4 entries per page table, and two     *)
(* regions of 2 and 6 frames: the bootstrap takes three frames, and the     *)
(* five that are left are spread  over two page tables that do not exist    *)
(* yet.  A block holds 2 chunks of 16 bytes or 1 of 32.                   *)
EXTENDS KernelHeap

MCFirstPage == <<4, 8>>
MCNbPages == <<2, 6>>
MCKernelRange == [start |-> 128, end |-> 180]
MCVramRange == [start |-> 64, end |-> 127]
MCMetaRange == [first |-> 3, n |-> 1]
MCModuleRange == [start |-> 390, len |-> 50]

\* NULL, a block's header, chunks, an address between two chunks and one past
\* the last chunk of the first block (frame 9 or 11), page-aligned addresses.
MCWildPointers == {0, 600, 604, 606, 612, 636, 640, 704, 732, 896}

ASSUME SizesFit /\ TopIsFree

=============================================================================
