------------------------- MODULE PageFrameAllocator -------------------------
(***************************************************************************)
(* The page frame allocator as a state machine: pfa_alloc() and pfa_free() *)
(* called in any order, with any argument, by the rest of the kernel       *)
(* (src/kernel/mem/page_frame_allocator.c).  The kernel never calls them   *)
(* from an interrupt handler, so a call is one step.                       *)
(***************************************************************************)
EXTENDS PfaOps

CONSTANT Requests   \* the values of nb_pages the callers pass

ASSUME RequestsAssumption == Requests \subseteq Nat

VARIABLES
  pagemap,   \* the state of every page of every region
  blocks,    \* history: the blocks handed out and not given back yet,
             \* as the caller knows them: first frame and number of frames
  req,       \* history: the number of pages the last pfa_alloc() asked for
  ret,       \* the value the last pfa_alloc() returned
  panicked   \* the kernel called panic()

vars == <<pagemap, blocks, req, ret, panicked>>

Blocks == [pgf : 0..AddrPages, n : Nat \ {0}]

Init ==
  /\ pagemap = FreshPagemap
  /\ blocks = {}
  /\ req = 0
  /\ ret = BAD_PAGE
  /\ panicked = FALSE

-----------------------------------------------------------------------------

\* pfa_alloc(n) finds a block: it is marked and its first frame returned.
AllocServed(n) ==
  /\ n # 0
  /\ \E r \in RegionIds : \E s \in Pages(r) :
       /\ Serves(pagemap, r, s, n)
       /\ pagemap' = Allocated(pagemap, r, s, n)
       /\ blocks' = blocks \cup {[pgf |-> Frame(r, s), n |-> n]}
       /\ ret' = Frame(r, s)
  /\ req' = n
  /\ UNCHANGED panicked

\* pfa_alloc(n) returns BAD_PAGE: an empty request, or no region can serve.
AllocRefused(n) ==
  /\ n = 0 \/ NoneServes(pagemap, n)
  /\ ret' = BAD_PAGE
  /\ req' = n
  /\ UNCHANGED <<pagemap, blocks, panicked>>

pfa_alloc(n) ==
  /\ ~ panicked
  /\ AllocServed(n) \/ AllocRefused(n)

-----------------------------------------------------------------------------

Panic ==
  /\ panicked' = TRUE
  /\ UNCHANGED <<pagemap, blocks, req, ret>>

\* The block that starts at pgf is given back.
GiveBack(pgf) == blocks' = {b \in blocks : b.pgf # pgf}

\* pfa_free() on a page marked as a single page frame.
FreeSingle(pgf, r, i) ==
  /\ pagemap[r][i] = PAGE_USED
  /\ pagemap' = Freed(pagemap, r, i, i)
  /\ GiveBack(pgf)
  /\ UNCHANGED <<req, ret, panicked>>

\* Faulty variant: a page in the middle of a block is taken for its head.
FreeBlock_AcceptsPart(pgf, r, i) ==
  /\ pagemap[r][i] \in {PAGE_USED_HEAD, PAGE_USED_PART}
  /\ \E j \in i..NbPages[r] :
       /\ WalkStops(pagemap, r, i, j)
       /\ IF j < NbPages[r] /\ pagemap[r][j] = PAGE_USED_TAIL
            THEN /\ pagemap' = Freed(pagemap, r, i, j)
                 /\ GiveBack(pgf)
                 /\ UNCHANGED panicked
            ELSE /\ pagemap' = Freed(pagemap, r, i, j - 1)
                 /\ panicked' = TRUE
                 /\ UNCHANGED blocks
  /\ UNCHANGED <<req, ret>>

\* pfa_free() on the head of a block: the pages are released one by one up to
\* the tail; the sanity checks of the loop panic half way if there is none.
FreeBlock(pgf, r, i) ==
  /\ pagemap[r][i] = PAGE_USED_HEAD
  /\ \E j \in i..NbPages[r] :
       /\ WalkStops(pagemap, r, i, j)
       /\ IF j < NbPages[r] /\ pagemap[r][j] = PAGE_USED_TAIL
            THEN /\ pagemap' = Freed(pagemap, r, i, j)
                 /\ GiveBack(pgf)
                 /\ UNCHANGED panicked
            ELSE /\ pagemap' = Freed(pagemap, r, i, j - 1)
                 /\ panicked' = TRUE
                 /\ UNCHANGED blocks
  /\ UNCHANGED <<req, ret>>

\* pfa_free() on a free page (double free) or inside a block.
FreeWrongState(r, i) ==
  /\ pagemap[r][i] \notin {PAGE_USED, PAGE_USED_HEAD}
  /\ Panic

\* pfa_free(pgf); unaligned says whether PAGE_OFFSET(pgf) is not zero.
pfa_free(pgf, unaligned) ==
  /\ ~ panicked
  /\ \/ (FoundNowhere(pgf) \/ unaligned) /\ Panic
     \/ /\ ~ unaligned
        /\ \E r \in RegionIds :
             /\ find_region(r, pgf)
             /\ LET i == pgf - FirstPage[r]
                IN  \/ FreeSingle(pgf, r, i)
                    \/ FreeBlock(pgf, r, i)
                    \/ FreeWrongState(r, i)

Next ==
  \/ \E n \in Requests : pfa_alloc(n)
  \/ \E pgf \in 0..(AddrPages - 1), unaligned \in BOOLEAN : pfa_free(pgf, unaligned)

Spec == Init /\ [][Next]_vars

-----------------------------------------------------------------------------
(* Properties *)

Extent(b) == b.pgf..(b.pgf + b.n - 1)

InRegion(b, r) ==
  FirstPage[r] <= b.pgf /\ b.pgf + b.n <= FirstPage[r] + NbPages[r]

\* Every variable has its type: one of the five page states per page
\* (page_state_t), a frame number or BAD_PAGE as the answer of pfa_alloc().
TypeOK ==
  /\ IsPagemap(pagemap)
  /\ blocks \subseteq Blocks
  /\ req \in Requests \cup {0}
  /\ ret \in 0..AddrPages
  /\ panicked \in BOOLEAN

\* A block lies in one region: pfa_alloc() never joins pages of two regions.
BlocksInRegions == \A b \in blocks : \E r \in RegionIds : InRegion(b, r)

\* No two callers hold the same frame, whatever they allocated and freed.
BlocksAreDisjoint ==
  \A b, c \in blocks : b # c => \/ b.pgf + b.n <= c.pgf
                                \/ c.pgf + c.n <= b.pgf

\* The pagemap marks every held block the way pfa_alloc() marked it.
HeldPagesAreMarked ==
  \A b \in blocks : \A r \in RegionIds : \A p \in Pages(r) :
    Frame(r, p) >= b.pgf /\ Frame(r, p) < b.pgf + b.n
      => pagemap[r][p] = Mark(b.pgf, b.n, Frame(r, p))

\* No page is lost: a page that is not free belongs to a block somebody holds.
MarkedPagesAreHeld ==
  \A r \in RegionIds : \A p \in Pages(r) :
    pagemap[r][p] # PAGE_FREE
      => \E b \in blocks : Frame(r, p) >= b.pgf /\ Frame(r, p) < b.pgf + b.n

\* The pagemap and the blocks the callers hold always agree, until a sanity
\* check stops the kernel: no frame is held twice and none is lost, through
\* every sequence of allocations and releases of single pages and blocks.
PagemapTellsTheBlocks ==
  /\ BlocksInRegions
  /\ BlocksAreDisjoint
  /\ HeldPagesAreMarked
  /\ MarkedPagesAreHeld

\* pfa_free() of a block that was handed out and not given back never panics
\* ("The page frame must has been previously allocated with pfa_alloc()").
LegalFreeNeverPanics ==
  [][\A b \in blocks : pfa_free(b.pgf, FALSE) => ~ panicked']_vars

\* Every other call of pfa_free() is caught before it changes the pagemap: a
\* double free, a pointer into the middle of a block, a frame of no region.
MisuseAlwaysPanics ==
  [][\A pgf \in 0..(AddrPages - 1), unaligned \in BOOLEAN :
       /\ pfa_free(pgf, unaligned)
       /\ unaligned \/ \A b \in blocks : b.pgf # pgf
       => panicked' /\ UNCHANGED <<pagemap, blocks>>]_vars

\* The frames of region r, and those the pagemap has as free.
RegionFrames(r) == {Frame(r, p) : p \in Pages(r)}

FreeFrames == UNION {{Frame(r, p) : p \in {q \in Pages(r) : pagemap[r][q] = PAGE_FREE}}
                     : r \in RegionIds}

Abstract == INSTANCE FrameSpec WITH
  Memory <- {RegionFrames(r) : r \in RegionIds},
  Requests <- Requests,
  BadPage <- BAD_PAGE,
  free <- FreeFrames,
  held <- blocks,
  req <- req,
  ret <- ret,
  halted <- panicked

\* The pagemap algorithms of pfa_alloc() and pfa_free() implement the abstract
\* allocator: frames handed out are free, a release frees exactly the block,
\* and a request is refused only when no region has such a run of frames.
ImplementsFrameSpec == Abstract!Spec

=============================================================================
