------------------------------- MODULE PfaOps -------------------------------
(***************************************************************************)
(* The data structure of the page frame allocator (PFA) of AhOS and the    *)
(* pure part of its algorithms: src/kernel/mem/page_frame_allocator.c.     *)
(*                                                                         *)
(* Physical memory is counted in page frames: frame f is the physical page *)
(* at address f * PAGE_SIZE.  A region is described by its first frame and *)
(* its number of frames (struct pfa_region, after reserve_regions() has    *)
(* taken the frames of the metadata away); its pagemap gives one state per *)
(* frame.  The operators take the pagemap as a parameter so that the other *)
(* memory modules can use them on their own state.                         *)
(***************************************************************************)
EXTENDS Integers

CONSTANTS
  NbRegions,  \* pfa_meta->nb_regions
  FirstPage,  \* region_ptrs[r]->first_page, as a frame number
  NbPages,    \* region_ptrs[r]->nb_pages
  AddrPages   \* frames of the address space: 2^20 on the 32-bit machine

RegionIds == 1..NbRegions

(***************************************************************************)
(* What pfa_init() establishes: is_valid_region() rejects low memory, so   *)
(* frame 0 (BAD_PAGE) is never in a region; the entries of the physical    *)
(* memory map do not overlap and lie in the address space.  A region can   *)
(* be empty (line 251: the metadata consumed the whole region).            *)
(***************************************************************************)
ASSUME LayoutAssumption ==
  /\ NbRegions \in Nat
  /\ AddrPages \in Nat \ {0}
  /\ FirstPage \in [RegionIds -> Nat \ {0}]
  /\ NbPages \in [RegionIds -> Nat]
  /\ \A r \in RegionIds : FirstPage[r] + NbPages[r] <= AddrPages
  /\ \A q, r \in RegionIds :
       q # r => \/ FirstPage[q] + NbPages[q] <= FirstPage[r]
                \/ FirstPage[r] + NbPages[r] <= FirstPage[q]

\* No region ends at the very top of the address space, see MaxPgf.
TopIsFree == \A r \in RegionIds : FirstPage[r] + NbPages[r] < AddrPages

BAD_PAGE == 0

\* The five states of a page frame (page_state_t).
PAGE_FREE      == "free"
PAGE_USED      == "used"    \* single page frame
PAGE_USED_HEAD == "head"    \* head of a block of page frames
PAGE_USED_TAIL == "tail"    \* tail of a block
PAGE_USED_PART == "part"    \* neither head nor tail

PageStates ==
  {PAGE_FREE, PAGE_USED, PAGE_USED_HEAD, PAGE_USED_TAIL, PAGE_USED_PART}

Pages(r) == 0..(NbPages[r] - 1)

\* A pagemap for every region; pagemap[r][p] is region_ptrs[r]->pagemap[p].
IsPagemap(pm) ==
  /\ pm = [r \in RegionIds |-> pm[r]]
  /\ \A r \in RegionIds : pm[r] \in [Pages(r) -> PageStates]

\* init_pfa_region(): every page of every region starts free.
FreshPagemap == [r \in RegionIds |-> [p \in Pages(r) |-> PAGE_FREE]]

Frame(r, p) == FirstPage[r] + p

-----------------------------------------------------------------------------
(* Allocation *)

\* Faulty variant: the last page of a region is never used.
IsFit_MissesLastPage(pm, r, s, n) ==
  /\ s + n < NbPages[r]
  /\ \A p \in Pages(r) : s <= p /\ p < s + n => pm[r][p] = PAGE_FREE

\* The @n pages from @s on are pages of region r and are all free.
IsFit(pm, r, s, n) ==
  /\ s + n <= NbPages[r]
  /\ \A p \in Pages(r) : s <= p /\ p < s + n => pm[r][p] = PAGE_FREE

\* Page s is where the scan of region r stops: the first fit.  This is what
\* pfa_alloc_single() finds for n = 1 and pfa_alloc_multiple() for n > 1;
\* PfaAllocSteps has both loops step by step.
IsFirstFit(pm, r, s, n) ==
  /\ IsFit(pm, r, s, n)
  /\ \A t \in Pages(r) : t < s => ~ IsFit(pm, r, t, n)

RegionIsFull(pm, r, n) == \A s \in Pages(r) : ~ IsFit(pm, r, s, n)

\* pfa_alloc() asks the regions in order and takes the first that can serve.
Serves(pm, r, s, n) ==
  /\ s \in Pages(r)
  /\ IsFirstFit(pm, r, s, n)
  /\ \A q \in RegionIds : q < r => RegionIsFull(pm, q, n)

NoneServes(pm, n) == \A r \in RegionIds : RegionIsFull(pm, r, n)

\* The state the page p gets in a block of n pages that starts at s.
Mark(s, n, p) ==
  IF n = 1 THEN PAGE_USED
  ELSE IF p = s THEN PAGE_USED_HEAD
  ELSE IF p = s + n - 1 THEN PAGE_USED_TAIL
  ELSE PAGE_USED_PART

\* The pagemap once the pages s .. s+n-1 of region r are handed out.
Allocated(pm, r, s, n) ==
  [pm EXCEPT ![r] = [p \in Pages(r) |->
     IF s <= p /\ p < s + n THEN Mark(s, n, p) ELSE pm[r][p]]]

-----------------------------------------------------------------------------
(* Release *)

\* max_pgf of find_region(), a uint32_t: it wraps to 0 for a region that ends
\* at the top of the address space.
MaxPgf(r) == (FirstPage[r] + NbPages[r]) % AddrPages

\* Faulty variant: the last frame of a region is taken for foreign.
Hosts_NotTheLast(r, pgf) == FirstPage[r] <= pgf /\ pgf < MaxPgf(r) - 1

Hosts(r, pgf) == FirstPage[r] <= pgf /\ pgf < MaxPgf(r)

\* find_region() returns r.
find_region(r, pgf) ==
  /\ r \in RegionIds
  /\ Hosts(r, pgf)
  /\ \A q \in RegionIds : q < r => ~ Hosts(q, pgf)

\* find_region() returns NULL.
FoundNowhere(pgf) == \A r \in RegionIds : ~ Hosts(r, pgf)

\* The loop that releases a block walks over heads and parts and stops at
\* index j: at another state, or past the last page of the region.
WalkStops(pm, r, i, j) ==
  /\ i <= j /\ j <= NbPages[r]
  /\ \A p \in Pages(r) :
       i <= p /\ p < j => pm[r][p] \in {PAGE_USED_HEAD, PAGE_USED_PART}
  /\ j < NbPages[r] => pm[r][j] \notin {PAGE_USED_HEAD, PAGE_USED_PART}

\* Faulty variant: the tail of a block is not released.
Freed_KeepsTail(pm, r, i, j) ==
  [pm EXCEPT ![r] = [p \in Pages(r) |->
     IF p = i \/ (i <= p /\ p < j) THEN PAGE_FREE ELSE pm[r][p]]]

\* The pagemap once the pages i .. j of region r are free.
Freed(pm, r, i, j) ==
  [pm EXCEPT ![r] = [p \in Pages(r) |->
     IF i <= p /\ p <= j THEN PAGE_FREE ELSE pm[r][p]]]

=============================================================================
