------------------------------- MODULE Paging -------------------------------
(***************************************************************************)
(* The page tables of AhOS (src/kernel/mem/paging.c) on top of the page    *)
(* frame allocator, as operators on the memory state of the kernel.        *)
(*                                                                         *)
(* A memory state m is a record with at least the fields                   *)
(*   pagemap   the state of every page frame (module PfaOps)               *)
(*   tables    the page directory: the frame of the page table of every    *)
(*             page directory entry, BAD_PAGE if the entry is not present  *)
(*   mapped    the virtual pages whose page table entry is present         *)
(*   panicked  the kernel called panic(), which never returns              *)
(* All callers of map_page() pass the same address twice (identity         *)
(* mapping) and the same flags, so a mapping is a page and the checks of   *)
(* the flags and of the alignment always pass.  Pages and frames are       *)
(* counted, addresses are in bytes.                                        *)
(***************************************************************************)
EXTENDS PfaOps

CONSTANTS
  PageSize,     \* PAGE_SIZE: 4096
  PtPages,      \* entries of a page table: 1024
  KernelRange,  \* [start, end] of the kernel image, in bytes
  VramRange,    \* [start, end] of the video memory, in bytes
  MetaRange,    \* [first, n]: the pages of the metadata of the PFA
  ModuleRange   \* [start, len] of the multiboot module; len = 0 if none

PD_INDEX(page) == page \div PtPages

PdEntries == 0..(AddrPages \div PtPages - 1)

\* The last entry maps the page directory itself (PDE self-mapping).
LastPde == AddrPages \div PtPages - 1

Panicked(m) == [m EXCEPT !.panicked = TRUE]

-----------------------------------------------------------------------------
(* The page frame allocator, on a memory state *)

AllPages == UNION {{r} \X Pages(r) : r \in RegionIds}

\* pfa_alloc(): the new memory state and the first frame, or BAD_PAGE.
pfa_alloc(m, n) ==
  IF n = 0 \/ NoneServes(m.pagemap, n)
    THEN [mem |-> m, ret |-> BAD_PAGE]
    ELSE LET at == CHOOSE p \in AllPages : Serves(m.pagemap, p[1], p[2], n)
         IN  [mem |-> [m EXCEPT !.pagemap = Allocated(@, at[1], at[2], n)],
              ret |-> Frame(at[1], at[2])]

\* pfa_free() of a block whose head is page i of region r.
FreeBlock(m, r, i) ==
  LET j == CHOOSE k \in i..NbPages[r] : WalkStops(m.pagemap, r, i, k)
  IN  IF j < NbPages[r] /\ m.pagemap[r][j] = PAGE_USED_TAIL
        THEN [m EXCEPT !.pagemap = Freed(@, r, i, j)]
        ELSE Panicked([m EXCEPT !.pagemap = Freed(@, r, i, j - 1)])

pfa_free(m, pgf) ==
  IF FoundNowhere(pgf) THEN Panicked(m)
  ELSE LET r == CHOOSE q \in RegionIds : find_region(q, pgf)
           i == pgf - FirstPage[r]
       IN  IF m.pagemap[r][i] = PAGE_USED
             THEN [m EXCEPT !.pagemap = Freed(@, r, i, i)]
           ELSE IF m.pagemap[r][i] = PAGE_USED_HEAD THEN FreeBlock(m, r, i)
           ELSE Panicked(m)

-----------------------------------------------------------------------------
(* Page tables *)

\* new_page_table() and its only caller: without a frame for the table,
\* map_page() panics.  All entries of the new table are not present.
new_page_table(m, pd) ==
  LET pt == pfa_alloc(m, 1)
  IN  IF pt.ret = BAD_PAGE
        THEN Panicked(m)
        ELSE [pt.mem EXCEPT !.tables[pd] = pt.ret,
                            !.mapped = {p \in @ : PD_INDEX(p) # pd}]

SetPte(m, page) == IF m.panicked THEN m ELSE [m EXCEPT !.mapped = @ \cup {page}]

map_page(m, page) ==
  IF m.tables[PD_INDEX(page)] = BAD_PAGE
    THEN SetPte(new_page_table(m, PD_INDEX(page)), page)
  ELSE IF page \in m.mapped
    THEN Panicked(m)   \* "overwriting an already present mapping!"
    ELSE SetPte(m, page)

\* unmap_page() returns true.  Empty page tables are kept.
Unmappable(m, page) ==
  /\ m.tables[PD_INDEX(page)] # BAD_PAGE
  /\ page \in m.mapped

\* unmap_page() in big_free(): a failure panics, and so does an attempt to
\* unmap the page tables.
unmap_page(m, page) ==
  IF PD_INDEX(page) # LastPde /\ Unmappable(m, page)
    THEN [m EXCEPT !.mapped = @ \ {page}]
    ELSE Panicked(m)

\* The loops that map (unmap) the n pages from first on, one after the other,
\* until a panic.
map_pages(m, first, n) ==
  LET after[i \in 0..n] ==
        IF i = 0 THEN m
        ELSE IF after[i - 1].panicked THEN after[i - 1]
        ELSE map_page(after[i - 1], first + i - 1)
  IN  after[n]

unmap_pages(m, first, n) ==
  LET after[i \in 0..n] ==
        IF i = 0 THEN m
        ELSE IF after[i - 1].panicked THEN after[i - 1]
        ELSE unmap_page(after[i - 1], first + i - 1)
  IN  after[n]

-----------------------------------------------------------------------------
(* Start-up *)

\* Rounded up to the next page boundary.
page_align(addr) == ((addr + PageSize - 1) \div PageSize) * PageSize

\* The pages bootstrap_mapping() maps for the range of bytes start..end.
BootRange(range) ==
  [first |-> range.start \div PageSize,
   n     |-> (page_align(range.end + 1) - range.start) \div PageSize]

\* The pages phys_mem_map_map_module() maps.
ModulePages ==
  [first |-> ModuleRange.start \div PageSize,
   n     |-> IF ModuleRange.len = 0 THEN 0
             ELSE (ModuleRange.start + ModuleRange.len - 1) \div PageSize
                    - ModuleRange.start \div PageSize + 1]

bootstrap_mapping(m) ==
  LET Map(mem, range) == map_pages(mem, range.first, range.n)
  IN  Map(Map(Map(Map(m, BootRange(KernelRange)), BootRange(VramRange)),
              MetaRange), ModulePages)

\* The memory state paging_setup() leaves behind: a frame for the page
\* directory, whose last entry is itself, and the bootstrap mapping.
paging_setup(pm) ==
  LET bare == [pagemap |-> pm, tables |-> [pd \in PdEntries |-> BAD_PAGE],
               mapped |-> {}, panicked |-> FALSE]
      pgd  == pfa_alloc(bare, 1)
  IN  IF pgd.ret = BAD_PAGE
        THEN Panicked(bare)
        ELSE bootstrap_mapping([pgd.mem EXCEPT !.tables[LastPde] = pgd.ret])

\* The pages that stay mapped for ever.
PagesOf(range) == range.first..(range.first + range.n - 1)

BootPages ==
  PagesOf(BootRange(KernelRange)) \cup PagesOf(BootRange(VramRange))
    \cup PagesOf(MetaRange) \cup PagesOf(ModulePages)

\* The linker script and the boot loader give ranges of bytes.
ASSUME RangesAssumption ==
  /\ \A range \in {KernelRange, VramRange} :
       range.start \in Nat /\ range.end \in Nat /\ range.start <= range.end
  /\ MetaRange.first \in Nat /\ MetaRange.n \in Nat
  /\ ModuleRange.start \in Nat /\ ModuleRange.len \in Nat

(***************************************************************************)
(* What the memory map guarantees: the bootstrap pages are reserved, so    *)
(* they are in no region; neither they nor the regions reach into the last *)
(* page table, where the page directory maps itself.                       *)
(***************************************************************************)
ASSUME PagingAssumption ==
  /\ PageSize \in Nat \ {0}
  /\ PtPages \in Nat \ {0}
  /\ AddrPages % PtPages = 0
  /\ \A p \in BootPages : PD_INDEX(p) < LastPde
  /\ \A r \in RegionIds : \A p \in Pages(r) :
       Frame(r, p) \notin BootPages /\ PD_INDEX(Frame(r, p)) < LastPde

=============================================================================
