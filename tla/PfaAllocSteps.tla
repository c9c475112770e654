---------------------------- MODULE PfaAllocSteps ----------------------------
(***************************************************************************)
(* One call of pfa_alloc(), loop iteration by loop iteration: the walk     *)
(* over the regions (pfa_alloc), the scan for one free page                *)
(* (pfa_alloc_single) and the greedy scan for several, which skips a run   *)
(* of free pages that is too short (pfa_alloc_multiple), in                *)
(* src/kernel/mem/page_frame_allocator.c.  PageFrameAllocator has the      *)
(* whole call as one step that finds "the first fit"; this module is where *)
(* the loops are shown to find it.                                         *)
(***************************************************************************)
EXTENDS PfaOps

CONSTANTS
  Counts,     \* the values of nb_pages the callers pass
  Pagemaps    \* the pagemaps a call can start from

ASSUME CallAssumption ==
  /\ Counts \subseteq Nat
  /\ \A pm \in Pagemaps : IsPagemap(pm)

VARIABLES
  pc,
  cur_pagemap,  \* the state of every page of every region
  before,       \* history: the pagemap when pfa_alloc() was called
  nb_pages,     \* the argument of the call
  reg,          \* the region pfa_alloc() is at
  start_page,   \* where pfa_alloc_multiple() tries to start a block
  page,         \* the page the innermost loop is at
  block_size,   \* number of free pages found so far from start_page on
  answer        \* the value returned

call_vars ==
  <<pc, cur_pagemap, before, nb_pages, reg, start_page, page, block_size, answer>>

CallInit ==
  /\ pc = "call"
  /\ cur_pagemap \in Pagemaps
  /\ before = cur_pagemap
  /\ nb_pages \in Counts
  /\ reg = 1
  /\ start_page = 0
  /\ page = 0
  /\ block_size = 0
  /\ answer = BAD_PAGE

Goto(from, to) == pc = from /\ pc' = to

SetPage(p, state) ==
  cur_pagemap' = [cur_pagemap EXCEPT ![reg] = [@ EXCEPT ![p] = state]]

-----------------------------------------------------------------------------
(* pfa_alloc(): argument check and loop over the regions *)

RejectEmptyRequest ==
  /\ Goto("call", "done")
  /\ nb_pages = 0
  /\ UNCHANGED <<cur_pagemap, before, nb_pages, reg, start_page, page, block_size, answer>>

EnterLoop ==
  /\ Goto("call", "region")
  /\ nb_pages # 0
  /\ UNCHANGED <<cur_pagemap, before, nb_pages, reg, start_page, page, block_size, answer>>

\* Every region was asked: not enough memory.
GiveUp ==
  /\ Goto("region", "done")
  /\ reg > NbRegions
  /\ UNCHANGED <<cur_pagemap, before, nb_pages, reg, start_page, page, block_size, answer>>

TrySingle ==
  /\ Goto("region", "single")
  /\ reg <= NbRegions
  /\ nb_pages = 1
  /\ page' = 0
  /\ UNCHANGED <<cur_pagemap, before, nb_pages, reg, start_page, block_size, answer>>

\* The early return of pfa_alloc_multiple(), on to the next region.
RegionTooSmall ==
  /\ Goto("region", "region")
  /\ reg <= NbRegions
  /\ nb_pages > 1
  /\ nb_pages > NbPages[reg]
  /\ reg' = reg + 1
  /\ UNCHANGED <<cur_pagemap, before, nb_pages, start_page, page, block_size, answer>>

TryMultiple ==
  /\ Goto("region", "outer")
  /\ reg <= NbRegions
  /\ nb_pages > 1
  /\ nb_pages <= NbPages[reg]
  /\ start_page' = 0
  /\ UNCHANGED <<cur_pagemap, before, nb_pages, reg, page, block_size, answer>>

-----------------------------------------------------------------------------
(* pfa_alloc_single() *)

SingleSkips ==
  /\ Goto("single", "single")
  /\ page < NbPages[reg]
  /\ cur_pagemap[reg][page] # PAGE_FREE
  /\ page' = page + 1
  /\ UNCHANGED <<cur_pagemap, before, nb_pages, reg, start_page, block_size, answer>>

SingleFound ==
  /\ Goto("single", "done")
  /\ page < NbPages[reg]
  /\ cur_pagemap[reg][page] = PAGE_FREE
  /\ SetPage(page, PAGE_USED)
  /\ answer' = Frame(reg, page)
  /\ UNCHANGED <<before, nb_pages, reg, start_page, page, block_size>>

SingleFails ==
  /\ Goto("single", "region")
  /\ page >= NbPages[reg]
  /\ reg' = reg + 1
  /\ UNCHANGED <<cur_pagemap, before, nb_pages, start_page, page, block_size, answer>>

-----------------------------------------------------------------------------
(* pfa_alloc_multiple() *)

OuterSkips ==
  /\ Goto("outer", "outer")
  /\ start_page <= NbPages[reg] - nb_pages
  /\ cur_pagemap[reg][start_page] # PAGE_FREE
  /\ start_page' = start_page + 1
  /\ UNCHANGED <<cur_pagemap, before, nb_pages, reg, page, block_size, answer>>

\* Faulty variant: a block may start where it cannot fit.
OuterEnters_TooLate ==
  /\ Goto("outer", "inner")
  /\ start_page < NbPages[reg]
  /\ cur_pagemap[reg][start_page] = PAGE_FREE
  /\ block_size' = 0
  /\ page' = start_page
  /\ UNCHANGED <<cur_pagemap, before, nb_pages, reg, start_page, answer>>

OuterEnters ==
  /\ Goto("outer", "inner")
  /\ start_page <= NbPages[reg] - nb_pages
  /\ cur_pagemap[reg][start_page] = PAGE_FREE
  /\ block_size' = 0
  /\ page' = start_page
  /\ UNCHANGED <<cur_pagemap, before, nb_pages, reg, start_page, answer>>

OuterFails ==
  /\ Goto("outer", "region")
  /\ start_page > NbPages[reg] - nb_pages
  /\ reg' = reg + 1
  /\ UNCHANGED <<cur_pagemap, before, nb_pages, start_page, page, block_size, answer>>

InnerCounts ==
  /\ Goto("inner", "inner")
  /\ block_size < nb_pages
  /\ cur_pagemap[reg][page] = PAGE_FREE
  /\ block_size' = block_size + 1
  /\ page' = page + 1
  /\ UNCHANGED <<cur_pagemap, before, nb_pages, reg, start_page, answer>>

\* The run is long enough: goto found.
InnerFound ==
  /\ Goto("inner", "found")
  /\ block_size = nb_pages
  /\ page' = start_page
  /\ UNCHANGED <<cur_pagemap, before, nb_pages, reg, start_page, block_size, answer>>

\* Faulty variant: skips a page that was not looked at.
InnerTooShort_SkipsOne ==
  /\ Goto("inner", "outer")
  /\ block_size < nb_pages
  /\ cur_pagemap[reg][page] # PAGE_FREE
  /\ start_page' = page + 2
  /\ UNCHANGED <<cur_pagemap, before, nb_pages, reg, page, block_size, answer>>

\* Faulty variant: forgets to go on.
InnerTooShort_Stays ==
  /\ Goto("inner", "outer")
  /\ block_size < nb_pages
  /\ cur_pagemap[reg][page] # PAGE_FREE
  /\ UNCHANGED <<cur_pagemap, before, nb_pages, reg, start_page, page, block_size, answer>>

\* The run is too short: go on after the page that ended it.
InnerTooShort ==
  /\ Goto("inner", "outer")
  /\ block_size < nb_pages
  /\ cur_pagemap[reg][page] # PAGE_FREE
  /\ start_page' = page + 1
  /\ UNCHANGED <<cur_pagemap, before, nb_pages, reg, page, block_size, answer>>

FoundMarks ==
  /\ Goto("found", "found")
  /\ page < start_page + nb_pages
  /\ SetPage(page, IF page = start_page THEN PAGE_USED_HEAD
                   ELSE IF page = start_page + nb_pages - 1 THEN PAGE_USED_TAIL
                   ELSE PAGE_USED_PART)
  /\ page' = page + 1
  /\ UNCHANGED <<before, nb_pages, reg, start_page, block_size, answer>>

FoundReturns ==
  /\ Goto("found", "done")
  /\ page >= start_page + nb_pages
  /\ answer' = Frame(reg, start_page)
  /\ UNCHANGED <<cur_pagemap, before, nb_pages, reg, start_page, page, block_size>>

-----------------------------------------------------------------------------

\* The caller has its answer.
Returned == pc = "done" /\ UNCHANGED call_vars

Step ==
  \/ RejectEmptyRequest \/ EnterLoop \/ GiveUp
  \/ TrySingle \/ SingleSkips \/ SingleFound \/ SingleFails
  \/ RegionTooSmall \/ TryMultiple
  \/ OuterSkips \/ OuterEnters \/ OuterFails
  \/ InnerCounts \/ InnerFound \/ InnerTooShort
  \/ FoundMarks \/ FoundReturns

CallNext == Step \/ Returned

\* Nothing preempts the call for good: the interrupt handlers return to it.
CallSpec == CallInit /\ [][CallNext]_call_vars /\ WF_call_vars(Step)

-----------------------------------------------------------------------------
(* Properties *)

\* Types of the locals of the three functions; reg can pass the last region.
CallTypeOK ==
  /\ pc \in {"call", "region", "single", "outer", "inner", "found", "done"}
  /\ IsPagemap(cur_pagemap) /\ IsPagemap(before)
  /\ nb_pages \in Nat
  /\ reg \in 1..(NbRegions + 1)
  /\ start_page \in Nat /\ page \in Nat /\ block_size \in Nat
  /\ answer \in 0..AddrPages

\* No loop reads the pagemap of a region that does not exist, nor a page past
\* the end of a pagemap (pagemap[0] is not bounds-checked by the language).
NoOutOfBoundsRead ==
  /\ pc \in {"single", "outer", "inner", "found"} => reg <= NbRegions
  /\ pc = "outer" /\ start_page <= NbPages[reg] - nb_pages => start_page < NbPages[reg]
  /\ pc = "inner" /\ block_size < nb_pages => page < NbPages[reg]
  /\ pc = "found" /\ page < start_page + nb_pages => page < NbPages[reg]

\* The answer of the call: the start of the first fit of the first region
\* that has one, with exactly its pages marked; or BAD_PAGE and an untouched
\* pagemap, and then no region has nb_pages consecutive free pages, although
\* the scan never looked again at the runs it skipped.
AnswerIsFirstFit ==
  pc = "done" =>
    \/ /\ nb_pages # 0
       /\ \E r \in RegionIds : \E s \in Pages(r) :
            /\ Serves(before, r, s, nb_pages)
            /\ answer = Frame(r, s)
            /\ cur_pagemap = Allocated(before, r, s, nb_pages)
    \/ /\ nb_pages = 0 \/ NoneServes(before, nb_pages)
       /\ answer = BAD_PAGE
       /\ cur_pagemap = before

\* Every call returns: each scan ends whatever the pagemap looks like.
CallReturns == <>(pc = "done")

=============================================================================
