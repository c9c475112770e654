------------------------------ MODULE PfaProofs ------------------------------
(***************************************************************************)
(* Proofs about the page frame allocator, for every layout of the regions  *)
(* and every sequence of calls.  TypeOK and PagemapTellsTheBlocks are      *)
(* inductive together: that a release frees the right pages follows from   *)
(* the marks of the pagemap, and that the marks are right follows from the *)
(* blocks being disjoint.                                                  *)
(***************************************************************************)
EXTENDS PageFrameAllocator, PfaAllocSteps, TLAPS

IInv == TypeOK /\ PagemapTellsTheBlocks

USE DEF PAGE_FREE, PAGE_USED, PAGE_USED_HEAD, PAGE_USED_TAIL, PAGE_USED_PART

-----------------------------------------------------------------------------
(* The regions and the marks *)

\* The layout, in the form the proofs use it: regions are intervals of frame
\* numbers above BAD_PAGE that do not overlap.
LEMMA Layout ==
  /\ NbRegions \in Nat /\ AddrPages \in Nat /\ AddrPages > 0
  /\ \A r \in RegionIds : /\ r \in Nat
                          /\ FirstPage[r] \in Nat /\ FirstPage[r] > 0
                          /\ NbPages[r] \in Nat
                          /\ FirstPage[r] + NbPages[r] <= AddrPages
  /\ \A q, r \in RegionIds :
       q # r => \/ FirstPage[q] + NbPages[q] <= FirstPage[r]
                \/ FirstPage[r] + NbPages[r] <= FirstPage[q]
BY LayoutAssumption DEF RegionIds

\* A frame number determines the region and the page.
LEMMA FrameInjective ==
  ASSUME NEW q \in RegionIds, NEW r \in RegionIds,
         NEW p \in Pages(q), NEW s \in Pages(r),
         Frame(q, p) = Frame(r, s)
  PROVE  q = r /\ p = s
BY Layout DEF Frame, Pages

\* No mark of a held page is PAGE_FREE; the mark tells the block's first page.
LEMMA MarkFacts ==
  ASSUME NEW s \in Int, NEW n \in Nat, n > 0, NEW p \in Int, s <= p, p < s + n
  PROVE  /\ Mark(s, n, p) \in PageStates \ {PAGE_FREE}
         /\ Mark(s, n, p) = PAGE_USED <=> n = 1
         /\ Mark(s, n, p) = PAGE_USED_HEAD <=> n # 1 /\ p = s
         /\ Mark(s, n, p) = PAGE_USED_TAIL <=> n # 1 /\ p = s + n - 1
         /\ n # 1 /\ p # s + n - 1 => Mark(s, n, p) \in {PAGE_USED_HEAD, PAGE_USED_PART}
<1>1. CASE n = 1
  BY <1>1 DEF Mark, PageStates
<1>2. CASE n # 1 /\ p = s
  BY <1>2 DEF Mark, PageStates
<1>3. CASE n # 1 /\ p # s /\ p = s + n - 1
  BY <1>3 DEF Mark, PageStates
<1>4. CASE n # 1 /\ p # s /\ p # s + n - 1
  BY <1>4 DEF Mark, PageStates
<1>5. QED
  BY <1>1, <1>2, <1>3, <1>4

-----------------------------------------------------------------------------
(* What the invariant says about one page *)

\* A page that is not free belongs to a held block of its own region.
LEMMA BlockOfPage ==
  ASSUME IInv, NEW r \in RegionIds, NEW p \in Pages(r), pagemap[r][p] # PAGE_FREE
  PROVE  \E b \in blocks :
           /\ b \in Blocks
           /\ InRegion(b, r)
           /\ Frame(r, p) >= b.pgf /\ Frame(r, p) < b.pgf + b.n
           /\ pagemap[r][p] = Mark(b.pgf, b.n, Frame(r, p))
<1>1. PICK b \in blocks : Frame(r, p) >= b.pgf /\ Frame(r, p) < b.pgf + b.n
  BY DEF IInv, PagemapTellsTheBlocks, MarkedPagesAreHeld
<1>2. b \in Blocks
  BY DEF IInv, TypeOK
<1>3. PICK q \in RegionIds : InRegion(b, q)
  BY DEF IInv, PagemapTellsTheBlocks, BlocksInRegions
<1>4. q = r
  BY <1>1, <1>2, <1>3, Layout DEF InRegion, Frame, Pages, Blocks
<1>5. pagemap[r][p] = Mark(b.pgf, b.n, Frame(r, p))
  BY <1>1 DEF IInv, PagemapTellsTheBlocks, HeldPagesAreMarked
<1>6. QED
  BY <1>1, <1>2, <1>3, <1>4, <1>5

\* A page marked used or head is the first page of exactly one held block.
LEMMA HeadOfBlock ==
  ASSUME IInv, NEW r \in RegionIds, NEW p \in Pages(r),
         pagemap[r][p] \in {PAGE_USED, PAGE_USED_HEAD}
  PROVE  \E b \in blocks :
           /\ b \in Blocks
           /\ InRegion(b, r)
           /\ b.pgf = Frame(r, p)
           /\ pagemap[r][p] = PAGE_USED <=> b.n = 1
<1>1. PICK b \in blocks :
         /\ b \in Blocks
         /\ InRegion(b, r)
         /\ Frame(r, p) >= b.pgf /\ Frame(r, p) < b.pgf + b.n
         /\ pagemap[r][p] = Mark(b.pgf, b.n, Frame(r, p))
  BY BlockOfPage
<1>2. /\ b.pgf \in Int /\ b.n \in Nat /\ b.n > 0
      /\ Frame(r, p) \in Int
  BY <1>1, Layout DEF Blocks, Frame, Pages
<1>3. /\ pagemap[r][p] = PAGE_USED <=> b.n = 1
      /\ pagemap[r][p] = PAGE_USED_HEAD <=> b.n # 1 /\ Frame(r, p) = b.pgf
  BY <1>1, <1>2, MarkFacts
<1>4. b.pgf = Frame(r, p)
  BY <1>1, <1>2, <1>3
<1>5. QED
  BY <1>1, <1>3, <1>4

\* No held block has a frame among pages that are all free.
LEMMA FitMissesBlocks ==
  ASSUME IInv, NEW r \in RegionIds, NEW s \in Pages(r), NEW n \in Nat, n > 0,
         IsFit(pagemap, r, s, n), NEW b \in blocks
  PROVE  \/ b.pgf + b.n <= Frame(r, s)
         \/ Frame(r, s) + n <= b.pgf
<1> SUFFICES ASSUME b.pgf + b.n > Frame(r, s), Frame(r, s) + n > b.pgf
             PROVE  FALSE
  BY Layout DEF IInv, TypeOK, Blocks, Frame, Pages
<1>1. b \in Blocks
  BY DEF IInv, TypeOK
<1>2. PICK q \in RegionIds : InRegion(b, q)
  BY DEF IInv, PagemapTellsTheBlocks, BlocksInRegions
<1>3. q = r
  BY <1>1, <1>2, Layout DEF InRegion, Frame, Pages, Blocks, IsFit
<1> DEFINE p == IF b.pgf <= Frame(r, s) THEN s ELSE b.pgf - FirstPage[r]
<1>4. /\ p \in Pages(r) /\ s <= p /\ p < s + n
      /\ Frame(r, p) >= b.pgf /\ Frame(r, p) < b.pgf + b.n
  BY <1>1, <1>2, <1>3, Layout DEF InRegion, Frame, Pages, Blocks, IsFit
<1>5. pagemap[r][p] = PAGE_FREE
  BY <1>4 DEF IsFit
<1>6. pagemap[r][p] = Mark(b.pgf, b.n, Frame(r, p))
  BY <1>4 DEF IInv, PagemapTellsTheBlocks, HeldPagesAreMarked
<1>7. b.pgf \in Int /\ b.n \in Nat /\ b.n > 0 /\ Frame(r, p) \in Int
  BY <1>1, <1>4, Layout DEF Blocks, Frame, Pages
<1>8. Mark(b.pgf, b.n, Frame(r, p)) # PAGE_FREE
  BY <1>4, <1>7, MarkFacts
<1>9. QED
  BY <1>5, <1>6, <1>8

\* The loop of pfa_free() that starts at the head of a held block of several
\* pages ends at its last page, which is its tail: no sanity check fires.
LEMMA WalkEndsAtTail ==
  ASSUME IInv, NEW r \in RegionIds, NEW b \in blocks, InRegion(b, r), b.n # 1,
         NEW i \in Pages(r), b.pgf = Frame(r, i),
         NEW j \in i..NbPages[r], WalkStops(pagemap, r, i, j)
  PROVE  /\ j = i + b.n - 1
         /\ j < NbPages[r]
         /\ pagemap[r][j] = PAGE_USED_TAIL
<1>1. b.pgf \in Int /\ b.n \in Nat /\ b.n > 1
  BY DEF IInv, TypeOK, Blocks
<1>2. i \in Nat /\ j \in Nat /\ i <= j /\ i + b.n <= NbPages[r]
  BY <1>1, Layout DEF Pages, InRegion, Frame
<1>3. ASSUME NEW p \in Pages(r), i <= p, p < i + b.n
      PROVE  pagemap[r][p] = Mark(b.pgf, b.n, Frame(r, p))
  BY <1>1, <1>2, <1>3, Layout
  DEF IInv, PagemapTellsTheBlocks, HeldPagesAreMarked, Frame, Pages
<1>4. ASSUME NEW p \in Pages(r), i <= p, p < i + b.n - 1
      PROVE  pagemap[r][p] \in {PAGE_USED_HEAD, PAGE_USED_PART}
  BY <1>1, <1>2, <1>3, <1>4, Layout, MarkFacts DEF Frame, Pages
<1>5. /\ i + b.n - 1 \in Pages(r)
      /\ pagemap[r][i + b.n - 1] = PAGE_USED_TAIL
  <2>1. i + b.n - 1 \in Pages(r)
    BY <1>1, <1>2, Layout DEF Pages
  <2>2. /\ Frame(r, i + b.n - 1) = b.pgf + b.n - 1
        /\ pagemap[r][i + b.n - 1] = Mark(b.pgf, b.n, Frame(r, i + b.n - 1))
    BY <1>1, <1>2, <1>3, <2>1, Layout DEF Frame, Pages
  <2>3. QED
    BY <1>1, <2>1, <2>2, MarkFacts
<1>6. ~ (j < i + b.n - 1)
  <2>1. SUFFICES ASSUME j < i + b.n - 1 PROVE FALSE
    OBVIOUS
  <2>2. j \in Pages(r) /\ j < NbPages[r]
    BY <1>1, <1>2, <2>1, Layout DEF Pages
  <2>3. pagemap[r][j] \in {PAGE_USED_HEAD, PAGE_USED_PART}
    BY <1>2, <1>4, <2>1, <2>2
  <2>4. QED
    BY <2>2, <2>3 DEF WalkStops
<1>7. ~ (j > i + b.n - 1)
  BY <1>1, <1>2, <1>5 DEF WalkStops
<1>8. QED
  BY <1>1, <1>2, <1>5, <1>6, <1>7, Layout

-----------------------------------------------------------------------------
(* Each operation preserves the invariant *)

LEMMA InitHolds == Init => IInv
<1> SUFFICES ASSUME Init PROVE IInv
  OBVIOUS
<1>1. TypeOK
  <2>1. IsPagemap(FreshPagemap)
    BY DEF IsPagemap, FreshPagemap, PageStates
  <2>2. ret \in 0..AddrPages
    BY Layout DEF Init, BAD_PAGE
  <2>3. QED
    BY <2>1, <2>2, Zenon DEF Init, TypeOK
<1>2. PagemapTellsTheBlocks
  BY DEF Init, FreshPagemap, PagemapTellsTheBlocks, BlocksInRegions,
         BlocksAreDisjoint, HeldPagesAreMarked, MarkedPagesAreHeld
<1>3. QED
  BY <1>1, <1>2 DEF IInv

LEMMA AllocServedHolds ==
  ASSUME IInv, NEW n \in Requests, AllocServed(n)
  PROVE  IInv'
<1>1. n \in Nat /\ n > 0
  BY RequestsAssumption DEF AllocServed
<1>r. PICK r \in RegionIds : \E s \in Pages(r) :
         /\ Serves(pagemap, r, s, n)
         /\ pagemap' = Allocated(pagemap, r, s, n)
         /\ blocks' = blocks \cup {[pgf |-> Frame(r, s), n |-> n]}
         /\ ret' = Frame(r, s)
         /\ req' = n
         /\ panicked' = panicked
  BY DEF AllocServed
<1>2. PICK s \in Pages(r) :
         /\ Serves(pagemap, r, s, n)
         /\ pagemap' = Allocated(pagemap, r, s, n)
         /\ blocks' = blocks \cup {[pgf |-> Frame(r, s), n |-> n]}
         /\ ret' = Frame(r, s)
         /\ req' = n
         /\ panicked' = panicked
  BY <1>r
<1> DEFINE new == [pgf |-> Frame(r, s), n |-> n]
<1>3. /\ IsFit(pagemap, r, s, n)
      /\ s \in Nat /\ s + n <= NbPages[r]
  BY <1>2, Layout DEF Serves, IsFirstFit, IsFit, Pages
<1>4. /\ pagemap' = [q \in RegionIds |-> pagemap'[q]]
      /\ \A q \in RegionIds : q # r => pagemap'[q] = pagemap[q]
      /\ pagemap'[r] = [p \in Pages(r) |->
            IF s <= p /\ p < s + n THEN Mark(s, n, p) ELSE pagemap[r][p]]
  BY <1>2 DEF Allocated, IInv, TypeOK, IsPagemap
<1>5. TypeOK'
  <2>1. ASSUME NEW q \in RegionIds PROVE pagemap'[q] \in [Pages(q) -> PageStates]
    <3>1. CASE q # r
      BY <1>4, <3>1 DEF IInv, TypeOK, IsPagemap
    <3>2. CASE q = r
      <4>1. ASSUME NEW p \in Pages(r)
            PROVE  (IF s <= p /\ p < s + n THEN Mark(s, n, p) ELSE pagemap[r][p])
                     \in PageStates
        BY <1>1, <1>3, Layout, MarkFacts DEF IInv, TypeOK, IsPagemap, Pages
      <4>2. QED
        BY <1>4, <3>2, <4>1
    <3>3. QED
      BY <3>1, <3>2
  <2>2. new \in Blocks /\ Frame(r, s) \in 0..AddrPages
    BY <1>1, <1>3, Layout DEF Blocks, Frame
  <2>3. QED
    BY <1>2, <1>4, <2>1, <2>2 DEF IInv, TypeOK, IsPagemap
<1>6. BlocksInRegions'
  <2>1. InRegion(new, r)
    BY <1>1, <1>3, Layout DEF InRegion, Frame
  <2>2. QED
    BY <1>2, <2>1 DEF IInv, PagemapTellsTheBlocks, BlocksInRegions, InRegion
<1>7. \A b \in blocks : b.pgf + b.n <= new.pgf \/ new.pgf + new.n <= b.pgf
  BY <1>1, <1>3, FitMissesBlocks
<1>8. BlocksAreDisjoint'
  BY <1>2, <1>7 DEF IInv, PagemapTellsTheBlocks, BlocksAreDisjoint
<1>9. HeldPagesAreMarked'
  <2>1. SUFFICES ASSUME NEW b \in blocks', NEW q \in RegionIds, NEW p \in Pages(q),
                        Frame(q, p) >= b.pgf, Frame(q, p) < b.pgf + b.n
                 PROVE  pagemap'[q][p] = Mark(b.pgf, b.n, Frame(q, p))
    BY DEF HeldPagesAreMarked, Pages, Frame
  <2>2. CASE b = new
    <3>1. q = r /\ s <= p /\ p < s + n
      BY <1>1, <1>3, <2>1, <2>2, Layout DEF Frame, Pages
    <3>2. pagemap'[q][p] = Mark(s, n, p)
      BY <1>4, <3>1
    <3>3. Mark(s, n, p) = Mark(Frame(r, s), n, Frame(r, p))
      BY <1>1, <1>3, <3>1, Layout DEF Frame, Pages, Mark
    <3>4. QED
      BY <2>2, <3>1, <3>2, <3>3
  <2>3. CASE b \in blocks /\ b # new
    <3>1. pagemap[q][p] = Mark(b.pgf, b.n, Frame(q, p))
      BY <2>1, <2>3 DEF IInv, PagemapTellsTheBlocks, HeldPagesAreMarked
    <3>2. b \in Blocks
      BY <2>3 DEF IInv, TypeOK
    <3>3. ~ (q = r /\ s <= p /\ p < s + n)
      BY <1>1, <1>3, <1>7, <2>1, <2>3, <3>2, Layout DEF Frame, Pages, Blocks
    <3>4. pagemap'[q][p] = pagemap[q][p]
      BY <1>4, <3>3
    <3>5. QED
      BY <3>1, <3>4
  <2>4. QED
    BY <1>2, <2>2, <2>3
<1>10. MarkedPagesAreHeld'
  <2>1. SUFFICES ASSUME NEW q \in RegionIds, NEW p \in Pages(q),
                        pagemap'[q][p] # PAGE_FREE
                 PROVE  \E b \in blocks' : Frame(q, p) >= b.pgf /\ Frame(q, p) < b.pgf + b.n
    BY DEF MarkedPagesAreHeld, Pages, Frame
  <2>2. CASE q = r /\ s <= p /\ p < s + n
    <3>1. Frame(q, p) >= new.pgf /\ Frame(q, p) < new.pgf + new.n
      BY <1>1, <1>3, <2>2, Layout DEF Frame, Pages
    <3>2. QED
      BY <1>2, <3>1
  <2>3. CASE ~ (q = r /\ s <= p /\ p < s + n)
    <3>1. pagemap'[q][p] = pagemap[q][p]
      BY <1>4, <2>3
    <3>2. QED
      BY <1>2, <2>1, <3>1 DEF IInv, PagemapTellsTheBlocks, MarkedPagesAreHeld
  <2>4. QED
    BY <2>2, <2>3
<1>11. QED
  BY <1>5, <1>6, <1>8, <1>9, <1>10 DEF IInv, PagemapTellsTheBlocks

LEMMA AllocRefusedHolds ==
  ASSUME IInv, NEW n \in Requests, AllocRefused(n)
  PROVE  IInv'
<1>1. TypeOK'
  BY Layout DEF IInv, TypeOK, AllocRefused, BAD_PAGE
<1>2. PagemapTellsTheBlocks'
  BY DEF AllocRefused, IInv, PagemapTellsTheBlocks, BlocksInRegions, BlocksAreDisjoint,
         HeldPagesAreMarked, MarkedPagesAreHeld, InRegion
<1>3. QED
  BY <1>1, <1>2 DEF IInv

LEMMA PanicHolds ==
  ASSUME IInv, Panic
  PROVE  IInv'
<1>1. TypeOK'
  <2>1. panicked' \in BOOLEAN
    BY Zenon DEF Panic
  <2>2. QED
    BY <2>1 DEF IInv, TypeOK, Panic
<1>2. PagemapTellsTheBlocks'
  BY DEF Panic, IInv, PagemapTellsTheBlocks, BlocksInRegions, BlocksAreDisjoint,
         HeldPagesAreMarked, MarkedPagesAreHeld, InRegion
<1>3. QED
  BY <1>1, <1>2 DEF IInv

\* Freeing exactly the pages of one held block keeps the pagemap and the
\* other blocks in agreement: single pages and blocks alike.
LEMMA ReleaseHolds ==
  ASSUME IInv, NEW r \in RegionIds, NEW i \in Pages(r), NEW b \in blocks,
         InRegion(b, r), b.pgf = Frame(r, i), NEW j, j = i + b.n - 1,
         pagemap' = Freed(pagemap, r, i, j),
         GiveBack(Frame(r, i)),
         req' = req, ret' = ret, panicked' = panicked
  PROVE  IInv'
<1>1. b.pgf \in Nat /\ b.n \in Nat /\ b.n > 0 /\ i \in Nat /\ j \in Nat
  BY Layout DEF IInv, TypeOK, Blocks, Pages
<1>2. blocks \subseteq Blocks
  BY DEF IInv, TypeOK
<1>3. /\ pagemap' = [q \in RegionIds |-> pagemap'[q]]
      /\ \A q \in RegionIds : q # r => pagemap'[q] = pagemap[q]
      /\ pagemap'[r] = [p \in Pages(r) |->
            IF i <= p /\ p <= j THEN PAGE_FREE ELSE pagemap[r][p]]
  BY DEF Freed, IInv, TypeOK, IsPagemap
<1>4. blocks' = blocks \ {b}
  <2>1. ASSUME NEW c \in blocks, c.pgf = b.pgf PROVE c = b
    BY <1>1, <1>2, <2>1 DEF IInv, PagemapTellsTheBlocks, BlocksAreDisjoint, Blocks
  <2>2. QED
    BY <2>1 DEF GiveBack
<1>5. TypeOK'
  <2>1. ASSUME NEW q \in RegionIds PROVE pagemap'[q] \in [Pages(q) -> PageStates]
    BY <1>3 DEF IInv, TypeOK, IsPagemap, PageStates
  <2>2. QED
    BY <1>3, <1>4, <2>1 DEF IInv, TypeOK, IsPagemap
<1>6. BlocksInRegions' /\ BlocksAreDisjoint'
  BY <1>4 DEF IInv, PagemapTellsTheBlocks, BlocksInRegions, BlocksAreDisjoint, InRegion
<1>7. ASSUME NEW q \in RegionIds, NEW p \in Pages(q),
             ~ (Frame(q, p) >= b.pgf /\ Frame(q, p) < b.pgf + b.n)
      PROVE  pagemap'[q][p] = pagemap[q][p]
  <2>1. ~ (q = r /\ i <= p /\ p <= j)
    BY <1>1, <1>7, Layout DEF Frame, Pages
  <2>2. QED
    BY <1>3, <2>1
<1>8. HeldPagesAreMarked'
  <2>1. SUFFICES ASSUME NEW c \in blocks', NEW q \in RegionIds, NEW p \in Pages(q),
                        Frame(q, p) >= c.pgf, Frame(q, p) < c.pgf + c.n
                 PROVE  pagemap'[q][p] = Mark(c.pgf, c.n, Frame(q, p))
    BY DEF HeldPagesAreMarked, Pages, Frame
  <2>2. ~ (Frame(q, p) >= b.pgf /\ Frame(q, p) < b.pgf + b.n)
    BY <1>1, <1>2, <1>4, <2>1, Layout
    DEF IInv, PagemapTellsTheBlocks, BlocksAreDisjoint, Blocks, Frame, Pages
  <2>3. pagemap[q][p] = Mark(c.pgf, c.n, Frame(q, p))
    BY <1>4, <2>1 DEF IInv, PagemapTellsTheBlocks, HeldPagesAreMarked
  <2>4. QED
    BY <1>7, <2>2, <2>3
<1>9. MarkedPagesAreHeld'
  <2>1. SUFFICES ASSUME NEW q \in RegionIds, NEW p \in Pages(q),
                        pagemap'[q][p] # PAGE_FREE
                 PROVE  \E c \in blocks' : Frame(q, p) >= c.pgf /\ Frame(q, p) < c.pgf + c.n
    BY DEF MarkedPagesAreHeld, Pages, Frame
  <2>2. ~ (Frame(q, p) >= b.pgf /\ Frame(q, p) < b.pgf + b.n)
    <3>1. SUFFICES ASSUME Frame(q, p) >= b.pgf, Frame(q, p) < b.pgf + b.n
                   PROVE  FALSE
      OBVIOUS
    <3>2. q = r /\ i <= p /\ p <= j
      BY <1>1, <3>1, Layout DEF InRegion, Frame, Pages
    <3>3. QED
      BY <1>3, <2>1, <3>2
  <2>3. pagemap[q][p] # PAGE_FREE
    BY <1>7, <2>1, <2>2
  <2>4. QED
    BY <1>4, <2>2, <2>3 DEF IInv, PagemapTellsTheBlocks, MarkedPagesAreHeld
<1>10. QED
  BY <1>5, <1>6, <1>8, <1>9 DEF IInv, PagemapTellsTheBlocks

LEMMA FreeSingleHolds ==
  ASSUME IInv, NEW r \in RegionIds, NEW i \in Pages(r), FreeSingle(Frame(r, i), r, i)
  PROVE  IInv' /\ panicked' = panicked
<1>1. PICK b \in blocks : InRegion(b, r) /\ b.pgf = Frame(r, i) /\ b.n = 1
  BY HeadOfBlock DEF FreeSingle
<1>2. i = i + b.n - 1
  BY <1>1 DEF Pages
<1>3. QED
  BY <1>1, <1>2, ReleaseHolds DEF FreeSingle

LEMMA FreeBlockHolds ==
  ASSUME IInv, NEW r \in RegionIds, NEW i \in Pages(r), FreeBlock(Frame(r, i), r, i)
  PROVE  IInv' /\ panicked' = panicked
<1>1. PICK b \in blocks : InRegion(b, r) /\ b.pgf = Frame(r, i) /\ b.n # 1
  BY HeadOfBlock DEF FreeBlock
<1>2. PICK j \in i..NbPages[r] :
        /\ WalkStops(pagemap, r, i, j)
        /\ IF j < NbPages[r] /\ pagemap[r][j] = PAGE_USED_TAIL
             THEN /\ pagemap' = Freed(pagemap, r, i, j)
                  /\ GiveBack(Frame(r, i))
                  /\ UNCHANGED panicked
             ELSE /\ pagemap' = Freed(pagemap, r, i, j - 1)
                  /\ panicked' = TRUE
                  /\ UNCHANGED blocks
  BY DEF FreeBlock
<1>3. j = i + b.n - 1 /\ j < NbPages[r] /\ pagemap[r][j] = PAGE_USED_TAIL
  BY <1>1, <1>2, WalkEndsAtTail
<1>4. QED
  BY <1>1, <1>2, <1>3, ReleaseHolds DEF FreeBlock

\* The region find_region() returns has the frame, at the index it computes.
LEMMA RegionFound ==
  ASSUME NEW r, NEW pgf \in 0..(AddrPages - 1), find_region(r, pgf)
  PROVE  /\ r \in RegionIds
         /\ pgf - FirstPage[r] \in Pages(r)
         /\ pgf = Frame(r, pgf - FirstPage[r])
<1>1. r \in RegionIds /\ FirstPage[r] <= pgf /\ pgf < MaxPgf(r)
  BY DEF find_region, Hosts
<1>2. MaxPgf(r) <= FirstPage[r] + NbPages[r]
  <2>1. CASE FirstPage[r] + NbPages[r] < AddrPages
    BY <1>1, <2>1, Layout DEF MaxPgf
  <2>2. CASE FirstPage[r] + NbPages[r] = AddrPages
    BY <1>1, <2>2, Layout DEF MaxPgf
  <2>3. QED
    BY <1>1, <2>1, <2>2, Layout
<1>3. MaxPgf(r) \in Int
  BY <1>1, Layout DEF MaxPgf
<1>4. QED
  BY <1>1, <1>2, <1>3, Layout DEF Pages, Frame

LEMMA FreeHolds ==
  ASSUME IInv, NEW pgf \in 0..(AddrPages - 1), NEW unaligned \in BOOLEAN,
         pfa_free(pgf, unaligned)
  PROVE  IInv'
<1>1. CASE Panic
  BY <1>1, PanicHolds
<1>2. ASSUME NEW r \in RegionIds, find_region(r, pgf),
             \/ FreeSingle(pgf, r, pgf - FirstPage[r])
             \/ FreeBlock(pgf, r, pgf - FirstPage[r])
      PROVE  IInv'
  BY <1>2, RegionFound, FreeSingleHolds, FreeBlockHolds
<1>3. QED
  BY <1>1, <1>2 DEF pfa_free, FreeWrongState

LEMMA NextHolds == IInv /\ [Next]_vars => IInv'
<1> SUFFICES ASSUME IInv, [Next]_vars PROVE IInv'
  OBVIOUS
<1>1. ASSUME NEW n \in Requests, pfa_alloc(n) PROVE IInv'
  BY <1>1, AllocServedHolds, AllocRefusedHolds DEF pfa_alloc
<1>2. ASSUME NEW pgf \in 0..(AddrPages - 1), NEW unaligned \in BOOLEAN,
             pfa_free(pgf, unaligned)
      PROVE  IInv'
  BY <1>2, FreeHolds
<1>3. CASE UNCHANGED vars
  BY <1>3 DEF vars, IInv, TypeOK, PagemapTellsTheBlocks, BlocksInRegions,
              BlocksAreDisjoint, HeldPagesAreMarked, MarkedPagesAreHeld, InRegion
<1>4. QED
  BY <1>1, <1>2, <1>3 DEF Next

-----------------------------------------------------------------------------
(* The theorems *)

\* The inductive invariant holds for every layout and all sequences of calls.
THEOREM Invariance == Spec => []IInv
BY InitHolds, NextHolds, PTL DEF Spec

\* pfa_alloc() and pfa_free() keep the types of their data.
THEOREM TypeCorrect == Spec => []TypeOK
BY Invariance, PTL DEF IInv

\* For every layout of the regions: the pagemap and the blocks the callers
\* hold agree, no frame is held twice and none is lost.
THEOREM PagemapCorrect == Spec => []PagemapTellsTheBlocks
BY Invariance, PTL DEF IInv

\* A held block starts at a page marked used or head.
LEMMA HeadIsMarked ==
  ASSUME IInv, NEW b \in blocks, NEW r \in RegionIds, NEW i \in Pages(r),
         b.pgf = Frame(r, i)
  PROVE  pagemap[r][i] \in {PAGE_USED, PAGE_USED_HEAD}
<1>1. b.pgf \in Nat /\ b.n \in Nat /\ b.n > 0
  BY DEF IInv, TypeOK, Blocks
<1>2. pagemap[r][i] = Mark(b.pgf, b.n, Frame(r, i))
  BY <1>1 DEF IInv, PagemapTellsTheBlocks, HeldPagesAreMarked
<1>3. QED
  BY <1>1, <1>2, MarkFacts

\* If no region ends at the top of the address space, find_region() finds the
\* region of every held block, and pfa_free() of the block does not panic.
THEOREM LegalFree == TopIsFree => (Spec => LegalFreeNeverPanics)
<1> SUFFICES ASSUME TopIsFree PROVE Spec => LegalFreeNeverPanics
  OBVIOUS
<1>1. ASSUME IInv, NEW b \in blocks, pfa_free(b.pgf, FALSE) PROVE ~ panicked'
  <2>1. PICK r \in RegionIds : InRegion(b, r)
    BY <1>1 DEF IInv, PagemapTellsTheBlocks, BlocksInRegions
  <2>2. b.pgf \in Nat /\ b.n \in Nat /\ b.n > 0
    BY <1>1 DEF IInv, TypeOK, Blocks
  <2>3. b.pgf \in 0..(AddrPages - 1)
    BY <2>1, <2>2, Layout DEF InRegion
  <2>4. MaxPgf(r) = FirstPage[r] + NbPages[r]
    BY <2>1, Layout DEF MaxPgf, TopIsFree
  <2>5. Hosts(r, b.pgf)
    BY <2>1, <2>2, <2>4, Layout DEF Hosts, InRegion
  <2>6. PICK q \in RegionIds :
          /\ find_region(q, b.pgf)
          /\ \/ FreeSingle(b.pgf, q, b.pgf - FirstPage[q])
             \/ FreeBlock(b.pgf, q, b.pgf - FirstPage[q])
             \/ FreeWrongState(q, b.pgf - FirstPage[q])
    BY <1>1, <2>1, <2>5 DEF pfa_free, FoundNowhere
  <2>7. /\ b.pgf - FirstPage[q] \in Pages(q)
        /\ b.pgf = Frame(q, b.pgf - FirstPage[q])
    BY <2>3, <2>6, RegionFound
  <2>8. ~ FreeWrongState(q, b.pgf - FirstPage[q])
    BY <1>1, <2>7, HeadIsMarked DEF FreeWrongState
  <2>9. panicked' = panicked
    BY <1>1, <2>6, <2>7, <2>8, FreeSingleHolds, FreeBlockHolds
  <2>10. QED
    BY <1>1, <2>9 DEF pfa_free
<1>2. IInv => [\A b \in blocks : pfa_free(b.pgf, FALSE) => ~ panicked']_vars
  BY <1>1
<1>3. QED
  BY <1>2, Invariance, PTL DEF LegalFreeNeverPanics

\* Whatever else is passed to pfa_free() panics before the pagemap changes.
THEOREM MisuseCaught == Spec => MisuseAlwaysPanics
<1>1. ASSUME IInv, NEW pgf \in 0..(AddrPages - 1), NEW unaligned \in BOOLEAN,
             pfa_free(pgf, unaligned),
             unaligned \/ \A b \in blocks : b.pgf # pgf
      PROVE  panicked' /\ UNCHANGED <<pagemap, blocks>>
  <2>1. CASE Panic
    BY <2>1 DEF Panic
  <2>2. ASSUME NEW r \in RegionIds, find_region(r, pgf), ~ unaligned,
               \/ FreeSingle(pgf, r, pgf - FirstPage[r])
               \/ FreeBlock(pgf, r, pgf - FirstPage[r])
        PROVE  FALSE
    <3>1. /\ pgf - FirstPage[r] \in Pages(r)
          /\ pgf = Frame(r, pgf - FirstPage[r])
      BY <2>2, RegionFound
    <3>2. pagemap[r][pgf - FirstPage[r]] \in {PAGE_USED, PAGE_USED_HEAD}
      BY <2>2 DEF FreeSingle, FreeBlock
    <3>3. \E b \in blocks : b.pgf = pgf
      BY <1>1, <3>1, <3>2, HeadOfBlock
    <3>4. QED
      BY <1>1, <2>2, <3>3
  <2>3. QED
    BY <1>1, <2>1, <2>2 DEF pfa_free, FreeWrongState
<1>2. IInv => [\A pgf \in 0..(AddrPages - 1), unaligned \in BOOLEAN :
                 /\ pfa_free(pgf, unaligned)
                 /\ unaligned \/ \A b \in blocks : b.pgf # pgf
                 => panicked' /\ UNCHANGED <<pagemap, blocks>>]_vars
  BY <1>1
<1>3. QED
  BY <1>2, Invariance, PTL DEF MisuseAlwaysPanics

-----------------------------------------------------------------------------
(* The abstract allocator *)

\* A frame is free in the abstract state iff its page is marked free.
LEMMA FreeFramesAre ==
  ASSUME NEW f
  PROVE  f \in FreeFrames <=>
           \E r \in RegionIds : \E p \in Pages(r) :
             pagemap[r][p] = PAGE_FREE /\ f = Frame(r, p)
BY DEF FreeFrames

LEMMA InitRefines == Init => Abstract!Init
<1> SUFFICES ASSUME Init PROVE Abstract!Init
  OBVIOUS
<1>1. FreeFrames = UNION {RegionFrames(r) : r \in RegionIds}
  <2>1. ASSUME NEW f \in FreeFrames PROVE f \in UNION {RegionFrames(r) : r \in RegionIds}
    BY <2>1, FreeFramesAre DEF RegionFrames
  <2>2. ASSUME NEW f \in UNION {RegionFrames(r) : r \in RegionIds} PROVE f \in FreeFrames
    <3>1. PICK r \in RegionIds : f \in RegionFrames(r)
      BY <2>2
    <3>2. PICK p \in Pages(r) : f = Frame(r, p)
      BY <3>1 DEF RegionFrames
    <3>3. pagemap[r][p] = PAGE_FREE
      BY DEF Init, FreshPagemap
    <3>4. QED
      BY <3>2, <3>3, FreeFramesAre
  <2>3. QED
    BY <2>1, <2>2
<1>2. QED
  BY <1>1 DEF Init, Abstract!Init

\* pfa_alloc() hands out a run of free frames of one region.
LEMMA AllocRefines ==
  ASSUME IInv, ~ panicked, NEW n \in Requests, AllocServed(n)
  PROVE  Abstract!Next
<1>1. n \in Nat /\ n > 0
  BY RequestsAssumption DEF AllocServed
<1>r. PICK r \in RegionIds : \E s \in Pages(r) :
         /\ Serves(pagemap, r, s, n)
         /\ pagemap' = Allocated(pagemap, r, s, n)
         /\ blocks' = blocks \cup {[pgf |-> Frame(r, s), n |-> n]}
         /\ ret' = Frame(r, s)
         /\ req' = n
         /\ panicked' = panicked
  BY DEF AllocServed
<1>2. PICK s \in Pages(r) :
         /\ Serves(pagemap, r, s, n)
         /\ pagemap' = Allocated(pagemap, r, s, n)
         /\ blocks' = blocks \cup {[pgf |-> Frame(r, s), n |-> n]}
         /\ ret' = Frame(r, s)
         /\ req' = n
         /\ panicked' = panicked
  BY <1>r
<1> DEFINE f == Frame(r, s)
           run == f..(f + n - 1)
<1>3. /\ \A p \in Pages(r) : s <= p /\ p < s + n => pagemap[r][p] = PAGE_FREE
      /\ s \in Nat /\ s + n <= NbPages[r]
  BY <1>2, Layout DEF Serves, IsFirstFit, IsFit, Pages
<1>4. /\ \A q \in RegionIds : q # r => pagemap'[q] = pagemap[q]
      /\ \A p \in Pages(r) :
           pagemap'[r][p] = IF s <= p /\ p < s + n THEN Mark(s, n, p) ELSE pagemap[r][p]
  BY <1>2 DEF Allocated, IInv, TypeOK, IsPagemap
<1>5. ASSUME NEW g \in run
      PROVE  \E p \in Pages(r) : s <= p /\ p < s + n /\ g = Frame(r, p)
  <2>1. /\ g - FirstPage[r] \in Pages(r)
        /\ s <= g - FirstPage[r] /\ g - FirstPage[r] < s + n
        /\ g = Frame(r, g - FirstPage[r])
    BY <1>1, <1>3, <1>5, Layout DEF Frame, Pages
  <2>2. QED
    BY <2>1
<1>6. run \subseteq FreeFrames /\ run \subseteq RegionFrames(r)
  BY <1>3, <1>5, FreeFramesAre DEF RegionFrames
<1>7. FreeFrames' = FreeFrames \ run
  <2>1. ASSUME NEW g \in FreeFrames' PROVE g \in FreeFrames \ run
    <3>1. PICK q \in RegionIds : \E p \in Pages(q) :
                  pagemap'[q][p] = PAGE_FREE /\ g = Frame(q, p)
      BY <2>1 DEF FreeFrames, Pages, Frame
    <3>2. PICK p \in Pages(q) : pagemap'[q][p] = PAGE_FREE /\ g = Frame(q, p)
      BY <3>1
    <3>3. ~ (q = r /\ s <= p /\ p < s + n)
      <4>1. SUFFICES ASSUME q = r, s <= p, p < s + n PROVE FALSE
        OBVIOUS
      <4>2. p \in Int /\ s \in Int
        BY <1>3, <4>1 DEF Pages
      <4>3. QED
        BY <1>1, <1>4, <3>2, <4>1, <4>2, MarkFacts
    <3>4. pagemap[q][p] = PAGE_FREE
      BY <1>4, <3>2, <3>3
    <3>5. g \notin run
      BY <1>5, <3>2, <3>3, FrameInjective
    <3>6. QED
      BY <3>2, <3>4, <3>5, FreeFramesAre
  <2>2. ASSUME NEW g \in FreeFrames, g \notin run PROVE g \in FreeFrames'
    <3>1. PICK q \in RegionIds : \E p \in Pages(q) :
                  pagemap[q][p] = PAGE_FREE /\ g = Frame(q, p)
      BY <2>2, FreeFramesAre
    <3>2. PICK p \in Pages(q) : pagemap[q][p] = PAGE_FREE /\ g = Frame(q, p)
      BY <3>1
    <3>3. ~ (q = r /\ s <= p /\ p < s + n)
      BY <1>1, <1>3, <2>2, <3>2, Layout DEF Frame, Pages
    <3>4. pagemap'[q][p] = PAGE_FREE
      BY <1>4, <3>2, <3>3
    <3>5. QED
      BY <3>2, <3>4 DEF FreeFrames, Pages, Frame
  <2>3. QED
    BY <2>1, <2>2
<1>8. Abstract!Available(f, n)
  BY <1>6 DEF Abstract!Available, Abstract!Run
<1>9. f \in FreeFrames
  BY <1>1, <1>3, FreeFramesAre DEF Pages
<1>10. Abstract!Alloc(f, n)
  BY <1>1, <1>2, <1>7, <1>8 DEF Abstract!Alloc, Abstract!Run
<1>11. QED
  BY <1>9, <1>10 DEF Abstract!Next

\* pfa_alloc() refuses a request only if no region has such a run of frames.
LEMMA RefuseRefines ==
  ASSUME IInv, ~ panicked, NEW n \in Requests, AllocRefused(n)
  PROVE  Abstract!Next
<1>1. n \in Nat
  BY RequestsAssumption
<1>2. ASSUME n > 0, NEW f \in FreeFrames, Abstract!Available(f, n) PROVE FALSE
  <2>1. NoneServes(pagemap, n)
    BY <1>2 DEF AllocRefused
  <2>2. PICK r \in RegionIds : f..(f + n - 1) \subseteq RegionFrames(r)
    BY <1>2 DEF Abstract!Available, Abstract!Run
  <2>3. f \in Nat
    BY <1>2, FreeFramesAre, Layout DEF Frame, Pages
  <2>4. f \in RegionFrames(r) /\ f + n - 1 \in RegionFrames(r)
    BY <1>1, <1>2, <2>2, <2>3
  <2> DEFINE s == f - FirstPage[r]
  <2>5. s \in Pages(r) /\ s + n <= NbPages[r]
    BY <1>1, <2>3, <2>4, Layout DEF RegionFrames, Frame, Pages
  <2>6. ASSUME NEW p \in Pages(r), s <= p, p < s + n PROVE pagemap[r][p] = PAGE_FREE
    <3>1. Frame(r, p) \in f..(f + n - 1)
      BY <1>1, <2>3, <2>5, <2>6, Layout DEF Frame, Pages
    <3>2. Frame(r, p) \in FreeFrames
      BY <1>2, <3>1 DEF Abstract!Available, Abstract!Run
    <3>3. QED
      BY <3>2, FreeFramesAre, FrameInjective
  <2>7. IsFit(pagemap, r, s, n)
    BY <2>5, <2>6 DEF IsFit
  <2>8. QED
    BY <2>1, <2>5, <2>7 DEF NoneServes, RegionIsFull
<1>3. FreeFrames' = FreeFrames
  BY DEF AllocRefused, FreeFrames, Frame, Pages
<1>4. n > 0 => \A f \in FreeFrames : ~ Abstract!Available(f, n)
  BY <1>2
<1>5. Abstract!Refuse(n)
  BY <1>3, <1>4 DEF Abstract!Refuse, AllocRefused
<1>6. QED
  BY <1>5 DEF Abstract!Next

\* A release makes exactly the frames of the block free.
LEMMA ReleaseRefines ==
  ASSUME IInv, ~ panicked, NEW r \in RegionIds, NEW i \in Pages(r), NEW b \in blocks,
         InRegion(b, r), b.pgf = Frame(r, i), NEW j, j = i + b.n - 1,
         pagemap' = Freed(pagemap, r, i, j),
         GiveBack(Frame(r, i)),
         req' = req, ret' = ret, panicked' = panicked
  PROVE  Abstract!Next
<1>1. b.pgf \in Nat /\ b.n \in Nat /\ b.n > 0 /\ i \in Nat /\ j \in Nat
  BY Layout DEF IInv, TypeOK, Blocks, Pages
<1>2. blocks' = blocks \ {b}
  <2>1. ASSUME NEW c \in blocks, c.pgf = b.pgf PROVE c = b
    BY <1>1, <2>1 DEF IInv, TypeOK, PagemapTellsTheBlocks, BlocksAreDisjoint, Blocks
  <2>2. QED
    BY <2>1 DEF GiveBack
<1>3. /\ \A q \in RegionIds : q # r => pagemap'[q] = pagemap[q]
      /\ \A p \in Pages(r) :
           pagemap'[r][p] = IF i <= p /\ p <= j THEN PAGE_FREE ELSE pagemap[r][p]
  BY DEF Freed, IInv, TypeOK, IsPagemap
<1> DEFINE run == b.pgf..(b.pgf + b.n - 1)
<1>4. FreeFrames' = FreeFrames \cup run
  <2>1. ASSUME NEW g \in FreeFrames' PROVE g \in FreeFrames \cup run
    <3>1. PICK q \in RegionIds : \E p \in Pages(q) :
                  pagemap'[q][p] = PAGE_FREE /\ g = Frame(q, p)
      BY <2>1 DEF FreeFrames, Pages, Frame
    <3>2. PICK p \in Pages(q) : pagemap'[q][p] = PAGE_FREE /\ g = Frame(q, p)
      BY <3>1
    <3>3. CASE q = r /\ i <= p /\ p <= j
      BY <1>1, <3>2, <3>3, Layout DEF Frame, Pages
    <3>4. CASE ~ (q = r /\ i <= p /\ p <= j)
      BY <1>3, <3>2, <3>4, FreeFramesAre
    <3>5. QED
      BY <3>3, <3>4
  <2>2. ASSUME NEW g \in FreeFrames PROVE g \in FreeFrames'
    <3>1. PICK q \in RegionIds : \E p \in Pages(q) :
                  pagemap[q][p] = PAGE_FREE /\ g = Frame(q, p)
      BY <2>2, FreeFramesAre
    <3>2. PICK p \in Pages(q) : pagemap[q][p] = PAGE_FREE /\ g = Frame(q, p)
      BY <3>1
    <3>3. pagemap'[q][p] = PAGE_FREE
      BY <1>3, <3>2
    <3>4. QED
      BY <3>2, <3>3 DEF FreeFrames, Pages, Frame
  <2>3. ASSUME NEW g \in run PROVE g \in FreeFrames'
    <3> DEFINE p == g - FirstPage[r]
    <3>1. /\ p \in Pages(r) /\ i <= p /\ p <= j
          /\ g = Frame(r, p)
      BY <1>1, <2>3, Layout DEF Frame, Pages, InRegion
    <3>2. pagemap'[r][p] = PAGE_FREE
      BY <1>3, <3>1
    <3>3. QED
      BY <3>1, <3>2 DEF FreeFrames, Pages, Frame
  <2>4. QED
    BY <2>1, <2>2, <2>3
<1>5. Abstract!Free(b)
  BY <1>2, <1>4 DEF Abstract!Free, Abstract!Run
<1>6. QED
  BY <1>5 DEF Abstract!Next

LEMMA FreeRefines ==
  ASSUME IInv, NEW pgf \in 0..(AddrPages - 1), NEW unaligned \in BOOLEAN,
         pfa_free(pgf, unaligned)
  PROVE  Abstract!Next
<1>1. CASE Panic
  <2>1. FreeFrames' = FreeFrames
    BY <1>1 DEF Panic, FreeFrames, Frame, Pages
  <2>2. Abstract!Misuse
    BY <1>1, <2>1 DEF Panic, Abstract!Misuse, pfa_free
  <2>3. QED
    BY <2>2 DEF Abstract!Next
<1>2. ASSUME NEW r \in RegionIds, find_region(r, pgf), FreeSingle(pgf, r, pgf - FirstPage[r])
      PROVE  Abstract!Next
  <2> DEFINE i == pgf - FirstPage[r]
  <2>1. i \in Pages(r) /\ pgf = Frame(r, i)
    BY <1>2, RegionFound
  <2>2. PICK b \in blocks : InRegion(b, r) /\ b.pgf = Frame(r, i) /\ b.n = 1
    BY <1>2, <2>1, HeadOfBlock DEF FreeSingle
  <2>3. i = i + b.n - 1
    BY <2>1, <2>2 DEF Pages
  <2>4. QED
    BY <1>2, <2>1, <2>2, <2>3, ReleaseRefines DEF FreeSingle, pfa_free
<1>3. ASSUME NEW r \in RegionIds, find_region(r, pgf), FreeBlock(pgf, r, pgf - FirstPage[r])
      PROVE  Abstract!Next
  <2> DEFINE i == pgf - FirstPage[r]
  <2>1. i \in Pages(r) /\ pgf = Frame(r, i)
    BY <1>3, RegionFound
  <2>2. PICK b \in blocks : InRegion(b, r) /\ b.pgf = Frame(r, i) /\ b.n # 1
    BY <1>3, <2>1, HeadOfBlock DEF FreeBlock
  <2>3. PICK j \in i..NbPages[r] :
          /\ WalkStops(pagemap, r, i, j)
          /\ IF j < NbPages[r] /\ pagemap[r][j] = PAGE_USED_TAIL
               THEN /\ pagemap' = Freed(pagemap, r, i, j)
                    /\ GiveBack(pgf)
                    /\ UNCHANGED panicked
               ELSE /\ pagemap' = Freed(pagemap, r, i, j - 1)
                    /\ panicked' = TRUE
                    /\ UNCHANGED blocks
    BY <1>3 DEF FreeBlock
  <2>4. j = i + b.n - 1 /\ j < NbPages[r] /\ pagemap[r][j] = PAGE_USED_TAIL
    BY <2>1, <2>2, <2>3, WalkEndsAtTail
  <2>5. QED
    BY <1>3, <2>1, <2>2, <2>3, <2>4, ReleaseRefines DEF FreeBlock, pfa_free
<1>4. QED
  BY <1>1, <1>2, <1>3 DEF pfa_free, FreeWrongState

\* The page frame allocator implements the abstract allocator.
THEOREM Refinement == Spec => ImplementsFrameSpec
<1>1. ASSUME IInv, Next PROVE Abstract!Next
  <2>1. ASSUME NEW n \in Requests, pfa_alloc(n) PROVE Abstract!Next
    BY <1>1, <2>1, AllocRefines, RefuseRefines DEF pfa_alloc
  <2>2. ASSUME NEW pgf \in 0..(AddrPages - 1), NEW unaligned \in BOOLEAN,
               pfa_free(pgf, unaligned)
        PROVE  Abstract!Next
    BY <1>1, <2>2, FreeRefines
  <2>3. QED
    BY <1>1, <2>1, <2>2 DEF Next
<1>2. UNCHANGED vars => UNCHANGED Abstract!vars
  BY DEF vars, Abstract!vars, FreeFrames, Frame, Pages
<1>3. IInv /\ [Next]_vars => [Abstract!Next]_Abstract!vars
  BY <1>1, <1>2
<1>4. QED
  BY <1>3, InitRefines, Invariance, PTL DEF Spec, ImplementsFrameSpec, Abstract!Spec

-----------------------------------------------------------------------------
(***************************************************************************)
(* The loops of pfa_alloc(), module PfaAllocSteps, find the first fit, for *)
(* every pagemap and every request.  The inductive invariant says what     *)
(* each loop has already excluded: every start page the scan has passed,   *)
(* also the ones it jumped over because a run of free pages was too short, *)
(* is the start of no fit.                                                 *)
(***************************************************************************)
Scanning == {"region", "single", "outer", "inner", "found"}

\* The regions already asked cannot serve the request.
PassedRegionsAreFull ==
  pc \in Scanning =>
    /\ nb_pages > 0
    /\ \A q \in RegionIds : q < reg => RegionIsFull(before, q, nb_pages)
    /\ pc # "region" => reg \in RegionIds
    /\ answer = BAD_PAGE

\* The pagemap does not change before a fit is found.
NothingMarkedYet ==
  /\ pc = "call" => reg = 1
  /\ pc \in {"call", "region", "single", "outer", "inner"} =>
       cur_pagemap = before /\ answer = BAD_PAGE

\* pfa_alloc_single() has passed used pages only.
SinglePassed ==
  pc = "single" =>
    /\ nb_pages = 1
    /\ page <= NbPages[reg]
    /\ \A p \in Pages(reg) : p < page => before[reg][p] # PAGE_FREE

\* pfa_alloc_multiple() has passed no start of a fit.
MultiplePassed ==
  pc \in {"outer", "inner", "found"} =>
    /\ nb_pages > 1 /\ nb_pages <= NbPages[reg]
    /\ \A t \in Pages(reg) : t < start_page => ~ IsFit(before, reg, t, nb_pages)

\* The pages counted so far are the free pages from start_page to page.
RunCounted ==
  pc = "inner" =>
    /\ start_page <= NbPages[reg] - nb_pages
    /\ block_size <= nb_pages
    /\ page = start_page + block_size
    /\ \A p \in Pages(reg) : start_page <= p /\ p < page => before[reg][p] = PAGE_FREE

\* Of the fit that was found, the pages up to page are marked.
RunMarked ==
  pc = "found" =>
    /\ start_page + nb_pages <= NbPages[reg]
    /\ IsFit(before, reg, start_page, nb_pages)
    /\ start_page <= page /\ page <= start_page + nb_pages
    /\ cur_pagemap = [before EXCEPT ![reg] = [p \in Pages(reg) |->
         IF start_page <= p /\ p < page THEN Mark(start_page, nb_pages, p)
         ELSE before[reg][p]]]

ScanInv ==
  /\ CallTypeOK
  /\ PassedRegionsAreFull
  /\ NothingMarkedYet
  /\ SinglePassed
  /\ MultiplePassed
  /\ RunCounted
  /\ RunMarked
  /\ AnswerIsFirstFit


-----------------------------------------------------------------------------

LEMMA ScanLayout ==
  /\ NbRegions \in Nat /\ AddrPages \in Nat
  /\ \A r \in RegionIds : /\ r \in Nat
                          /\ FirstPage[r] \in Nat
                          /\ NbPages[r] \in Nat
                          /\ FirstPage[r] + NbPages[r] <= AddrPages
BY LayoutAssumption DEF RegionIds

LEMMA ScanInitHolds == CallInit => ScanInv
<1> SUFFICES ASSUME CallInit PROVE ScanInv
  OBVIOUS
<1>1. CallTypeOK
  BY ScanLayout, CallAssumption DEF CallInit, CallTypeOK, BAD_PAGE
<1>2. QED
  BY <1>1 DEF CallInit, ScanInv, PassedRegionsAreFull, Scanning, NothingMarkedYet, SinglePassed,
              MultiplePassed, RunCounted, RunMarked, AnswerIsFirstFit

\* The steps that leave the pagemap and the history alone.
LEMMA CallHolds ==
  ASSUME ScanInv, RejectEmptyRequest \/ EnterLoop \/ GiveUp
  PROVE  ScanInv'
<1>1. CallTypeOK'
  BY DEF ScanInv, CallTypeOK, RejectEmptyRequest, EnterLoop, GiveUp, Goto
<1>2. CASE RejectEmptyRequest
  <2>1. AnswerIsFirstFit'
    BY <1>2 DEF ScanInv, NothingMarkedYet, AnswerIsFirstFit, RejectEmptyRequest, Goto
  <2>2. QED
    BY <1>1, <1>2, <2>1
    DEF ScanInv, PassedRegionsAreFull, Scanning, NothingMarkedYet, SinglePassed,
        MultiplePassed, RunCounted, RunMarked, RejectEmptyRequest, Goto
<1>3. CASE EnterLoop
  BY <1>1, <1>3, ScanLayout
  DEF ScanInv, CallTypeOK, PassedRegionsAreFull, Scanning, NothingMarkedYet, SinglePassed,
      MultiplePassed, RunCounted, RunMarked, AnswerIsFirstFit, EnterLoop, Goto, RegionIds
<1>4. CASE GiveUp
  <2>1. NoneServes(before, nb_pages)
    BY <1>4, ScanLayout
    DEF ScanInv, CallTypeOK, PassedRegionsAreFull, Scanning, NoneServes, GiveUp, Goto, RegionIds
  <2>2. AnswerIsFirstFit'
    BY <1>4, <2>1 DEF ScanInv, NothingMarkedYet, AnswerIsFirstFit, GiveUp, Goto
  <2>3. QED
    BY <1>1, <1>4, <2>2
    DEF ScanInv, PassedRegionsAreFull, Scanning, NothingMarkedYet, SinglePassed,
        MultiplePassed, RunCounted, RunMarked, GiveUp, Goto
<1>5. QED
  BY <1>2, <1>3, <1>4

\* Entering a scan of region reg.
LEMMA TryHolds ==
  ASSUME ScanInv, TrySingle \/ TryMultiple
  PROVE  ScanInv'
<1>1. CallTypeOK' /\ reg \in RegionIds
  BY ScanLayout DEF ScanInv, CallTypeOK, TrySingle, TryMultiple, Goto, RegionIds
<1>2. CASE TrySingle
  BY <1>1, <1>2, ScanLayout
  DEF ScanInv, CallTypeOK, PassedRegionsAreFull, Scanning, NothingMarkedYet, SinglePassed,
      MultiplePassed, RunCounted, RunMarked, AnswerIsFirstFit, TrySingle, Goto, Pages
<1>3. CASE TryMultiple
  BY <1>1, <1>3, ScanLayout
  DEF ScanInv, CallTypeOK, PassedRegionsAreFull, Scanning, NothingMarkedYet, SinglePassed,
      MultiplePassed, RunCounted, RunMarked, AnswerIsFirstFit, TryMultiple, Goto, Pages
<1>4. QED
  BY <1>2, <1>3

\* Leaving a scan of region reg: the region cannot serve the request.
LEMMA NextRegionHolds ==
  ASSUME ScanInv, RegionTooSmall \/ SingleFails \/ OuterFails
  PROVE  ScanInv'
<1>1. reg \in RegionIds /\ nb_pages \in Nat /\ nb_pages > 0 /\ start_page \in Nat /\ page \in Nat
  BY ScanLayout DEF ScanInv, CallTypeOK, PassedRegionsAreFull, Scanning, RegionTooSmall, SingleFails,
                OuterFails, Goto, RegionIds
<1>2. RegionIsFull(before, reg, nb_pages)
  <2>1. CASE RegionTooSmall
    BY <1>1, <2>1, ScanLayout DEF RegionTooSmall, RegionIsFull, IsFit, Pages
  <2>2. CASE SingleFails
    <3>1. \A p \in Pages(reg) : before[reg][p] # PAGE_FREE
      BY <1>1, <2>2, ScanLayout DEF SingleFails, Goto, ScanInv, SinglePassed, Pages
    <3>2. nb_pages = 1
      BY <2>2 DEF SingleFails, Goto, ScanInv, SinglePassed
    <3>3. QED
      BY <1>1, <3>1, <3>2, ScanLayout DEF RegionIsFull, IsFit, Pages
  <2>3. CASE OuterFails
    <3>1. ASSUME NEW t \in Pages(reg), IsFit(before, reg, t, nb_pages) PROVE FALSE
      BY <1>1, <2>3, <3>1, ScanLayout
      DEF OuterFails, Goto, ScanInv, MultiplePassed, IsFit, Pages
    <3>2. QED
      BY <3>1 DEF RegionIsFull
  <2>4. QED
    BY <2>1, <2>2, <2>3
<1>3. /\ pc' = "region" /\ reg' = reg + 1
      /\ cur_pagemap = before /\ answer = BAD_PAGE
      /\ UNCHANGED <<cur_pagemap, before, nb_pages, start_page, page, block_size, answer>>
  BY DEF ScanInv, NothingMarkedYet, RegionTooSmall, SingleFails, OuterFails, Goto
<1>4. CallTypeOK'
  BY <1>1, <1>3, ScanLayout DEF ScanInv, CallTypeOK, RegionIds
<1>5. PassedRegionsAreFull'
  <2>1. pc \in Scanning
    BY DEF RegionTooSmall, SingleFails, OuterFails, Goto, Scanning
  <2>2. ASSUME NEW q \in RegionIds, q < reg' PROVE RegionIsFull(before, q, nb_pages)
    <3>1. q < reg \/ q = reg
      BY <1>1, <1>3, <2>2, ScanLayout
    <3>2. QED
      BY <1>2, <2>1, <3>1 DEF ScanInv, PassedRegionsAreFull
  <2>3. QED
    BY <1>1, <1>3, <2>2 DEF PassedRegionsAreFull
<1>6. QED
  BY <1>3, <1>4, <1>5
  DEF ScanInv, NothingMarkedYet, SinglePassed, MultiplePassed, RunCounted, RunMarked,
      AnswerIsFirstFit

LEMMA SingleSkipsHolds ==
  ASSUME ScanInv, SingleSkips
  PROVE  ScanInv'
<1>1. reg \in RegionIds /\ page \in Nat
  BY DEF ScanInv, CallTypeOK, PassedRegionsAreFull, Scanning, SingleSkips, Goto
<1>2. CallTypeOK'
  BY DEF ScanInv, CallTypeOK, SingleSkips, Goto
<1>3. SinglePassed'
  BY <1>1, ScanLayout DEF ScanInv, NothingMarkedYet, SinglePassed, SingleSkips, Goto, Pages
<1>4. QED
  BY <1>2, <1>3
  DEF ScanInv, PassedRegionsAreFull, Scanning, NothingMarkedYet,
      MultiplePassed, RunCounted, RunMarked, AnswerIsFirstFit, SingleSkips, Goto

LEMMA SingleFoundHolds ==
  ASSUME ScanInv, SingleFound
  PROVE  ScanInv'
<1>1. /\ reg \in RegionIds /\ page \in Pages(reg) /\ page \in Nat
      /\ cur_pagemap = before /\ nb_pages = 1
      /\ IsPagemap(before)
  BY ScanLayout DEF ScanInv, CallTypeOK, PassedRegionsAreFull, Scanning, SinglePassed,
                NothingMarkedYet, SingleFound, Goto, Pages
<1>2. Serves(before, reg, page, 1)
  <2>1. IsFit(before, reg, page, 1)
    BY <1>1, ScanLayout DEF SingleFound, IsFit, Pages
  <2>2. ASSUME NEW t \in Pages(reg), t < page PROVE ~ IsFit(before, reg, t, 1)
    BY <1>1, <2>2, ScanLayout DEF SingleFound, Goto, ScanInv, SinglePassed, IsFit, Pages
  <2>3. QED
    BY <1>1, <2>1, <2>2
    DEF Serves, IsFirstFit, ScanInv, PassedRegionsAreFull, Scanning, SingleFound, Goto
<1>3. cur_pagemap' = Allocated(before, reg, page, 1)
  <2>1. \A p \in Pages(reg) : page <= p /\ p < page + 1 <=> p = page
    BY <1>1 DEF Pages
  <2>2. [before[reg] EXCEPT ![page] = PAGE_USED]
          = [p \in Pages(reg) |-> IF page <= p /\ p < page + 1 THEN Mark(page, 1, p)
                                ELSE before[reg][p]]
    BY <1>1, <2>1 DEF IsPagemap, Mark
  <2>3. QED
    BY <1>1, <2>2 DEF SingleFound, SetPage, Allocated
<1>4. answer' = Frame(reg, page) /\ Frame(reg, page) \in 0..AddrPages
  BY <1>1, ScanLayout DEF SingleFound, Frame, Pages
<1>5. CallTypeOK'
  <2>1. IsPagemap(cur_pagemap')
    BY <1>1 DEF SingleFound, SetPage, IsPagemap, PageStates
  <2>2. QED
    BY <1>4, <2>1 DEF ScanInv, CallTypeOK, SingleFound, Goto, IsPagemap, Pages, RegionIds
<1>6. AnswerIsFirstFit'
  <2>1. before' = before /\ nb_pages' = 1
    BY <1>1 DEF SingleFound
  <2>2. /\ Serves(before', reg, page, nb_pages')
        /\ answer' = Frame(reg, page)
        /\ cur_pagemap' = Allocated(before', reg, page, nb_pages')
    BY <1>2, <1>3, <1>4, <2>1
  <2>3. QED
    BY <1>1, <2>1, <2>2 DEF AnswerIsFirstFit
<1>7. QED
  BY <1>5, <1>6
  DEF ScanInv, PassedRegionsAreFull, Scanning, NothingMarkedYet, SinglePassed,
      MultiplePassed, RunCounted, RunMarked, SingleFound, Goto

LEMMA OuterHolds ==
  ASSUME ScanInv, OuterSkips \/ OuterEnters
  PROVE  ScanInv'
<1>1. /\ reg \in RegionIds /\ start_page \in Nat /\ nb_pages \in Nat
      /\ nb_pages > 1 /\ start_page + nb_pages <= NbPages[reg]
      /\ cur_pagemap = before
  BY ScanLayout DEF ScanInv, CallTypeOK, PassedRegionsAreFull, Scanning, MultiplePassed,
                NothingMarkedYet, OuterSkips, OuterEnters, Goto
<1>2. CallTypeOK'
  BY DEF ScanInv, CallTypeOK, OuterSkips, OuterEnters, Goto
<1>3. CASE OuterSkips
  <2>1. ~ IsFit(before, reg, start_page, nb_pages)
    BY <1>1, <1>3, ScanLayout DEF OuterSkips, IsFit, Pages
  <2>2. ASSUME NEW t \in Pages(reg), t < start_page + 1
        PROVE  ~ IsFit(before, reg, t, nb_pages)
    <3>1. t < start_page \/ t = start_page
      BY <1>1, <2>2 DEF Pages
    <3>2. QED
      BY <1>3, <2>1, <3>1 DEF OuterSkips, Goto, ScanInv, MultiplePassed
  <2>3. MultiplePassed'
    BY <1>1, <1>3, <2>2 DEF OuterSkips, Goto, ScanInv, MultiplePassed
  <2>4. QED
    BY <1>2, <1>3, <2>3
    DEF ScanInv, PassedRegionsAreFull, Scanning, NothingMarkedYet, SinglePassed,
        RunCounted, RunMarked, AnswerIsFirstFit, OuterSkips, Goto
<1>4. CASE OuterEnters
  <2>1. RunCounted'
    BY <1>1, <1>4, ScanLayout DEF RunCounted, OuterEnters, Goto, Pages
  <2>2. QED
    BY <1>2, <1>4, <2>1
    DEF ScanInv, PassedRegionsAreFull, Scanning, NothingMarkedYet, SinglePassed,
        MultiplePassed, RunMarked, AnswerIsFirstFit, OuterEnters, Goto
<1>5. QED
  BY <1>3, <1>4

LEMMA InnerHolds ==
  ASSUME ScanInv, InnerCounts \/ InnerFound \/ InnerTooShort
  PROVE  ScanInv'
<1>1. /\ reg \in RegionIds /\ start_page \in Nat /\ nb_pages \in Nat
      /\ page \in Nat /\ block_size \in Nat
      /\ nb_pages > 1 /\ start_page + nb_pages <= NbPages[reg]
      /\ block_size <= nb_pages /\ page = start_page + block_size
      /\ cur_pagemap = before
      /\ \A p \in Pages(reg) : start_page <= p /\ p < page => before[reg][p] = PAGE_FREE
      /\ \A t \in Pages(reg) : t < start_page => ~ IsFit(before, reg, t, nb_pages)
      /\ IsPagemap(before)
  BY ScanLayout DEF ScanInv, CallTypeOK, PassedRegionsAreFull, Scanning, MultiplePassed, RunCounted,
                NothingMarkedYet, InnerCounts, InnerFound, InnerTooShort, Goto
<1>2. CallTypeOK'
  BY <1>1 DEF ScanInv, CallTypeOK, InnerCounts, InnerFound, InnerTooShort, Goto
<1>3. CASE InnerCounts
  <2>1. ASSUME NEW p \in Pages(reg), start_page <= p, p < page + 1
        PROVE  before[reg][p] = PAGE_FREE
    <3>1. p < page \/ p = page
      BY <1>1, <2>1 DEF Pages
    <3>2. QED
      BY <1>1, <1>3, <2>1, <3>1 DEF InnerCounts
  <2>2. RunCounted'
    BY <1>1, <1>3, <2>1, ScanLayout DEF RunCounted, InnerCounts, Goto
  <2>3. QED
    BY <1>2, <1>3, <2>2
    DEF ScanInv, PassedRegionsAreFull, Scanning, NothingMarkedYet, SinglePassed,
        MultiplePassed, RunMarked, AnswerIsFirstFit, InnerCounts, Goto
<1>4. CASE InnerFound
  <2>1. IsFit(before, reg, start_page, nb_pages)
    BY <1>1, <1>4 DEF InnerFound, IsFit
  <2>2. before = [before EXCEPT ![reg] = [p \in Pages(reg) |->
                    IF start_page <= p /\ p < start_page THEN Mark(start_page, nb_pages, p)
                    ELSE before[reg][p]]]
    <3>1. \A p \in Pages(reg) : ~ (start_page <= p /\ p < start_page)
      BY <1>1 DEF Pages
    <3>2. before[reg] = [p \in Pages(reg) |->
             IF start_page <= p /\ p < start_page THEN Mark(start_page, nb_pages, p)
             ELSE before[reg][p]]
      BY <1>1, <3>1 DEF IsPagemap
    <3>3. QED
      BY <1>1, <3>2 DEF IsPagemap
  <2>3. RunMarked'
    BY <1>1, <1>4, <2>1, <2>2 DEF RunMarked, InnerFound, Goto
  <2>4. QED
    BY <1>2, <1>4, <2>3
    DEF ScanInv, PassedRegionsAreFull, Scanning, NothingMarkedYet, SinglePassed,
        MultiplePassed, RunCounted, AnswerIsFirstFit, InnerFound, Goto
<1>5. CASE InnerTooShort
  <2>1. page \in Pages(reg) /\ before[reg][page] # PAGE_FREE /\ page < start_page + nb_pages
    BY <1>1, <1>5, ScanLayout DEF InnerTooShort, Pages
  <2>2. ASSUME NEW t \in Pages(reg), t < page + 1 PROVE ~ IsFit(before, reg, t, nb_pages)
    <3>1. CASE t < start_page
      BY <1>1, <3>1
    <3>2. CASE start_page <= t
      <4>1. t <= page /\ page < t + nb_pages
        BY <1>1, <2>1, <2>2, <3>2 DEF Pages
      <4>2. QED
        BY <2>1, <4>1 DEF IsFit
    <3>3. QED
      BY <1>1, <3>1, <3>2 DEF Pages
  <2>3. MultiplePassed'
    BY <1>5, <2>2 DEF ScanInv, MultiplePassed, InnerTooShort, Goto
  <2>4. QED
    BY <1>2, <1>5, <2>3
    DEF ScanInv, PassedRegionsAreFull, Scanning, NothingMarkedYet, SinglePassed,
        RunCounted, RunMarked, AnswerIsFirstFit, InnerTooShort, Goto
<1>6. QED
  BY <1>3, <1>4, <1>5

LEMMA FoundHolds ==
  ASSUME ScanInv, FoundMarks \/ FoundReturns
  PROVE  ScanInv'
<1> DEFINE Marked(m) == [before EXCEPT ![reg] = [p \in Pages(reg) |->
             IF start_page <= p /\ p < m THEN Mark(start_page, nb_pages, p)
             ELSE before[reg][p]]]
<1>1. /\ reg \in RegionIds /\ start_page \in Nat /\ nb_pages \in Nat /\ page \in Nat
      /\ nb_pages > 1 /\ start_page + nb_pages <= NbPages[reg]
      /\ start_page <= page /\ page <= start_page + nb_pages
      /\ cur_pagemap = Marked(page)
      /\ IsFit(before, reg, start_page, nb_pages)
      /\ \A t \in Pages(reg) : t < start_page => ~ IsFit(before, reg, t, nb_pages)
      /\ \A q \in RegionIds : q < reg => RegionIsFull(before, q, nb_pages)
      /\ IsPagemap(before) /\ IsPagemap(cur_pagemap)
  BY ScanLayout DEF ScanInv, CallTypeOK, PassedRegionsAreFull, Scanning, MultiplePassed, RunMarked,
                FoundMarks, FoundReturns, Goto
<1>2. CASE FoundMarks
  <2> DEFINE state == IF page = start_page THEN PAGE_USED_HEAD
                      ELSE IF page = start_page + nb_pages - 1 THEN PAGE_USED_TAIL
                      ELSE PAGE_USED_PART
  <2>1. page < start_page + nb_pages /\ page \in Pages(reg)
    BY <1>1, <1>2, ScanLayout DEF FoundMarks, Pages
  <2>2. state = Mark(start_page, nb_pages, page)
    BY <1>1 DEF Mark
  <2>3. Marked(page)[reg] = [p \in Pages(reg) |->
             IF start_page <= p /\ p < page THEN Mark(start_page, nb_pages, p)
             ELSE before[reg][p]]
    BY <1>1 DEF IsPagemap
  <2>4. [cur_pagemap[reg] EXCEPT ![page] = state] = [p \in Pages(reg) |->
             IF start_page <= p /\ p < page + 1 THEN Mark(start_page, nb_pages, p)
             ELSE before[reg][p]]
    <3>1. \A p \in Pages(reg) : p < page + 1 <=> p < page \/ p = page
      BY <1>1 DEF Pages
    <3>2. QED
      BY <1>1, <2>1, <2>2, <2>3, <3>1
  <2>5. cur_pagemap' = [cur_pagemap EXCEPT ![reg] = [cur_pagemap[reg] EXCEPT ![page] = state]]
    BY <1>2 DEF FoundMarks, SetPage
  <2>6. cur_pagemap' = Marked(page + 1)
    BY <1>1, <2>4, <2>5 DEF IsPagemap
  <2>7. RunMarked'
    BY <1>1, <1>2, <2>1, <2>6 DEF RunMarked, FoundMarks, Goto
  <2>8. CallTypeOK'
    <3>1. IsPagemap(cur_pagemap')
      BY <1>1, <2>1, <2>5 DEF IsPagemap, PageStates
    <3>2. QED
      BY <1>1, <1>2, <3>1 DEF ScanInv, CallTypeOK, FoundMarks, Goto, IsPagemap, Pages, RegionIds
  <2>9. QED
    BY <1>2, <2>7, <2>8
    DEF ScanInv, PassedRegionsAreFull, Scanning, NothingMarkedYet, SinglePassed,
        MultiplePassed, RunCounted, AnswerIsFirstFit, FoundMarks, Goto
<1>3. CASE FoundReturns
  <2>1. /\ before' = before /\ nb_pages' = nb_pages /\ cur_pagemap' = cur_pagemap
        /\ answer' = Frame(reg, start_page) /\ pc' = "done"
        /\ page = start_page + nb_pages
    BY <1>1, <1>3 DEF FoundReturns, Goto
  <2>2. start_page \in Pages(reg) /\ Frame(reg, start_page) \in 0..AddrPages
    BY <1>1, ScanLayout DEF Pages, Frame
  <2>3. Serves(before, reg, start_page, nb_pages)
    BY <1>1, <2>2 DEF Serves, IsFirstFit
  <2>4. cur_pagemap = Allocated(before, reg, start_page, nb_pages)
    BY <1>1, <2>1 DEF Allocated
  <2>5. AnswerIsFirstFit'
    <3>1. /\ Serves(before', reg, start_page, nb_pages')
          /\ answer' = Frame(reg, start_page)
          /\ cur_pagemap' = Allocated(before', reg, start_page, nb_pages')
          /\ nb_pages' # 0
      <4>1. nb_pages # 0
        BY <1>1
      <4>2. QED
        BY ONLY <2>1, <2>3, <2>4, <4>1
    <3>2. QED
      BY <1>1, <2>2, <3>1 DEF AnswerIsFirstFit
  <2>6. CallTypeOK'
    BY <1>3, <2>1, <2>2 DEF ScanInv, CallTypeOK, FoundReturns
  <2>7. QED
    BY <1>3, <2>1, <2>5, <2>6
    DEF ScanInv, PassedRegionsAreFull, Scanning, NothingMarkedYet, SinglePassed,
        MultiplePassed, RunCounted, RunMarked, FoundReturns
<1>4. QED
  BY <1>2, <1>3

LEMMA ScanNextHolds == ScanInv /\ [CallNext]_call_vars => ScanInv'
<1> SUFFICES ASSUME ScanInv, [CallNext]_call_vars PROVE ScanInv'
  OBVIOUS
<1>1. CASE Step
  BY <1>1, CallHolds, TryHolds, NextRegionHolds, SingleSkipsHolds, SingleFoundHolds,
     OuterHolds, InnerHolds, FoundHolds DEF Step
<1>2. CASE UNCHANGED call_vars
  BY <1>2 DEF call_vars, ScanInv, CallTypeOK, PassedRegionsAreFull, NothingMarkedYet, SinglePassed,
              MultiplePassed, RunCounted, RunMarked, AnswerIsFirstFit
<1>3. QED
  BY <1>1, <1>2 DEF CallNext, Returned

-----------------------------------------------------------------------------

\* Every call of pfa_alloc(), from every pagemap, keeps the invariant.
THEOREM ScanInvariance == CallSpec => []ScanInv
BY ScanInitHolds, ScanNextHolds, PTL DEF CallSpec

\* The scans never leave the pagemap of a region, for every layout.
THEOREM InBounds == CallSpec => []NoOutOfBoundsRead
<1>1. ScanInv => NoOutOfBoundsRead
  <2> SUFFICES ASSUME ScanInv PROVE NoOutOfBoundsRead
    OBVIOUS
  <2>1. pc \in {"single", "outer", "inner", "found"} => reg \in RegionIds
    BY DEF ScanInv, PassedRegionsAreFull, Scanning
  <2>2. QED
    BY <2>1, ScanLayout
    DEF ScanInv, CallTypeOK, MultiplePassed, RunCounted, RunMarked, NoOutOfBoundsRead, RegionIds
<1>2. QED
  BY <1>1, ScanInvariance, PTL

\* The greedy scan answers with the first fit of the first region that has
\* one, and with BAD_PAGE only if there is none.
THEOREM FirstFit == CallSpec => []AnswerIsFirstFit
BY ScanInvariance, PTL DEF ScanInv

=============================================================================
