-------------------------- MODULE KernelHeapProofs --------------------------
(***************************************************************************)
(* Proofs about kmalloc() and kfree() over the page tables and the page    *)
(* frame allocator, for every layout of the memory and every sequence of   *)
(* calls.  The invariant says of the frames that are in use who owns them; *)
(* that kfree() gives back exactly the frames of a big allocation follows  *)
(* from the marks of its pages in the pagemap, which later allocations     *)
(* leave alone.  A panic ends the kernel, so that nothing is to be shown   *)
(* of a state in which it has panicked.                                    *)
(***************************************************************************)
EXTENDS KernelHeap, FiniteSetTheorems, InductionProofs, SequenceTheorems, TLAPS

-----------------------------------------------------------------------------
(* The pagemap *)

\* The layout, in the form the proofs use it.
LEMMA Layout ==
  /\ NbRegions \in Nat /\ AddrPages \in Nat /\ AddrPages > 0
  /\ \A r \in RegionIds : /\ r \in Nat
                          /\ FirstPage[r] \in Nat /\ FirstPage[r] > 0
                          /\ NbPages[r] \in Nat
                          /\ FirstPage[r] + NbPages[r] <= AddrPages
  /\ \A q, r \in RegionIds :
       q # r => \/ FirstPage[q] + NbPages[q] <= FirstPage[r]
                \/ FirstPage[r] + NbPages[r] <= FirstPage[q]
BY LayoutAssumption DEF RegionIds

\* A frame number determines the region and the page.
LEMMA FrameInjective ==
  ASSUME NEW q \in RegionIds, NEW r \in RegionIds,
         NEW p \in Pages(q), NEW s \in Pages(r),
         Frame(q, p) = Frame(r, s)
  PROVE  q = r /\ p = s
BY Layout DEF Frame, Pages

\* The frames of the regions, and those of them that are in use.
RamFrames ==
  {f \in 1..(AddrPages - 1) : \E r \in RegionIds : \E p \in Pages(r) : f = Frame(r, p)}

InUse(pm) ==
  {f \in 1..(AddrPages - 1) :
     \E r \in RegionIds : \E p \in Pages(r) : f = Frame(r, p) /\ pm[r][p] # PAGE_FREE}

Run(f, n) == f..(f + n - 1)

\* The n frames from f on are a block of the page frame allocator.
Marked(pm, f, n) ==
  \E r \in RegionIds : \E i \in Pages(r) :
    /\ f = Frame(r, i) /\ i + n <= NbPages[r]
    /\ \A p \in Pages(r) : i <= p /\ p < i + n => pm[r][p] = Mark(i, n, p)

\* Pages in use are left alone.
Grows(pm, pm2) ==
  \A r \in RegionIds : \A p \in Pages(r) : pm[r][p] # PAGE_FREE => pm2[r][p] = pm[r][p]

LEMMA FrameType ==
  ASSUME NEW r \in RegionIds, NEW p \in Pages(r)
  PROVE  Frame(r, p) \in 1..(AddrPages - 1) /\ Frame(r, p) \in RamFrames
BY Layout DEF Frame, Pages, RamFrames

LEMMA InUseIs ==
  ASSUME NEW pm, NEW r \in RegionIds, NEW p \in Pages(r)
  PROVE  Frame(r, p) \in InUse(pm) <=> pm[r][p] # PAGE_FREE
<1>1. Frame(r, p) \in 1..(AddrPages - 1)
  BY FrameType
<1>2. ASSUME Frame(r, p) \in InUse(pm) PROVE pm[r][p] # PAGE_FREE
  <2>1. PICK q \in RegionIds : \E s \in Pages(q) :
            Frame(r, p) = Frame(q, s) /\ pm[q][s] # PAGE_FREE
    BY <1>2 DEF InUse
  <2>2. PICK s \in Pages(q) : Frame(r, p) = Frame(q, s) /\ pm[q][s] # PAGE_FREE
    BY <2>1
  <2>3. q = r /\ s = p
    BY <2>2, FrameInjective
  <2> QED
    BY <2>2, <2>3
<1> QED
  BY <1>1, <1>2 DEF InUse

\* The frames of pages i to i + n - 1 of a region.
LEMMA RunIs ==
  ASSUME NEW r \in RegionIds, NEW i \in Pages(r), NEW n \in Nat, i + n <= NbPages[r],
         NEW q \in RegionIds, NEW p \in Pages(q)
  PROVE  Frame(q, p) \in Run(Frame(r, i), n) <=> (q = r /\ i <= p /\ p < i + n)
BY Layout DEF Frame, Pages, Run

LEMMA RunInRam ==
  ASSUME NEW r \in RegionIds, NEW i \in Pages(r), NEW n \in Nat, i + n <= NbPages[r],
         NEW f \in Run(Frame(r, i), n)
  PROVE  /\ f \in RamFrames /\ f \in 1..(AddrPages - 1)
         /\ \E p \in Pages(r) : f = Frame(r, p) /\ i <= p /\ p < i + n
<1> DEFINE p == f - FirstPage[r]
<1>1. p \in Pages(r) /\ f = Frame(r, p) /\ i <= p /\ p < i + n
  BY Layout DEF Frame, Pages, Run
<1> QED
  BY <1>1, FrameType

LEMMA MarkFacts ==
  ASSUME NEW s \in Int, NEW n \in Nat, n > 0, NEW p \in Int, s <= p, p < s + n
  PROVE  /\ Mark(s, n, p) \in PageStates \ {PAGE_FREE}
         /\ Mark(s, n, p) = PAGE_USED <=> n = 1
         /\ Mark(s, n, p) = PAGE_USED_HEAD <=> n # 1 /\ p = s
         /\ Mark(s, n, p) = PAGE_USED_TAIL <=> n # 1 /\ p = s + n - 1
         /\ n # 1 /\ p # s + n - 1 => Mark(s, n, p) \in {PAGE_USED_HEAD, PAGE_USED_PART}
<1> USE DEF PAGE_FREE, PAGE_USED, PAGE_USED_HEAD, PAGE_USED_TAIL, PAGE_USED_PART
<1>1. CASE n = 1
  BY <1>1 DEF Mark, PageStates
<1>2. CASE n # 1 /\ p = s
  BY <1>2 DEF Mark, PageStates
<1>3. CASE n # 1 /\ p # s /\ p = s + n - 1
  BY <1>3 DEF Mark, PageStates
<1>4. CASE n # 1 /\ p # s /\ p # s + n - 1
  BY <1>4 DEF Mark, PageStates
<1> QED
  BY <1>1, <1>2, <1>3, <1>4

\* A block stays a block while pages in use are left alone.
LEMMA MarkedGrows ==
  ASSUME NEW pm, NEW pm2, Grows(pm, pm2), NEW f, NEW n \in Nat, n > 0, Marked(pm, f, n)
  PROVE  Marked(pm2, f, n)
<1>1. PICK r \in RegionIds : \E i \in Pages(r) :
         /\ f = Frame(r, i) /\ i + n <= NbPages[r]
         /\ \A p \in Pages(r) : i <= p /\ p < i + n => pm[r][p] = Mark(i, n, p)
  BY DEF Marked
<1>2. PICK i \in Pages(r) :
         /\ f = Frame(r, i) /\ i + n <= NbPages[r]
         /\ \A p \in Pages(r) : i <= p /\ p < i + n => pm[r][p] = Mark(i, n, p)
  BY <1>1
<1>3. ASSUME NEW p \in Pages(r), i <= p, p < i + n PROVE pm2[r][p] = Mark(i, n, p)
  <2>1. pm[r][p] = Mark(i, n, p) /\ i \in Int /\ p \in Int
    BY <1>2, <1>3 DEF Pages
  <2>2. Mark(i, n, p) # PAGE_FREE
    BY <1>3, <2>1, MarkFacts
  <2> QED
    BY <2>1, <2>2 DEF Grows
<1> QED
  BY <1>2, <1>3 DEF Marked

\* The pages of a block are in use.
LEMMA MarkedInUse ==
  ASSUME NEW pm, NEW f, NEW n \in Nat, n > 0, Marked(pm, f, n)
  PROVE  /\ f \in 1..(AddrPages - 1)
         /\ Run(f, n) \subseteq InUse(pm) /\ Run(f, n) \subseteq RamFrames
<1>1. PICK r \in RegionIds : \E i \in Pages(r) :
         /\ f = Frame(r, i) /\ i + n <= NbPages[r]
         /\ \A p \in Pages(r) : i <= p /\ p < i + n => pm[r][p] = Mark(i, n, p)
  BY DEF Marked
<1>2. PICK i \in Pages(r) :
         /\ f = Frame(r, i) /\ i + n <= NbPages[r]
         /\ \A p \in Pages(r) : i <= p /\ p < i + n => pm[r][p] = Mark(i, n, p)
  BY <1>1
<1>3. ASSUME NEW g \in Run(f, n) PROVE g \in InUse(pm) /\ g \in RamFrames
  <2>1. g \in RamFrames /\ \E p \in Pages(r) : g = Frame(r, p) /\ i <= p /\ p < i + n
    BY <1>2, <1>3, RunInRam
  <2>2. PICK p \in Pages(r) : g = Frame(r, p) /\ i <= p /\ p < i + n
    BY <2>1
  <2>3. pm[r][p] # PAGE_FREE
    <3>1. i \in Int /\ p \in Int
      BY DEF Pages
    <3> QED
      BY <1>2, <2>2, <3>1, MarkFacts
  <2> QED
    BY <2>1, <2>2, <2>3, InUseIs
<1> QED
  BY <1>2, <1>3, FrameType

\* What an allocation does to the pagemap: it takes n free frames from f on.
Takes(pm, pm2, f, n) ==
  /\ IsPagemap(pm2)
  /\ Grows(pm, pm2)
  /\ Marked(pm2, f, n)
  /\ Run(f, n) \cap InUse(pm) = {}
  /\ InUse(pm2) = InUse(pm) \cup Run(f, n)
  /\ \A r \in RegionIds : \A p \in Pages(r) :
       Frame(r, p) \notin Run(f, n) => pm2[r][p] = pm[r][p]

LEMMA AllocatedTakes ==
  ASSUME NEW pm, IsPagemap(pm), NEW r \in RegionIds, NEW s \in Pages(r),
         NEW n \in Nat, n > 0, IsFit(pm, r, s, n)
  PROVE  Takes(pm, Allocated(pm, r, s, n), Frame(r, s), n)
<1> DEFINE pm2 == Allocated(pm, r, s, n)
<1>1. /\ pm2 = [q \in RegionIds |-> pm2[q]]
      /\ \A q \in RegionIds : q # r => pm2[q] = pm[q]
      /\ pm2[r] = [p \in Pages(r) |->
            IF s <= p /\ p < s + n THEN Mark(s, n, p) ELSE pm[r][p]]
  BY DEF Allocated, IsPagemap
<1>2. /\ s + n <= NbPages[r] /\ s \in Nat
      /\ \A p \in Pages(r) : p \in Int /\ (s <= p /\ p < s + n => pm[r][p] = PAGE_FREE)
  BY DEF IsFit, Pages
<1> HIDE DEF pm2
<1>3. IsPagemap(pm2)
  <2>1. ASSUME NEW q \in RegionIds PROVE pm2[q] \in [Pages(q) -> PageStates]
    <3>1. CASE q # r
      BY <1>1, <3>1 DEF IsPagemap
    <3>2. CASE q = r
      <4>1. ASSUME NEW p \in Pages(r)
            PROVE  (IF s <= p /\ p < s + n THEN Mark(s, n, p) ELSE pm[r][p]) \in PageStates
        BY <1>2, MarkFacts DEF IsPagemap
      <4> QED
        BY <1>1, <3>2, <4>1
    <3> QED
      BY <3>1, <3>2
  <2> QED
    BY <1>1, <2>1 DEF IsPagemap
<1>4. Grows(pm, pm2)
  BY <1>1, <1>2 DEF Grows
<1>5. Marked(pm2, Frame(r, s), n)
  BY <1>1, <1>2 DEF Marked
<1>6. ASSUME NEW f \in Run(Frame(r, s), n) PROVE f \notin InUse(pm) /\ f \in InUse(pm2)
  <2>1. PICK p \in Pages(r) : f = Frame(r, p) /\ s <= p /\ p < s + n
    BY <1>2, <1>6, RunInRam
  <2>2. pm[r][p] = PAGE_FREE
    BY <1>2, <2>1
  <2>3. pm2[r][p] # PAGE_FREE
    BY <1>1, <1>2, <2>1, MarkFacts
  <2> QED
    BY <2>1, <2>2, <2>3, InUseIs
<1>7. ASSUME NEW f \in InUse(pm2), f \notin Run(Frame(r, s), n) PROVE f \in InUse(pm)
  <2>1. PICK q \in RegionIds : \E p \in Pages(q) : f = Frame(q, p) /\ pm2[q][p] # PAGE_FREE
    BY <1>7 DEF InUse
  <2>2. PICK p \in Pages(q) : f = Frame(q, p) /\ pm2[q][p] # PAGE_FREE
    BY <2>1
  <2>3. ~ (q = r /\ s <= p /\ p < s + n)
    BY <1>2, <1>7, <2>2, RunIs
  <2>4. pm[q][p] # PAGE_FREE
    BY <1>1, <2>2, <2>3
  <2> QED
    BY <2>2, <2>4, InUseIs
<1>8. ASSUME NEW f \in InUse(pm) PROVE f \in InUse(pm2)
  <2>1. PICK q \in RegionIds : \E p \in Pages(q) : f = Frame(q, p) /\ pm[q][p] # PAGE_FREE
    BY <1>8 DEF InUse
  <2>2. PICK p \in Pages(q) : f = Frame(q, p) /\ pm[q][p] # PAGE_FREE
    BY <2>1
  <2>3. pm2[q][p] # PAGE_FREE
    BY <1>4, <2>2 DEF Grows
  <2> QED
    BY <2>2, <2>3, InUseIs
<1>9. /\ Run(Frame(r, s), n) \cap InUse(pm) = {}
      /\ InUse(pm2) = InUse(pm) \cup Run(Frame(r, s), n)
  BY <1>6, <1>7, <1>8
<1>10. ASSUME NEW q \in RegionIds, NEW p \in Pages(q), Frame(q, p) \notin Run(Frame(r, s), n)
       PROVE  pm2[q][p] = pm[q][p]
  <2>1. ~ (q = r /\ s <= p /\ p < s + n)
    BY <1>2, <1>10, RunIs
  <2> QED
    BY <1>1, <2>1
<1> QED
  BY <1>3, <1>4, <1>5, <1>9, <1>10 DEF Takes, pm2

\* What a release does to it: the n frames from f on are free, the others are
\* as they were.
GivesBack(pm, pm2, f, n) ==
  /\ IsPagemap(pm2)
  /\ InUse(pm2) = InUse(pm) \ Run(f, n)
  /\ \A r \in RegionIds : \A p \in Pages(r) :
       Frame(r, p) \notin Run(f, n) => pm2[r][p] = pm[r][p]

LEMMA FreedGivesBack ==
  ASSUME NEW pm, IsPagemap(pm), NEW r \in RegionIds, NEW i \in Pages(r),
         NEW n \in Nat, n > 0, i + n <= NbPages[r], NEW j, j = i + n - 1
  PROVE  GivesBack(pm, Freed(pm, r, i, j), Frame(r, i), n)
<1> DEFINE pm2 == Freed(pm, r, i, j)
<1>1. /\ pm2 = [q \in RegionIds |-> pm2[q]]
      /\ \A q \in RegionIds : q # r => pm2[q] = pm[q]
      /\ pm2[r] = [p \in Pages(r) |-> IF i <= p /\ p <= j THEN PAGE_FREE ELSE pm[r][p]]
  BY DEF Freed, IsPagemap
<1>2. i \in Nat /\ \A p \in Pages(r) : p \in Int /\ (p <= j <=> p < i + n)
  BY DEF Pages
<1> HIDE DEF pm2
<1>3. IsPagemap(pm2)
  <2>1. ASSUME NEW q \in RegionIds PROVE pm2[q] \in [Pages(q) -> PageStates]
    BY <1>1 DEF IsPagemap, PageStates
  <2> QED
    BY <1>1, <2>1 DEF IsPagemap
<1>4. ASSUME NEW q \in RegionIds, NEW p \in Pages(q)
      PROVE  pm2[q][p] = IF Frame(q, p) \in Run(Frame(r, i), n) THEN PAGE_FREE ELSE pm[q][p]
  <2>1. Frame(q, p) \in Run(Frame(r, i), n) <=> (q = r /\ i <= p /\ p < i + n)
    BY RunIs
  <2> QED
    BY <1>1, <1>2, <2>1
<1>5. ASSUME NEW f
      PROVE  f \in InUse(pm2) <=> f \in InUse(pm) /\ f \notin Run(Frame(r, i), n)
  BY <1>4 DEF InUse
<1> QED
  BY <1>3, <1>4, <1>5 DEF GivesBack, pm2

\* The other blocks stay.
LEMMA MarkedStays ==
  ASSUME NEW pm, NEW pm2, NEW f \in Nat, NEW n \in Nat, GivesBack(pm, pm2, f, n),
         NEW g \in Nat, NEW k \in Nat, Marked(pm, g, k), Run(g, k) \cap Run(f, n) = {}
  PROVE  Marked(pm2, g, k)
<1>1. PICK r \in RegionIds : \E i \in Pages(r) :
         /\ g = Frame(r, i) /\ i + k <= NbPages[r]
         /\ \A p \in Pages(r) : i <= p /\ p < i + k => pm[r][p] = Mark(i, k, p)
  BY DEF Marked
<1>2. PICK i \in Pages(r) :
         /\ g = Frame(r, i) /\ i + k <= NbPages[r]
         /\ \A p \in Pages(r) : i <= p /\ p < i + k => pm[r][p] = Mark(i, k, p)
  BY <1>1
<1>3. ASSUME NEW p \in Pages(r), i <= p, p < i + k PROVE pm2[r][p] = Mark(i, k, p)
  <2>1. Frame(r, p) \in Run(g, k)
    BY <1>2, <1>3, RunIs
  <2>2. pm2[r][p] = pm[r][p]
    BY <2>1 DEF GivesBack
  <2> QED
    BY <1>2, <1>3, <2>2
<1> QED
  BY <1>2, <1>3 DEF Marked

-----------------------------------------------------------------------------
(* The page frame allocator *)

Fields == {"pagemap", "tables", "mapped", "panicked"}

IsRecord(m) == m = [x \in DOMAIN m |-> m[x]]

\* Of memory state m only the fields S may differ in m2.
Keeps(m, m2, S) ==
  /\ DOMAIN m2 = DOMAIN m
  /\ IsRecord(m) => IsRecord(m2)
  /\ \A x \in DOMAIN m \ S : m2[x] = m[x]

\* Some region serves a request unless none does: the first that can, with
\* its first fit.
LEMMA SomeRegionServes ==
  ASSUME NEW pm, NEW n \in Nat, n > 0, ~ NoneServes(pm, n)
  PROVE  \E at \in AllPages : Serves(pm, at[1], at[2], n)
<1> DEFINE R == {r \in RegionIds : ~ RegionIsFull(pm, r, n)}
<1>1. R # {} /\ R \subseteq Nat
  BY Layout DEF NoneServes
<1>2. PICK r \in R : \A q \in R : r <= q
  BY <1>1, LeastNatural
<1>3. \A q \in RegionIds : q < r => RegionIsFull(pm, q, n)
  BY <1>1, <1>2
<1> DEFINE S == {s \in Pages(r) : IsFit(pm, r, s, n)}
<1>4. S # {} /\ S \subseteq Nat
  BY <1>2 DEF RegionIsFull, Pages
<1>5. PICK s \in S : \A t \in S : s <= t
  BY <1>4, LeastNatural
<1>6. Serves(pm, r, s, n)
  <2>1. \A t \in Pages(r) : t < s => ~ IsFit(pm, r, t, n)
    BY <1>4, <1>5
  <2> QED
    BY <1>3, <1>5, <2>1 DEF Serves, IsFirstFit
<1>7. <<r, s>> \in AllPages
  BY <1>2, <1>5 DEF AllPages
<1> QED
  BY <1>6, <1>7

\* pfa_alloc() takes a run of free frames or leaves the memory alone.
LEMMA PfaAllocTakes ==
  ASSUME NEW m, Fields \subseteq DOMAIN m, IsPagemap(m.pagemap), NEW n \in Nat,
         NEW a, a = pfa_alloc(m, n)
  PROVE  \/ a.ret = BAD_PAGE /\ a.mem = m
         \/ /\ n > 0 /\ a.ret # BAD_PAGE /\ a.ret \in RamFrames
            /\ Keeps(m, a.mem, {"pagemap"})
            /\ Takes(m.pagemap, a.mem.pagemap, a.ret, n)
<1>1. CASE n = 0 \/ NoneServes(m.pagemap, n)
  BY <1>1 DEF pfa_alloc
<1>2. CASE ~ (n = 0 \/ NoneServes(m.pagemap, n))
  <2> DEFINE at == CHOOSE p \in AllPages : Serves(m.pagemap, p[1], p[2], n)
             r == at[1]
             s == at[2]
             m2 == [m EXCEPT !.pagemap = Allocated(m.pagemap, r, s, n)]
  <2>1. a.mem = m2 /\ a.ret = Frame(r, s)
    BY <1>2 DEF pfa_alloc
  <2>2. at \in AllPages /\ Serves(m.pagemap, r, s, n)
    BY <1>2, SomeRegionServes
  <2> HIDE DEF at
  <2>3. r \in RegionIds /\ s \in Pages(r)
    BY <2>2 DEF AllPages
  <2>4. IsFit(m.pagemap, r, s, n)
    BY <2>2 DEF Serves, IsFirstFit
  <2> HIDE DEF r, s
  <2>5. m2.pagemap = Allocated(m.pagemap, r, s, n) /\ Keeps(m, m2, {"pagemap"})
    BY DEF Fields, Keeps, IsRecord
  <2> HIDE DEF m2
  <2>6. Takes(m.pagemap, m2.pagemap, Frame(r, s), n)
    BY <1>2, <2>3, <2>4, <2>5, AllocatedTakes
  <2>7. Frame(r, s) # BAD_PAGE /\ Frame(r, s) \in RamFrames
    BY <2>3, FrameType DEF BAD_PAGE
  <2> QED
    BY <1>2, <2>1, <2>5, <2>6, <2>7
<1> QED
  BY <1>1, <1>2

\* find_region() finds the region of a frame, if it finds one.
LEMMA RegionFound ==
  ASSUME NEW r \in RegionIds, NEW i \in Pages(r), NEW q \in RegionIds,
         find_region(q, Frame(r, i))
  PROVE  q = r
<1>1. FirstPage[q] + NbPages[q] \in Nat /\ FirstPage[q] + NbPages[q] <= AddrPages
  BY Layout
<1>2. MaxPgf(q) <= FirstPage[q] + NbPages[q] /\ MaxPgf(q) \in Nat
  BY <1>1, Layout DEF MaxPgf
<1>3. FirstPage[q] <= Frame(r, i) /\ Frame(r, i) < MaxPgf(q)
  BY DEF find_region, Hosts
<1> QED
  BY <1>2, <1>3, Layout DEF Frame, Pages

\* pfa_free() of the first frame of a block gives back the block, if it finds
\* a region.
LEMMA PfaFreeOfBlock ==
  ASSUME NEW m, Fields \subseteq DOMAIN m, IsPagemap(m.pagemap),
         NEW f, NEW n \in Nat, n > 0, Marked(m.pagemap, f, n), ~ FoundNowhere(f),
         NEW m2, m2 = pfa_free(m, f)
  PROVE  /\ Keeps(m, m2, {"pagemap"})
         /\ GivesBack(m.pagemap, m2.pagemap, f, n)
<1> USE DEF PAGE_FREE, PAGE_USED, PAGE_USED_HEAD, PAGE_USED_TAIL, PAGE_USED_PART
<1>1. PICK r \in RegionIds : \E i \in Pages(r) :
         /\ f = Frame(r, i) /\ i + n <= NbPages[r]
         /\ \A p \in Pages(r) : i <= p /\ p < i + n => m.pagemap[r][p] = Mark(i, n, p)
  BY DEF Marked
<1>2. PICK i \in Pages(r) :
         /\ f = Frame(r, i) /\ i + n <= NbPages[r]
         /\ \A p \in Pages(r) : i <= p /\ p < i + n => m.pagemap[r][p] = Mark(i, n, p)
  BY <1>1
<1> DEFINE q == CHOOSE q \in RegionIds : find_region(q, f)
<1>4. \E k \in RegionIds : find_region(k, f)
  <2> DEFINE R == {k \in RegionIds : Hosts(k, f)}
  <2>1. R # {} /\ R \subseteq Nat
    BY Layout DEF FoundNowhere
  <2>2. PICK k \in R : \A l \in R : k <= l
    BY <2>1, LeastNatural
  <2>3. find_region(k, f)
    BY <2>1, <2>2 DEF find_region
  <2> QED
    BY <2>2, <2>3
<1>5. q = r
  <2>1. q \in RegionIds /\ find_region(q, f)
    BY <1>4
  <2> HIDE DEF q
  <2> QED
    BY <1>2, <2>1, RegionFound
<1> DEFINE at == f - FirstPage[q]
<1>a. m2 = IF m.pagemap[q][at] = PAGE_USED
             THEN [m EXCEPT !.pagemap = Freed(m.pagemap, q, at, at)]
           ELSE IF m.pagemap[q][at] = PAGE_USED_HEAD THEN FreeBlock(m, q, at)
           ELSE Panicked(m)
  BY DEF pfa_free
<1> HIDE DEF q
<1>6. at = i /\ i \in Nat
  BY <1>2, <1>5, Layout DEF Frame, Pages
<1> HIDE DEF at
<1>7. m2 = IF m.pagemap[r][i] = PAGE_USED
             THEN [m EXCEPT !.pagemap = Freed(m.pagemap, r, i, i)]
           ELSE IF m.pagemap[r][i] = PAGE_USED_HEAD THEN FreeBlock(m, r, i)
           ELSE Panicked(m)
  BY <1>5, <1>6, <1>a
<1>8. ASSUME NEW p \in Pages(r), i <= p, p < i + n
      PROVE  /\ p \in Nat /\ m.pagemap[r][p] = Mark(i, n, p)
             /\ Mark(i, n, p) \in PageStates \ {PAGE_FREE}
             /\ Mark(i, n, p) = PAGE_USED <=> n = 1
             /\ Mark(i, n, p) = PAGE_USED_HEAD <=> n # 1 /\ p = i
             /\ Mark(i, n, p) = PAGE_USED_TAIL <=> n # 1 /\ p = i + n - 1
             /\ n # 1 /\ p # i + n - 1 => Mark(i, n, p) \in {PAGE_USED_HEAD, PAGE_USED_PART}
  <2>1. p \in Nat /\ p \in Int /\ i \in Int
    BY <1>6 DEF Pages
  <2>2. m.pagemap[r][p] = Mark(i, n, p)
    BY <1>2, <1>8
  <2>3. n > 0 /\ i <= p /\ p < i + n
    BY <1>8
  <2>4. /\ Mark(i, n, p) \in PageStates \ {PAGE_FREE}
        /\ Mark(i, n, p) = PAGE_USED <=> n = 1
        /\ Mark(i, n, p) = PAGE_USED_HEAD <=> n # 1 /\ p = i
        /\ Mark(i, n, p) = PAGE_USED_TAIL <=> n # 1 /\ p = i + n - 1
        /\ n # 1 /\ p # i + n - 1 => Mark(i, n, p) \in {PAGE_USED_HEAD, PAGE_USED_PART}
    BY <2>1, <2>3, MarkFacts
  <2> QED
    BY <2>1, <2>2, <2>4
<1>9. ASSUME NEW j, j = i + n - 1, m2 = [m EXCEPT !.pagemap = Freed(m.pagemap, r, i, j)]
      PROVE  /\ Keeps(m, m2, {"pagemap"})
             /\ GivesBack(m.pagemap, m2.pagemap, f, n)
  <2>1. m2.pagemap = Freed(m.pagemap, r, i, j) /\ Keeps(m, m2, {"pagemap"})
    BY <1>9 DEF Fields, Keeps, IsRecord
  <2> QED
    BY <1>2, <1>9, <2>1, FreedGivesBack
<1>10. CASE n = 1
  <2>1. m.pagemap[r][i] = PAGE_USED
    BY <1>6, <1>8, <1>10
  <2>2. m2 = [m EXCEPT !.pagemap = Freed(m.pagemap, r, i, i)] /\ i = i + n - 1
    BY <1>6, <1>7, <1>10, <2>1
  <2> QED
    BY <1>9, <2>2
<1>11. CASE n # 1
  <2> DEFINE j == CHOOSE k \in i..NbPages[r] : WalkStops(m.pagemap, r, i, k)
             t == i + n - 1
  <2>1. /\ t \in Pages(r) /\ t \in i..NbPages[r] /\ t \in Nat /\ t < NbPages[r]
        /\ i < t /\ i <= t /\ t < i + n /\ t = i + n - 1
    BY <1>2, <1>6, <1>11, Layout DEF Pages
  <2>2. m.pagemap[r][t] = PAGE_USED_TAIL
    <3> HIDE DEF t
    <3> QED
      BY <1>8, <1>11, <2>1
  <2>3. WalkStops(m.pagemap, r, i, t)
    <3>1. ASSUME NEW p \in Pages(r), i <= p, p < t
          PROVE  m.pagemap[r][p] \in {PAGE_USED_HEAD, PAGE_USED_PART}
      <4>1. p \in Nat /\ p < i + n /\ p # i + n - 1
        BY <1>6, <3>1 DEF Pages
      <4> QED
        BY <1>8, <1>11, <3>1, <4>1
    <3> QED
      BY <2>1, <2>2, <3>1 DEF WalkStops
  <2>4. j \in i..NbPages[r] /\ WalkStops(m.pagemap, r, i, j)
    BY <2>1, <2>3
  <2>5. m.pagemap[r][i] = PAGE_USED_HEAD
    BY <1>6, <1>8, <1>11
  <2>6. m2 = IF j < NbPages[r] /\ m.pagemap[r][j] = PAGE_USED_TAIL
               THEN [m EXCEPT !.pagemap = Freed(m.pagemap, r, i, j)]
               ELSE Panicked([m EXCEPT !.pagemap = Freed(m.pagemap, r, i, j - 1)])
    BY <1>7, <2>5 DEF FreeBlock
  <2> HIDE DEF j, t
  <2>7. j = t
    <3>1. j \in Nat /\ i <= j /\ j <= NbPages[r] /\ NbPages[r] \in Nat
      BY <1>6, <2>4, Layout
    <3>2. ~ (j < t)
      <4>1. SUFFICES ASSUME j < t PROVE FALSE
        OBVIOUS
      <4>2. j \in Pages(r) /\ j < NbPages[r]
        BY <2>1, <3>1, <4>1 DEF Pages
      <4>3. m.pagemap[r][j] \in {PAGE_USED_HEAD, PAGE_USED_PART}
        BY <2>1, <2>3, <3>1, <4>1, <4>2 DEF WalkStops
      <4> QED
        BY <2>4, <4>2, <4>3 DEF WalkStops
    <3>3. ~ (t < j)
      <4>1. t < j => m.pagemap[r][t] \in {PAGE_USED_HEAD, PAGE_USED_PART}
        BY <2>1, <2>4 DEF WalkStops
      <4> QED
        BY <2>2, <4>1
    <3> QED
      BY <2>1, <3>1, <3>2, <3>3
  <2>8. m2 = [m EXCEPT !.pagemap = Freed(m.pagemap, r, i, j)]
    BY <2>1, <2>2, <2>6, <2>7
  <2> QED
    BY <1>9, <2>7, <2>8 DEF t
<1> QED
  BY <1>10, <1>11

LEMMA PfaFreeGivesBack ==
  ASSUME NEW m, Fields \subseteq DOMAIN m, IsPagemap(m.pagemap),
         NEW f, NEW n \in Nat, n > 0, Marked(m.pagemap, f, n),
         NEW m2, m2 = pfa_free(m, f), ~ m2.panicked
  PROVE  /\ Keeps(m, m2, {"pagemap"})
         /\ GivesBack(m.pagemap, m2.pagemap, f, n)
<1>1. ~ FoundNowhere(f)
  BY DEF pfa_free, Panicked, Fields
<1> QED
  BY <1>1, PfaFreeOfBlock

-----------------------------------------------------------------------------
(* The page tables *)

TablesOf(m) == {m.tables[pd] : pd \in {p \in PdEntries : m.tables[p] # BAD_PAGE}}

\* The frames in use are the page tables, each with a frame of its own, and
\* the frames X; every mapped page has a page table.
Mem(m, X) ==
  /\ Fields \subseteq DOMAIN m
  /\ IsPagemap(m.pagemap)
  /\ m.tables \in [PdEntries -> Nat]
  /\ \A p \in m.mapped : PD_INDEX(p) \in PdEntries /\ m.tables[PD_INDEX(p)] # BAD_PAGE
  /\ \A pd, pe \in PdEntries :
       m.tables[pd] # BAD_PAGE /\ m.tables[pd] = m.tables[pe] => pd = pe
  /\ InUse(m.pagemap) = TablesOf(m) \cup X
  /\ TablesOf(m) \cap X = {}

\* Pages P are mapped on the way from m to m2, and nothing else happens but
\* that page tables are added.
Maps(m, m2, P, X) ==
  /\ Mem(m2, X)
  /\ Keeps(m, m2, {"pagemap", "tables", "mapped"})
  /\ Grows(m.pagemap, m2.pagemap)
  /\ m2.mapped = m.mapped \cup P

LEMMA PanickedPanics ==
  ASSUME NEW m, Fields \subseteq DOMAIN m
  PROVE  Panicked(m).panicked
BY DEF Fields, Panicked

LEMMA GrowsTransitive ==
  ASSUME NEW pm1, NEW pm2, NEW pm3, Grows(pm1, pm2), Grows(pm2, pm3)
  PROVE  Grows(pm1, pm3)
BY DEF Grows

LEMMA NewTableMaps ==
  ASSUME NEW m, NEW X, Mem(m, X), NEW pd \in PdEntries, m.tables[pd] = BAD_PAGE,
         NEW m2, m2 = new_page_table(m, pd), ~ m2.panicked
  PROVE  Maps(m, m2, {}, X) /\ m2.tables[pd] # BAD_PAGE
<1> DEFINE a == pfa_alloc(m, 1)
           m1 == a.mem
           t == a.ret
<1>1. Fields \subseteq DOMAIN m /\ IsPagemap(m.pagemap) /\ m.tables \in [PdEntries -> Nat]
  BY DEF Mem
<1>2. t # BAD_PAGE
  BY <1>1, PanickedPanics DEF new_page_table
<1>3. m2 = [m1 EXCEPT !.tables[pd] = t, !.mapped = {p \in @ : PD_INDEX(p) # pd}]
  BY <1>2 DEF new_page_table
<1>4. /\ t \in RamFrames /\ Keeps(m, m1, {"pagemap"})
      /\ Takes(m.pagemap, m1.pagemap, t, 1)
  <2>1. 1 \in Nat
    OBVIOUS
  <2> HIDE DEF a
  <2> QED
    BY <1>1, <1>2, <2>1, PfaAllocTakes DEF a
<1> HIDE DEF m1, t
<1>5. /\ m1.tables = m.tables /\ m1.mapped = m.mapped /\ Fields \subseteq DOMAIN m1
  BY <1>1, <1>4 DEF Keeps, Fields
<1>6. /\ m2.tables = [m.tables EXCEPT ![pd] = t]
      /\ m2.mapped = {p \in m.mapped : PD_INDEX(p) # pd}
      /\ m2.pagemap = m1.pagemap
      /\ Keeps(m1, m2, {"tables", "mapped"})
  BY <1>3, <1>5 DEF Fields, Keeps, IsRecord
<1>7. m2.mapped = m.mapped
  BY <1>6 DEF Mem
<1>8. t \in Nat /\ Run(t, 1) = {t}
  BY <1>4 DEF RamFrames, Run
<1>9. m2.tables \in [PdEntries -> Nat] /\ m2.tables[pd] = t
  BY <1>1, <1>6, <1>8
<1>10. TablesOf(m2) = TablesOf(m) \cup {t}
  <2>1. ASSUME NEW pe \in PdEntries PROVE m2.tables[pe] = IF pe = pd THEN t ELSE m.tables[pe]
    BY <1>1, <1>6
  <2> QED
    BY <1>2, <2>1 DEF TablesOf
<1>11. t \notin InUse(m.pagemap) /\ InUse(m2.pagemap) = InUse(m.pagemap) \cup {t}
  BY <1>4, <1>6, <1>8 DEF Takes
<1>12. Mem(m2, X)
  <2>1. Fields \subseteq DOMAIN m2 /\ IsPagemap(m2.pagemap)
    BY <1>4, <1>5, <1>6 DEF Keeps, Takes
  <2>2. \A p \in m2.mapped : PD_INDEX(p) \in PdEntries /\ m2.tables[PD_INDEX(p)] # BAD_PAGE
    BY <1>1, <1>6, <1>7 DEF Mem
  <2>3. ASSUME NEW pe \in PdEntries, NEW pf \in PdEntries,
               m2.tables[pe] # BAD_PAGE, m2.tables[pe] = m2.tables[pf]
        PROVE  pe = pf
    <3>1. \A pg \in PdEntries : m.tables[pg] # t
      BY <1>2, <1>11 DEF Mem, TablesOf
    <3> QED
      BY <1>1, <1>6, <2>3, <3>1 DEF Mem
  <2>4. InUse(m2.pagemap) = TablesOf(m2) \cup X /\ TablesOf(m2) \cap X = {}
    BY <1>10, <1>11 DEF Mem
  <2> QED
    BY <1>9, <2>1, <2>2, <2>3, <2>4 DEF Mem
<1>13. Keeps(m, m2, {"pagemap", "tables", "mapped"})
  BY <1>4, <1>6 DEF Keeps
<1>14. Grows(m.pagemap, m2.pagemap)
  BY <1>4, <1>6 DEF Takes
<1> QED
  BY <1>2, <1>7, <1>9, <1>12, <1>13, <1>14 DEF Maps

LEMMA SetPteMaps ==
  ASSUME NEW m, NEW X, Mem(m, X), NEW page, PD_INDEX(page) \in PdEntries,
         m.tables[PD_INDEX(page)] # BAD_PAGE, NEW m2, m2 = SetPte(m, page), ~ m2.panicked
  PROVE  Maps(m, m2, {page}, X)
<1>1. m2 = [m EXCEPT !.mapped = @ \cup {page}]
  BY DEF SetPte
<1>2. m2.mapped = m.mapped \cup {page} /\ Keeps(m, m2, {"mapped"})
  BY <1>1 DEF Mem, Fields, Keeps, IsRecord
<1>3. m2.tables = m.tables /\ m2.pagemap = m.pagemap /\ Fields \subseteq DOMAIN m2
  BY <1>2 DEF Mem, Fields, Keeps
<1>4. Mem(m2, X)
  BY <1>2, <1>3 DEF Mem, TablesOf
<1> QED
  BY <1>2, <1>3, <1>4 DEF Maps, Keeps, Grows

\* map_page() maps the page, with a new page table if it needs one, or panics.
LEMMA MapPageMaps ==
  ASSUME NEW m, NEW X, Mem(m, X), NEW page, PD_INDEX(page) \in PdEntries,
         NEW m2, m2 = map_page(m, page), ~ m2.panicked
  PROVE  Maps(m, m2, {page}, X)
<1> DEFINE pd == PD_INDEX(page)
<1>1. CASE m.tables[pd] = BAD_PAGE
  <2> DEFINE m1 == new_page_table(m, pd)
  <2>1. m2 = SetPte(m1, page)
    BY <1>1 DEF map_page
  <2>2. ~ m1.panicked
    BY <2>1 DEF SetPte
  <2>3. Maps(m, m1, {}, X) /\ m1.tables[pd] # BAD_PAGE
    BY <1>1, <2>2, NewTableMaps
  <2> HIDE DEF m1
  <2>4. Maps(m1, m2, {page}, X)
    BY <2>1, <2>3, SetPteMaps DEF Maps
  <2>5. Grows(m.pagemap, m2.pagemap)
    BY <2>3, <2>4, GrowsTransitive DEF Maps
  <2> QED
    BY <2>3, <2>4, <2>5 DEF Maps, Keeps
<1>2. CASE m.tables[pd] # BAD_PAGE
  <2>1. m2 = SetPte(m, page)
    BY <1>2, PanickedPanics DEF map_page, Mem
  <2> QED
    BY <1>2, <2>1, SetPteMaps
<1> QED
  BY <1>1, <1>2

-----------------------------------------------------------------------------
(* The loops over pages *)

\* The loop of map_pages() computes its states one after the other.
LEMMA MapPagesRuns ==
  ASSUME NEW m, NEW first, NEW n \in Nat
  PROVE  \E after :
           /\ map_pages(m, first, n) = after[n]
           /\ after[0] = m
           /\ \A i \in 1..n : after[i] = IF after[i - 1].panicked THEN after[i - 1]
                                         ELSE map_page(after[i - 1], first + i - 1)
<1> DEFINE Step(f, i) == IF i = 0 THEN m
                         ELSE IF f[i - 1].panicked THEN f[i - 1]
                         ELSE map_page(f[i - 1], first + i - 1)
           IsRun(f, k) == f = [i \in 0..k |-> Step(f, i)]
           Bad == {k \in Nat : ~ \E f : IsRun(f, k)}
<1>1. Bad = {}
  <2> SUFFICES ASSUME Bad # {} PROVE FALSE
    OBVIOUS
  <2>1. Bad \subseteq Nat
    OBVIOUS
  <2>2. PICK k \in Bad : \A l \in Bad : k <= l
    <3> HIDE DEF Bad
    <3> QED
      BY <2>1, LeastNatural
  <2>3. k # 0
    <3> DEFINE f == [i \in 0..0 |-> m]
    <3>1. f = [i \in 0..0 |-> Step(f, i)]
      OBVIOUS
    <3> HIDE DEF Step, f
    <3> QED
      BY <2>2, <3>1
  <2>4. k \in Nat /\ k - 1 \in Nat /\ k - 1 \notin Bad
    BY <2>1, <2>2, <2>3
  <2>5. PICK g : IsRun(g, k - 1)
    BY <2>4
  <2> DEFINE f == [i \in 0..k |-> IF i = k THEN Step(g, k) ELSE g[i]]
  <2>6. ASSUME NEW i \in 0..k PROVE f[i] = Step(f, i)
    <3>0. i \in 0..k /\ k - 1 \in 0..k /\ k - 1 # k
      BY <2>4
    <3>1. CASE i = k
      <4>1. f[k - 1] = g[k - 1] /\ f[i] = Step(g, k)
        BY <3>0, <3>1
      <4>2. Step(f, k) = Step(g, k)
        <5> HIDE DEF f
        <5> QED
          BY <4>1
      <4> QED
        BY <3>1, <4>1, <4>2
    <3>2. CASE i # k
      <4>1. i \in 0..(k - 1) /\ (i # 0 => i - 1 \in 0..k /\ i - 1 # k)
        BY <2>4, <3>2
      <4>2. f[i] = g[i] /\ (i # 0 => f[i - 1] = g[i - 1])
        BY <3>2, <4>1
      <4>3. g[i] = Step(g, i)
        <5> HIDE DEF Step
        <5> QED
          BY <2>5, <4>1
      <4>4. Step(f, i) = Step(g, i)
        <5> HIDE DEF f
        <5> QED
          BY <4>2
      <4> QED
        BY <4>2, <4>3, <4>4
    <3> QED
      BY <3>1, <3>2
  <2>7. f = [i \in 0..k |-> f[i]]
    OBVIOUS
  <2> HIDE DEF Step, f
  <2>8. IsRun(f, k)
    BY <2>6, <2>7
  <2> QED
    BY <2>2, <2>8
<1>2. \E f : f = [i \in 0..n |-> Step(f, i)]
  BY <1>1
<1> DEFINE after == CHOOSE f : f = [i \in 0..n |-> Step(f, i)]
<1>3. after = [i \in 0..n |-> Step(after, i)]
  <2> HIDE DEF Step
  <2> QED
    BY <1>2
<1>4. map_pages(m, first, n) = after[n]
  BY Zenon DEF map_pages
<1> HIDE DEF after
<1>5. ASSUME NEW i \in 0..n PROVE after[i] = Step(after, i)
  <2> HIDE DEF Step
  <2> QED
    BY <1>3
<1>6. after[0] = m
  BY <1>5
<1>7. \A i \in 1..n : after[i] = IF after[i - 1].panicked THEN after[i - 1]
                                 ELSE map_page(after[i - 1], first + i - 1)
  BY <1>5
<1> QED
  BY <1>4, <1>6, <1>7

\* So does that of unmap_pages().
LEMMA UnmapPagesRuns ==
  ASSUME NEW m, NEW first, NEW n \in Nat
  PROVE  \E after :
           /\ unmap_pages(m, first, n) = after[n]
           /\ after[0] = m
           /\ \A i \in 1..n : after[i] = IF after[i - 1].panicked THEN after[i - 1]
                                         ELSE unmap_page(after[i - 1], first + i - 1)
<1> DEFINE Step(f, i) == IF i = 0 THEN m
                         ELSE IF f[i - 1].panicked THEN f[i - 1]
                         ELSE unmap_page(f[i - 1], first + i - 1)
           IsRun(f, k) == f = [i \in 0..k |-> Step(f, i)]
           Bad == {k \in Nat : ~ \E f : IsRun(f, k)}
<1>1. Bad = {}
  <2> SUFFICES ASSUME Bad # {} PROVE FALSE
    OBVIOUS
  <2>1. Bad \subseteq Nat
    OBVIOUS
  <2>2. PICK k \in Bad : \A l \in Bad : k <= l
    <3> HIDE DEF Bad
    <3> QED
      BY <2>1, LeastNatural
  <2>3. k # 0
    <3> DEFINE f == [i \in 0..0 |-> m]
    <3>1. f = [i \in 0..0 |-> Step(f, i)]
      OBVIOUS
    <3> HIDE DEF Step, f
    <3> QED
      BY <2>2, <3>1
  <2>4. k \in Nat /\ k - 1 \in Nat /\ k - 1 \notin Bad
    BY <2>1, <2>2, <2>3
  <2>5. PICK g : IsRun(g, k - 1)
    BY <2>4
  <2> DEFINE f == [i \in 0..k |-> IF i = k THEN Step(g, k) ELSE g[i]]
  <2>6. ASSUME NEW i \in 0..k PROVE f[i] = Step(f, i)
    <3>0. i \in 0..k /\ k - 1 \in 0..k /\ k - 1 # k
      BY <2>4
    <3>1. CASE i = k
      <4>1. f[k - 1] = g[k - 1] /\ f[i] = Step(g, k)
        BY <3>0, <3>1
      <4>2. Step(f, k) = Step(g, k)
        <5> HIDE DEF f
        <5> QED
          BY <4>1
      <4> QED
        BY <3>1, <4>1, <4>2
    <3>2. CASE i # k
      <4>1. i \in 0..(k - 1) /\ (i # 0 => i - 1 \in 0..k /\ i - 1 # k)
        BY <2>4, <3>2
      <4>2. f[i] = g[i] /\ (i # 0 => f[i - 1] = g[i - 1])
        BY <3>2, <4>1
      <4>3. g[i] = Step(g, i)
        <5> HIDE DEF Step
        <5> QED
          BY <2>5, <4>1
      <4>4. Step(f, i) = Step(g, i)
        <5> HIDE DEF f
        <5> QED
          BY <4>2
      <4> QED
        BY <4>2, <4>3, <4>4
    <3> QED
      BY <3>1, <3>2
  <2>7. f = [i \in 0..k |-> f[i]]
    OBVIOUS
  <2> HIDE DEF Step, f
  <2>8. IsRun(f, k)
    BY <2>6, <2>7
  <2> QED
    BY <2>2, <2>8
<1>2. \E f : f = [i \in 0..n |-> Step(f, i)]
  BY <1>1
<1> DEFINE after == CHOOSE f : f = [i \in 0..n |-> Step(f, i)]
<1>3. after = [i \in 0..n |-> Step(after, i)]
  <2> HIDE DEF Step
  <2> QED
    BY <1>2
<1>4. unmap_pages(m, first, n) = after[n]
  BY Zenon DEF unmap_pages
<1> HIDE DEF after
<1>5. ASSUME NEW i \in 0..n PROVE after[i] = Step(after, i)
  <2> HIDE DEF Step
  <2> QED
    BY <1>3
<1>6. after[0] = m
  BY <1>5
<1>7. \A i \in 1..n : after[i] = IF after[i - 1].panicked THEN after[i - 1]
                                 ELSE unmap_page(after[i - 1], first + i - 1)
  BY <1>5
<1> QED
  BY <1>4, <1>6, <1>7

LEMMA MapsReflexive ==
  ASSUME NEW m, NEW X, Mem(m, X)
  PROVE  Maps(m, m, {}, X)
BY DEF Maps, Keeps, Grows

LEMMA MapsTransitive ==
  ASSUME NEW m1, NEW m2, NEW m3, NEW P, NEW Q, NEW X,
         Maps(m1, m2, P, X), Maps(m2, m3, Q, X)
  PROVE  Maps(m1, m3, P \cup Q, X)
<1>1. Grows(m1.pagemap, m3.pagemap)
  BY GrowsTransitive DEF Maps
<1>2. m3.mapped = m1.mapped \cup (P \cup Q)
  BY DEF Maps
<1>3. Keeps(m1, m3, {"pagemap", "tables", "mapped"})
  BY DEF Maps, Keeps
<1> QED
  BY <1>1, <1>2, <1>3 DEF Maps

LEMMA RunGrows ==
  ASSUME NEW first \in Nat, NEW i \in Nat, i > 0
  PROVE  /\ Run(first, i) = Run(first, i - 1) \cup {first + i - 1}
         /\ Run(first, 0) = {}
BY DEF Run

\* The loop maps all pages or panics.
LEMMA MapPagesMaps ==
  ASSUME NEW m, NEW X, Mem(m, X), NEW first \in Nat, NEW n \in Nat,
         \A p \in Run(first, n) : PD_INDEX(p) \in PdEntries,
         NEW m2, m2 = map_pages(m, first, n), ~ m2.panicked
  PROVE  Maps(m, m2, Run(first, n), X)
<1>1. PICK after : /\ map_pages(m, first, n) = after[n]
                   /\ after[0] = m
                   /\ \A i \in 1..n : after[i] = IF after[i - 1].panicked THEN after[i - 1]
                                                 ELSE map_page(after[i - 1], first + i - 1)
  BY MapPagesRuns
<1> DEFINE Good(i) == ~ after[i].panicked => Maps(m, after[i], Run(first, i), X)
           Bad == {i \in 0..n : ~ Good(i)}
<1>2. Bad = {}
  <2> SUFFICES ASSUME Bad # {} PROVE FALSE
    OBVIOUS
  <2>1. Bad \subseteq Nat
    OBVIOUS
  <2>2. PICK i \in Bad : \A l \in Bad : i <= l
    <3> HIDE DEF Bad
    <3> QED
      BY <2>1, LeastNatural
  <2>3. i # 0
    <3>1. Run(first, 0) = {}
      BY DEF Run
    <3>2. Good(0)
      BY <1>1, <3>1, MapsReflexive
    <3> HIDE DEF Good
    <3> QED
      BY <2>2, <3>2
  <2>4. i \in 1..n /\ i \in Nat /\ i > 0 /\ i - 1 \in 0..n /\ i - 1 \notin Bad
    <3>1. i \in 1..n
      BY <2>2, <2>3
    <3> HIDE DEF Bad
    <3> QED
      BY <2>2, <3>1
  <2>5. Good(i - 1)
    <3> HIDE DEF Good
    <3> QED
      BY <2>4
  <2>6. after[i] = IF after[i - 1].panicked THEN after[i - 1]
                   ELSE map_page(after[i - 1], first + i - 1)
    BY <1>1, <2>4
  <2>7. Good(i)
    <3> SUFFICES ASSUME ~ after[i].panicked PROVE Maps(m, after[i], Run(first, i), X)
      OBVIOUS
    <3>1. ~ after[i - 1].panicked /\ after[i] = map_page(after[i - 1], first + i - 1)
      BY <2>6
    <3>2. Maps(m, after[i - 1], Run(first, i - 1), X)
      BY <2>5, <3>1
    <3>3. first + i - 1 \in Run(first, n)
      BY <2>4 DEF Run
    <3>4. Maps(after[i - 1], after[i], {first + i - 1}, X)
      BY <3>1, <3>2, <3>3, MapPageMaps DEF Maps
    <3>5. Run(first, i) = Run(first, i - 1) \cup {first + i - 1}
      BY <2>4, RunGrows
    <3> QED
      BY <3>2, <3>4, <3>5, MapsTransitive
  <2> HIDE DEF Good
  <2> QED
    BY <2>2, <2>7
<1>3. Good(n)
  <2> HIDE DEF Good
  <2>1. n \in 0..n
    OBVIOUS
  <2> QED
    BY <1>2, <2>1
<1> QED
  BY <1>1, <1>3

\* The loop unmaps all pages or panics.
LEMMA UnmapPagesUnmaps ==
  ASSUME NEW m, Fields \subseteq DOMAIN m, NEW first \in Nat, NEW n \in Nat,
         NEW m2, m2 = unmap_pages(m, first, n), ~ m2.panicked
  PROVE  Keeps(m, m2, {"mapped"}) /\ m2.mapped = m.mapped \ Run(first, n)
<1>1. PICK after : /\ unmap_pages(m, first, n) = after[n]
                   /\ after[0] = m
                   /\ \A i \in 1..n : after[i] = IF after[i - 1].panicked THEN after[i - 1]
                                                 ELSE unmap_page(after[i - 1], first + i - 1)
  BY UnmapPagesRuns
<1> DEFINE Good(i) == /\ Fields \subseteq DOMAIN after[i]
                      /\ ~ after[i].panicked =>
                           /\ Keeps(m, after[i], {"mapped"})
                           /\ after[i].mapped = m.mapped \ Run(first, i)
           Bad == {i \in 0..n : ~ Good(i)}
<1>2. Bad = {}
  <2> SUFFICES ASSUME Bad # {} PROVE FALSE
    OBVIOUS
  <2>1. Bad \subseteq Nat
    OBVIOUS
  <2>2. PICK i \in Bad : \A l \in Bad : i <= l
    <3> HIDE DEF Bad
    <3> QED
      BY <2>1, LeastNatural
  <2>3. i # 0
    <3>1. Run(first, 0) = {}
      BY DEF Run
    <3>2. Good(0)
      BY <1>1, <3>1 DEF Keeps
    <3> HIDE DEF Good
    <3> QED
      BY <2>2, <3>2
  <2>4. i \in 1..n /\ i \in Nat /\ i > 0 /\ i - 1 \in 0..n /\ i - 1 \notin Bad
    <3>1. i \in 1..n
      BY <2>2, <2>3
    <3> HIDE DEF Bad
    <3> QED
      BY <2>2, <3>1
  <2>5. Good(i - 1)
    <3> HIDE DEF Good
    <3> QED
      BY <2>4
  <2>6. after[i] = IF after[i - 1].panicked THEN after[i - 1]
                   ELSE unmap_page(after[i - 1], first + i - 1)
    BY <1>1, <2>4
  <2> DEFINE a == after[i - 1]
             b == after[i]
             page == first + i - 1
  <2>7. Run(first, i) = Run(first, i - 1) \cup {page}
    BY <2>4, RunGrows
  <2>8. Good(i)
    <3> HIDE DEF page
    <3>1. CASE a.panicked
      BY <2>5, <2>6, <3>1
    <3>2. CASE ~ a.panicked
      <4>1. /\ Fields \subseteq DOMAIN a
            /\ Keeps(m, a, {"mapped"}) /\ a.mapped = m.mapped \ Run(first, i - 1)
            /\ b = unmap_page(a, page)
        BY <2>5, <2>6, <3>2 DEF page
      <4> HIDE DEF a
      <4>2. CASE b = Panicked(a)
        <5>1. Fields \subseteq DOMAIN b /\ b.panicked
          BY <4>1, <4>2 DEF Panicked, Fields
        <5> QED
          BY <5>1
      <4>3. CASE b = [a EXCEPT !.mapped = @ \ {page}]
        <5>1. /\ Fields \subseteq DOMAIN b
              /\ Keeps(a, b, {"mapped"}) /\ b.mapped = a.mapped \ {page}
          BY <4>1, <4>3 DEF Fields, Keeps, IsRecord
        <5>2. Keeps(m, b, {"mapped"})
          BY <4>1, <5>1 DEF Keeps
        <5> QED
          BY <2>7, <4>1, <5>1, <5>2
      <4> QED
        BY <4>1, <4>2, <4>3 DEF unmap_page
    <3> QED
      BY <3>1, <3>2
  <2> HIDE DEF Good
  <2> QED
    BY <2>2, <2>8
<1>3. Good(n)
  <2> HIDE DEF Good
  <2>1. n \in 0..n
    OBVIOUS
  <2> QED
    BY <1>2, <2>1
<1> QED
  BY <1>1, <1>3

-----------------------------------------------------------------------------
(* The heap *)

BlockRecs == [page : Nat, elt_size : Nat, tot_elts : Nat, nb_frees : Int,
              first_ptr : Nat \ {0}, used : SUBSET Nat]

BigRecs == [ptr : Nat, size : Nat, meta : Nat]

PagesOfBlocks(h) == {h.blocks[i].page : i \in DOMAIN h.blocks}

PagesOfBigs(h) == UNION {BigPages(h.bigs[i]) : i \in DOMAIN h.bigs}

\* The pages of a big allocation are a block of the page frame allocator.
BigOK(pm, b) ==
  LET f == b.ptr \div PageSize
      n == b.size \div PageSize
  IN  /\ f \in Nat /\ n \in Nat /\ n > 0
      /\ BigPages(b) = Run(f, n)
      /\ Marked(pm, f, n)

\* No two entries of the lists share a page.
Distinct(h) ==
  /\ \A i, j \in DOMAIN h.blocks : h.blocks[i].page = h.blocks[j].page => i = j
  /\ \A i, j \in DOMAIN h.bigs : i # j => BigPages(h.bigs[i]) \cap BigPages(h.bigs[j]) = {}
  /\ PagesOfBlocks(h) \cap PagesOfBigs(h) = {}

\* The invariant, with the frames Q that are taken for a big allocation which
\* is not in the list yet.
HeapOK(h, Q) ==
  /\ IsRecord(h) /\ {"blocks", "bigs"} \subseteq DOMAIN h
  /\ h.blocks \in Seq(BlockRecs) /\ h.bigs \in Seq(BigRecs)
  /\ Mem(h, PagesOfBlocks(h) \cup PagesOfBigs(h) \cup Q)
  /\ Q \cap (PagesOfBlocks(h) \cup PagesOfBigs(h)) = {}
  /\ Distinct(h)
  /\ \A i \in DOMAIN h.bigs : BigOK(h.pagemap, h.bigs[i])
  /\ h.mapped = BootPages \cup PagesOfBlocks(h) \cup PagesOfBigs(h)

\* Frames are taken.
LEMMA MemTakes ==
  ASSUME NEW m, NEW X, Mem(m, X), NEW m2, Keeps(m, m2, {"pagemap"}),
         NEW f, NEW n, Takes(m.pagemap, m2.pagemap, f, n)
  PROVE  Mem(m2, X \cup Run(f, n)) /\ Run(f, n) \cap X = {}
<1>1. /\ m2.tables = m.tables /\ m2.mapped = m.mapped /\ Fields \subseteq DOMAIN m2
      /\ TablesOf(m2) = TablesOf(m)
  BY DEF Mem, Keeps, Fields, TablesOf
<1>2. /\ IsPagemap(m2.pagemap) /\ Run(f, n) \cap InUse(m.pagemap) = {}
      /\ InUse(m2.pagemap) = InUse(m.pagemap) \cup Run(f, n)
  BY DEF Takes
<1> QED
  BY <1>1, <1>2 DEF Mem

\* Frames are given back.
LEMMA MemGivesBack ==
  ASSUME NEW m, NEW X, Mem(m, X), NEW m2, Keeps(m, m2, {"pagemap"}),
         NEW f, NEW n, GivesBack(m.pagemap, m2.pagemap, f, n), Run(f, n) \subseteq X
  PROVE  Mem(m2, X \ Run(f, n))
<1>1. /\ m2.tables = m.tables /\ m2.mapped = m.mapped /\ Fields \subseteq DOMAIN m2
      /\ TablesOf(m2) = TablesOf(m)
  BY DEF Mem, Keeps, Fields, TablesOf
<1>2. /\ IsPagemap(m2.pagemap)
      /\ InUse(m2.pagemap) = InUse(m.pagemap) \ Run(f, n)
  BY DEF GivesBack
<1> QED
  BY <1>1, <1>2 DEF Mem

\* The lists change, but not the pages in them.
LEMMA MemSame ==
  ASSUME NEW m, NEW X, Mem(m, X), NEW m2, Keeps(m, m2, {"blocks", "bigs"})
  PROVE  /\ Mem(m2, X)
         /\ m2.pagemap = m.pagemap /\ m2.tables = m.tables /\ m2.mapped = m.mapped
<1>1. /\ m2.tables = m.tables /\ m2.mapped = m.mapped /\ Fields \subseteq DOMAIN m2
      /\ m2.pagemap = m.pagemap
  BY DEF Mem, Keeps, Fields
<1>2. TablesOf(m2) = TablesOf(m)
  BY <1>1 DEF TablesOf
<1> QED
  BY <1>1, <1>2 DEF Mem

\* The blocks may differ, but not in their pages.
SamePages(s, s2) ==
  /\ s2 \in Seq(BlockRecs) /\ DOMAIN s2 = DOMAIN s
  /\ \A j \in DOMAIN s : s2[j].page = s[j].page

\* Chunks of the blocks are taken or freed.
LEMMA ChunksChange ==
  ASSUME NEW h, NEW Q, HeapOK(h, Q), NEW h2, Keeps(h, h2, {"blocks"}),
         SamePages(h.blocks, h2.blocks)
  PROVE  HeapOK(h2, Q) /\ h2.pagemap = h.pagemap /\ h2.bigs = h.bigs
<1> USE DEF SamePages
<1>1. h2.bigs = h.bigs /\ {"blocks", "bigs"} \subseteq DOMAIN h2
  BY DEF HeapOK, Keeps
<1>2. PagesOfBlocks(h2) = PagesOfBlocks(h) /\ PagesOfBigs(h2) = PagesOfBigs(h)
  BY <1>1 DEF PagesOfBlocks, PagesOfBigs
<1>3. Keeps(h, h2, {"blocks", "bigs"})
  BY DEF Keeps
<1>4. /\ Mem(h2, PagesOfBlocks(h) \cup PagesOfBigs(h) \cup Q)
      /\ h2.pagemap = h.pagemap /\ h2.mapped = h.mapped
  BY <1>3, MemSame DEF HeapOK
<1>5. Distinct(h2)
  BY <1>1, <1>2 DEF HeapOK, Distinct
<1>6. IsRecord(h2)
  BY DEF Keeps, HeapOK
<1> QED
  BY <1>1, <1>2, <1>4, <1>5, <1>6 DEF HeapOK

\* One block of the list changes, but not its page.
LEMMA BlockUpdate ==
  ASSUME NEW s \in Seq(BlockRecs), NEW i \in DOMAIN s, NEW u \in SUBSET Nat, NEW k \in Int
  PROVE  SamePages(s, [s EXCEPT ![i].used = u, ![i].nb_frees = k])
<1> DEFINE s2 == [s EXCEPT ![i].used = u, ![i].nb_frees = k]
           b == [s[i] EXCEPT !.used = u, !.nb_frees = k]
<1>1. s[i] \in BlockRecs
  OBVIOUS
<1>2. b \in BlockRecs /\ b.page = s[i].page
  BY <1>1 DEF BlockRecs
<1>3. s2 = [s EXCEPT ![i] = b]
  BY DEF BlockRecs
<1> HIDE DEF b, s2
<1>4. i \in 1..Len(s)
  OBVIOUS
<1>5. [s EXCEPT ![i] = b] \in Seq(BlockRecs)
  BY <1>2, <1>4, ExceptSeq
<1>6. DOMAIN s2 = DOMAIN s /\ \A j \in DOMAIN s : s2[j] = IF j = i THEN b ELSE s[j]
  BY <1>3
<1> QED
  BY <1>2, <1>3, <1>5, <1>6 DEF SamePages, s2

LEMMA TakeChunkKeeps ==
  ASSUME NEW h, NEW Q, HeapOK(h, Q), NEW i \in DOMAIN h.blocks,
         NEW r, r = TakeChunk(h, i), ~ r.heap.panicked
  PROVE  /\ HeapOK(r.heap, Q) /\ r.heap.pagemap = h.pagemap /\ r.heap.bigs = h.bigs
         /\ r.ret \in Nat /\ r.ret # NULL
<1> DEFINE b == h.blocks[i]
           free == (0..(b.tot_elts - 1)) \ b.used
           c == CHOOSE k \in free : \A l \in free : k <= l
           h2 == [h EXCEPT !.blocks[i].used = @ \cup {c}, !.blocks[i].nb_frees = @ - 1]
<1>1. Fields \subseteq DOMAIN h /\ "blocks" \in DOMAIN h /\ h.blocks \in Seq(BlockRecs)
  BY DEF HeapOK, Mem
<1>2. b \in BlockRecs
  BY <1>1
<1>3. free # {}
  BY <1>1, PanickedPanics DEF TakeChunk
<1>4. r.heap = h2 /\ r.ret = b.first_ptr + c * b.elt_size
  BY <1>3 DEF TakeChunk
<1>5. c \in Nat
  <2>1. free \subseteq Nat
    BY <1>2 DEF BlockRecs
  <2>2. \E k \in free : \A l \in free : k <= l
    <3> HIDE DEF free
    <3> QED
      BY <1>3, <2>1, LeastNatural
  <2> HIDE DEF free
  <2> QED
    BY <2>1, <2>2
<1> HIDE DEF c
<1> DEFINE u == b.used \cup {c}
           k == b.nb_frees - 1
<1>6. /\ h2.blocks = [h.blocks EXCEPT ![i].used = u, ![i].nb_frees = k]
      /\ Keeps(h, h2, {"blocks"})
  BY <1>1, <1>2 DEF Keeps, IsRecord, BlockRecs
<1> HIDE DEF h2
<1>7. u \in SUBSET Nat /\ k \in Int
  BY <1>2, <1>5 DEF BlockRecs
<1>8. SamePages(h.blocks, h2.blocks)
  <2> HIDE DEF u, k
  <2>1. SamePages(h.blocks, [h.blocks EXCEPT ![i].used = u, ![i].nb_frees = k])
    BY <1>1, <1>7, BlockUpdate
  <2> QED
    BY <1>6, <2>1
<1>9. HeapOK(h2, Q) /\ h2.pagemap = h.pagemap /\ h2.bigs = h.bigs
  BY <1>6, <1>8, ChunksChange
<1>10. r.ret \in Nat /\ r.ret # NULL
  <2>1. b.first_ptr \in Nat /\ b.first_ptr > 0 /\ b.elt_size \in Nat
    BY <1>2 DEF BlockRecs
  <2> HIDE DEF b
  <2>2. c * b.elt_size \in Nat
    BY <1>5, <2>1
  <2> QED
    BY <1>4, <2>1, <2>2 DEF NULL
<1> QED
  BY <1>4, <1>9, <1>10

\* t is s with x in front.
Front(x, s, t) ==
  /\ DOMAIN s = 1..Len(s) /\ DOMAIN t = 1..(Len(s) + 1) /\ Len(s) \in Nat
  /\ t[1] = x
  /\ \A i \in 1..Len(s) : t[i + 1] = s[i]

LEMMA ListAdd ==
  ASSUME NEW S, NEW x \in S, NEW s \in Seq(S)
  PROVE  <<x>> \o s \in Seq(S) /\ Front(x, s, <<x>> \o s)
<1>1. <<x>> \in Seq(S) /\ Len(<<x>>) = 1 /\ <<x>>[1] = x
  OBVIOUS
<1>2. Len(s) \in Nat /\ DOMAIN s = 1..Len(s)
  OBVIOUS
<1> DEFINE t == <<x>> \o s
<1>3. t \in Seq(S) /\ Len(t) = 1 + Len(s)
  BY <1>1, ConcatProperties
<1>4. t[1] = x
  BY <1>1, <1>2, ConcatProperties
<1>5. ASSUME NEW i \in 1..Len(s) PROVE t[i + 1] = s[i]
  BY <1>1, <1>2
<1> HIDE DEF t
<1>6. DOMAIN t = 1..(Len(s) + 1)
  BY <1>2, <1>3
<1> QED
  BY <1>2, <1>3, <1>4, <1>5, <1>6 DEF Front, t

\* What a list with a new entry in front consists of.
LEMMA FrontEntries ==
  ASSUME NEW x, NEW s, NEW t, Front(x, s, t)
  PROVE  /\ 1 \in DOMAIN t
         /\ \A j \in DOMAIN t : j = 1 \/ (j - 1 \in DOMAIN s /\ t[j] = s[j - 1])
         /\ \A i \in DOMAIN s : i + 1 \in DOMAIN t /\ t[i + 1] = s[i]
<1>1. ASSUME NEW j \in DOMAIN t, j # 1 PROVE j - 1 \in DOMAIN s /\ t[j] = s[j - 1]
  <2>1. j - 1 \in 1..Len(s) /\ (j - 1) + 1 = j
    BY <1>1 DEF Front
  <2> QED
    BY <2>1 DEF Front
<1> QED
  BY <1>1 DEF Front

\* A frame of a region can be mapped, and the bootstrap mapping has not mapped
\* it.
LEMMA RamMappable ==
  ASSUME NEW f \in RamFrames
  PROVE  f \in Nat /\ f > 0 /\ f < AddrPages /\ PD_INDEX(f) \in PdEntries /\ f \notin BootPages
<1>1. PICK r \in RegionIds : \E p \in Pages(r) : f = Frame(r, p)
  BY DEF RamFrames
<1>2. f \notin BootPages /\ PD_INDEX(f) < LastPde
  BY <1>1, PagingAssumption
<1>3. f \in Nat /\ f > 0 /\ f < AddrPages
  BY Layout DEF RamFrames
<1>4. PD_INDEX(f) \in Nat
  BY <1>3, PagingAssumption DEF PD_INDEX
<1>5. LastPde \in Int
  BY Layout, PagingAssumption DEF LastPde
<1> QED
  BY <1>2, <1>3, <1>4, <1>5 DEF PdEntries, LastPde

LEMMA HeapSizes ==
  /\ HeaderSize \in Nat /\ PtrSize \in Nat /\ PtrSize > 0 /\ PageSize \in Nat /\ PageSize > 0
  /\ HeaderSize + PtrSize < PageSize
<1>1. PageSize \in Nat /\ PageSize > 0
  BY PagingAssumption
<1>2. PageSize \div 2 \in Nat
  BY <1>1
<1> QED
  BY <1>1, <1>2, HeapAssumption

LEMMA NewBlockType ==
  ASSUME NEW page \in Nat, page > 0, NEW e \in Nat
  PROVE  NewBlock(page, e) \in BlockRecs /\ NewBlock(page, e).page = page
<1> DEFINE room == PageSize - HeaderSize - PtrSize
           k == NbElts(e)
           s == Base(page) + HeaderSize + k + PtrSize - 1
<1>1. room \in Nat
  BY HeapSizes
<1>2. k \in Nat
  <2> HIDE DEF room
  <2>1. room \div (1 + e) \in Nat
    BY <1>1
  <2> QED
    BY <2>1 DEF NbElts, room
<1>3. Base(page) \in Nat /\ Base(page) > 0
  BY HeapSizes DEF Base
<1>4. s \in Nat /\ s >= PtrSize
  <2> HIDE DEF k
  <2> QED
    BY <1>2, <1>3, HeapSizes
<1>5. FirstPtr(page, k) \in Nat \ {0}
  <2>1. FirstPtr(page, k) = (s \div PtrSize) * PtrSize
    BY DEF FirstPtr
  <2> HIDE DEF s
  <2>2. s \div PtrSize \in Nat /\ s \div PtrSize > 0
    BY <1>4, HeapSizes
  <2> DEFINE q == s \div PtrSize
  <2> HIDE DEF q
  <2>3. q * PtrSize \in Nat /\ q * PtrSize > 0
    BY <2>2, HeapSizes DEF q
  <2> QED
    BY <2>1, <2>3 DEF q
<1> HIDE DEF k
<1>6. NewBlock(page, e) = [page |-> page, elt_size |-> e, tot_elts |-> k, nb_frees |-> k,
                           first_ptr |-> FirstPtr(page, k), used |-> {}]
  BY DEF NewBlock, k
<1> QED
  BY <1>2, <1>5, <1>6 DEF BlockRecs

\* new_block() adds a block on a mapped page of its own, or does nothing.
LEMMA NewBlockKeeps ==
  ASSUME NEW h, NEW Q, HeapOK(h, Q), NEW e \in Nat,
         NEW r, r = new_block(h, e), r.ok \/ ~ r.heap.panicked
  PROVE  /\ HeapOK(r.heap, Q) /\ Grows(h.pagemap, r.heap.pagemap) /\ r.heap.bigs = h.bigs
         /\ r.ok => /\ 1 \in DOMAIN r.heap.blocks
                    /\ \E page \in RamFrames :
                         Front(NewBlock(page, e), h.blocks, r.heap.blocks)
         /\ ~ r.ok => r.heap = h
<1> DEFINE a == pfa_alloc(h, 1)
           m1 == a.mem
           page == a.ret
           m2 == map_page(m1, page)
           X == PagesOfBlocks(h) \cup PagesOfBigs(h) \cup Q
<1>0. /\ Fields \subseteq DOMAIN h /\ {"blocks", "bigs"} \subseteq DOMAIN h
      /\ IsPagemap(h.pagemap) /\ Mem(h, X)
  BY DEF HeapOK, Mem
<1>1. NbElts(e) # 0
  BY <1>0, PanickedPanics DEF new_block
<1>2. CASE page = BAD_PAGE
  BY <1>1, <1>2 DEF new_block, Grows
<1>3. CASE page # BAD_PAGE
  <2>1. r = AddBlock(m2, page, e)
    BY <1>1, <1>3 DEF new_block
  <2>2. ~ m2.panicked
    BY <2>1 DEF AddBlock
  <2>3. /\ r.heap = [m2 EXCEPT !.blocks = <<NewBlock(page, e)>> \o @]
        /\ r.ok
    BY <2>1, <2>2 DEF AddBlock
  <2>4. /\ page \in RamFrames /\ Keeps(h, m1, {"pagemap"})
        /\ Takes(h.pagemap, m1.pagemap, page, 1)
    <3>1. 1 \in Nat
      OBVIOUS
    <3> HIDE DEF a
    <3> QED
      BY <1>0, <1>3, <3>1, PfaAllocTakes DEF a
  <2> HIDE DEF m1, page, X
  <2>5. page \in Nat /\ page > 0 /\ PD_INDEX(page) \in PdEntries /\ Run(page, 1) = {page}
    BY <2>4, RamMappable DEF Run
  <2>6. Mem(m1, X \cup {page}) /\ page \notin X
    <3>1. Mem(m1, X \cup Run(page, 1)) /\ Run(page, 1) \cap X = {}
      BY <1>0, <2>4, MemTakes
    <3> QED
      BY <2>5, <3>1
  <2>7. Maps(m1, m2, {page}, X \cup {page})
    BY <2>2, <2>5, <2>6, MapPageMaps
  <2> HIDE DEF m2
  <2>8. /\ m2.blocks = h.blocks /\ m2.bigs = h.bigs /\ DOMAIN m2 = DOMAIN h
        /\ m2.mapped = h.mapped \cup {page}
        /\ Mem(m2, X \cup {page})
    BY <1>0, <2>4, <2>7 DEF Maps, Keeps, Fields
  <2>9. Grows(h.pagemap, m2.pagemap)
    BY <2>4, <2>7, GrowsTransitive DEF Takes, Maps
  <2> DEFINE b == NewBlock(page, e)
             bs == <<b>> \o h.blocks
             h2 == r.heap
  <2>10. b \in BlockRecs /\ b.page = page
    BY <2>5, NewBlockType
  <2> HIDE DEF b
  <2>11. bs \in Seq(BlockRecs) /\ Front(b, h.blocks, bs)
    BY <2>10, ListAdd DEF HeapOK
  <2>12. h2.blocks = bs /\ Keeps(m2, h2, {"blocks"})
    BY <1>0, <2>3, <2>8 DEF Keeps, IsRecord, b
  <2> HIDE DEF bs, h2
  <2>13. /\ h2.bigs = h.bigs /\ {"blocks", "bigs"} \subseteq DOMAIN h2
         /\ Keeps(m2, h2, {"blocks", "bigs"})
    BY <1>0, <2>8, <2>12 DEF Keeps
  <2>14. /\ Mem(h2, X \cup {page}) /\ h2.pagemap = m2.pagemap /\ h2.mapped = h.mapped \cup {page}
    BY <2>8, <2>13, MemSame
  <2>15. PagesOfBlocks(h2) = PagesOfBlocks(h) \cup {page} /\ PagesOfBigs(h2) = PagesOfBigs(h)
    <3>1. PagesOfBigs(h2) = PagesOfBigs(h)
      BY <2>13 DEF PagesOfBigs
    <3>2. /\ 1 \in DOMAIN bs /\ bs[1] = b
          /\ \A j \in DOMAIN bs : j = 1 \/ (j - 1 \in DOMAIN h.blocks /\ bs[j] = h.blocks[j - 1])
          /\ \A i \in DOMAIN h.blocks : i + 1 \in DOMAIN bs /\ bs[i + 1] = h.blocks[i]
      BY <2>11, FrontEntries DEF Front
    <3>3. PagesOfBlocks(h2) = {bs[j].page : j \in DOMAIN bs}
      BY <2>12 DEF PagesOfBlocks
    <3>4. ASSUME NEW p \in PagesOfBlocks(h2) PROVE p \in PagesOfBlocks(h) \cup {page}
      <4>1. PICK j \in DOMAIN bs : p = bs[j].page
        BY <3>3
      <4> QED
        BY <2>10, <3>2, <4>1 DEF PagesOfBlocks
    <3>5. ASSUME NEW p \in PagesOfBlocks(h) PROVE p \in PagesOfBlocks(h2)
      <4>1. PICK i \in DOMAIN h.blocks : p = h.blocks[i].page
        BY DEF PagesOfBlocks
      <4> QED
        BY <3>2, <3>3, <4>1
    <3>6. page \in PagesOfBlocks(h2)
      BY <2>10, <3>2, <3>3
    <3> QED
      BY <3>1, <3>4, <3>5, <3>6
  <2>16. page \notin PagesOfBlocks(h) /\ page \notin PagesOfBigs(h) /\ page \notin Q
    BY <2>6 DEF X
  <2>17. Distinct(h2)
    <3>1. ASSUME NEW i \in DOMAIN bs, NEW j \in DOMAIN bs, bs[i].page = bs[j].page PROVE i = j
      <4>1. \A k \in DOMAIN bs : /\ k \in Int
                                 /\ k = 1 \/ (k - 1 \in DOMAIN h.blocks /\ bs[k] = h.blocks[k - 1])
        BY <2>11, FrontEntries DEF Front
      <4>2. \A k \in DOMAIN h.blocks : h.blocks[k].page # page
        BY <2>16 DEF PagesOfBlocks
      <4>3. bs[1].page = page
        BY <2>10, <2>11 DEF Front
      <4>4. CASE i = 1 \/ j = 1
        BY <3>1, <4>1, <4>2, <4>3, <4>4
      <4>5. CASE i # 1 /\ j # 1
        <5>1. i - 1 = j - 1
          BY <3>1, <4>1, <4>5 DEF HeapOK, Distinct
        <5> QED
          BY <4>1, <5>1
      <4> QED
        BY <4>4, <4>5
    <3>2. PagesOfBlocks(h2) \cap PagesOfBigs(h2) = {}
      BY <2>15, <2>16 DEF HeapOK, Distinct
    <3> QED
      BY <2>12, <2>13, <3>1, <3>2 DEF HeapOK, Distinct
  <2>18. ASSUME NEW i \in DOMAIN h2.bigs PROVE BigOK(h2.pagemap, h2.bigs[i])
    <3>1. BigOK(h.pagemap, h.bigs[i])
      BY <2>13 DEF HeapOK
    <3> QED
      BY <2>9, <2>13, <2>14, <3>1, MarkedGrows DEF BigOK
  <2>19. HeapOK(h2, Q)
    <3>1. X \cup {page} = PagesOfBlocks(h2) \cup PagesOfBigs(h2) \cup Q
      BY <2>15 DEF X
    <3>2. Mem(h2, PagesOfBlocks(h2) \cup PagesOfBigs(h2) \cup Q)
      BY <2>14, <3>1
    <3>3. Q \cap (PagesOfBlocks(h2) \cup PagesOfBigs(h2)) = {}
      BY <2>15, <2>16 DEF HeapOK
    <3>4. h2.mapped = BootPages \cup PagesOfBlocks(h2) \cup PagesOfBigs(h2)
      BY <2>14, <2>15 DEF HeapOK
    <3>5. h2.blocks \in Seq(BlockRecs) /\ h2.bigs \in Seq(BigRecs)
      BY <2>11, <2>12, <2>13 DEF HeapOK
    <3>6. IsRecord(h2)
      BY <2>4, <2>7, <2>12 DEF HeapOK, Maps, Keeps
    <3> QED
      BY <2>13, <2>17, <2>18, <3>2, <3>3, <3>4, <3>5, <3>6 DEF HeapOK
  <2>20. 1 \in DOMAIN h2.blocks /\ \E p \in RamFrames : Front(NewBlock(p, e), h.blocks, h2.blocks)
    <3>1. 1 \in DOMAIN h2.blocks /\ Front(b, h.blocks, h2.blocks)
      BY <2>11, <2>12, FrontEntries
    <3> QED
      BY <2>4, <3>1 DEF b
  <2> QED
    BY <2>3, <2>9, <2>13, <2>14, <2>19, <2>20 DEF h2
<1> QED
  BY <1>2, <1>3

\* kmalloc() of a chunk takes a chunk of a block, perhaps of a new one.
LEMMA SmallAllocKeeps ==
  ASSUME NEW h, NEW Q, HeapOK(h, Q), NEW e \in Nat,
         NEW r, r = SmallAlloc(h, e), ~ r.heap.panicked
  PROVE  /\ HeapOK(r.heap, Q) /\ Grows(h.pagemap, r.heap.pagemap) /\ r.heap.bigs = h.bigs
         /\ r.ret \in Nat
         /\ r.ret = NULL => r.heap = h
<1>1. CASE \E i \in DOMAIN h.blocks : find_non_full_block(h, e, i)
  <2> DEFINE i == CHOOSE k \in DOMAIN h.blocks : find_non_full_block(h, e, k)
  <2>1. r = TakeChunk(h, i)
    BY <1>1 DEF SmallAlloc
  <2>2. i \in DOMAIN h.blocks
    BY <1>1
  <2> HIDE DEF i
  <2>3. /\ HeapOK(r.heap, Q) /\ r.heap.pagemap = h.pagemap /\ r.heap.bigs = h.bigs
        /\ r.ret \in Nat /\ r.ret # NULL
    BY <2>1, <2>2, TakeChunkKeeps
  <2> QED
    BY <2>3 DEF Grows
<1>2. CASE ~ \E i \in DOMAIN h.blocks : find_non_full_block(h, e, i)
  <2> DEFINE new == new_block(h, e)
  <2>1. r = TakeFirst(new)
    BY <1>2 DEF SmallAlloc
  <2> HIDE DEF new
  <2>2. CASE new.ok
    <3>1. r = TakeChunk(new.heap, 1)
      BY <2>1, <2>2 DEF TakeFirst
    <3>2. /\ HeapOK(new.heap, Q) /\ Grows(h.pagemap, new.heap.pagemap)
          /\ new.heap.bigs = h.bigs /\ 1 \in DOMAIN new.heap.blocks
      BY <2>2, NewBlockKeeps DEF new
    <3>3. /\ HeapOK(r.heap, Q) /\ r.heap.pagemap = new.heap.pagemap
          /\ r.heap.bigs = new.heap.bigs /\ r.ret \in Nat /\ r.ret # NULL
      BY <3>1, <3>2, TakeChunkKeeps
    <3> QED
      BY <3>2, <3>3
  <2>3. CASE ~ new.ok
    <3>1. r.heap = new.heap /\ r.ret = NULL
      BY <2>1, <2>3 DEF TakeFirst
    <3>2. /\ HeapOK(new.heap, Q) /\ Grows(h.pagemap, new.heap.pagemap)
          /\ new.heap.bigs = h.bigs /\ new.heap = h
      BY <2>3, <3>1, NewBlockKeeps DEF new
    <3> QED
      BY <3>1, <3>2 DEF NULL
  <2> QED
    BY <2>2, <2>3
<1> QED
  BY <1>1, <1>2

\* The sizes, up to the size of the address space.
LEMMA WordSizes ==
  /\ 2^WordBits \in Nat /\ 2^WordBits > 0
  /\ MinSize \in Nat /\ MetaSize \in Nat
  /\ MinSize <= MetaSize /\ MetaSize <= 2^WordBits
<1>1. AddrPages * PageSize \in Nat /\ AddrPages * PageSize >= PageSize
  BY Layout, HeapSizes
<1>2. MetaSize \in MinSize..(PageSize \div 2) /\ MinSize \in Nat /\ PageSize \div 2 \in Nat
  BY HeapAssumption, HeapSizes
<1>3. PageSize \div 2 <= PageSize
  BY HeapSizes
<1> QED
  BY <1>1, <1>2, <1>3, HeapAssumption, HeapSizes

\* The rounded size of a request is a size.
LEMMA RoundedType ==
  ASSUME NEW size \in Nat, size <= 2^WordBits
  PROVE  Rounded(size) \in Nat
<1> DEFINE s == IF size < MinSize THEN MinSize ELSE size
           W == 2^WordBits
           powers == {2^k : k \in 0..WordBits}
           p == CHOOSE q \in powers : q >= s /\ \A t \in powers : t >= s => q <= t
           T == {q \in powers : q >= s}
<1>1. Rounded(size) = p % W
  BY DEF Rounded, next_highest_power_of_two
<1>2. powers \subseteq Int
  BY HeapAssumption
<1>3. W \in powers
  BY HeapAssumption
<1>4. W \in Nat /\ W > 0 /\ s \in Nat /\ s <= W
  BY WordSizes
<1> HIDE DEF powers, s, W
<1>5. T \subseteq Nat /\ T # {}
  <2>1. ASSUME NEW q \in T PROVE q \in Nat
    <3>1. q \in Int /\ q >= s
      BY <1>2
    <3> HIDE DEF T
    <3> QED
      BY <1>4, <3>1
  <2>2. W >= s
    BY <1>4
  <2>3. W \in T
    BY <1>3, <2>2
  <2> HIDE DEF T
  <2> QED
    BY <2>1, <2>3
<1>6. \E q \in T : \A t \in T : q <= t
  <2> HIDE DEF T
  <2> QED
    BY <1>5, LeastNatural
<1>7. \E q \in powers : q >= s /\ \A t \in powers : t >= s => q <= t
  BY <1>6
<1>8. p \in Int
  BY <1>2, <1>7
<1> HIDE DEF p
<1> QED
  BY <1>1, <1>4, <1>8

\* The pages of a new big allocation.
LEMMA PagesOfNewBig ==
  ASSUME NEW f \in Nat, NEW size \in Nat
  PROVE  Base(f) \in Nat /\ Base(f) \div PageSize = f
         /\ (Base(f) + size) \div PageSize = f + size \div PageSize
<1> DEFINE k == size \div PageSize
           l == size % PageSize
<1>1. PageSize \in Nat /\ PageSize > 0
  BY HeapSizes
<1>2. k \in Nat /\ l \in Nat /\ l < PageSize /\ size = PageSize * k + l
  BY <1>1
<1> HIDE DEF k, l
<1>3. Base(f) = f * PageSize /\ f * PageSize \in Nat
  BY <1>1 DEF Base
<1>4. Base(f) \div PageSize = f
  BY <1>1, <1>3
<1>5. (Base(f) + size) \div PageSize = f + k
  <2>1. Base(f) + size = (f + k) * PageSize + l
    BY <1>1, <1>2, <1>3
  <2> DEFINE g == f + k
  <2>2. g \in Nat
    BY <1>2
  <2> HIDE DEF g
  <2>3. (g * PageSize + l) \div PageSize = g
    BY <1>1, <1>2, <2>2
  <2> QED
    BY <2>1, <2>3 DEF g
<1> QED
  BY <1>3, <1>4, <1>5 DEF k

\* A big allocation is added on frames taken for it: its pages are mapped.
LEMMA AddBigKeeps ==
  ASSUME NEW h, NEW f \in RamFrames, NEW size \in Nat, NEW n, n = size \div PageSize, n > 0,
         NEW ptr \in Nat, HeapOK(h, Run(f, n)), Marked(h.pagemap, f, n),
         NEW r, r = AddBig(h, f, size, ptr), ~ r.heap.panicked
  PROVE  /\ HeapOK(r.heap, {})
         /\ r.ret = Base(f) /\ r.heap.blocks = h.blocks
         /\ Front([ptr |-> Base(f), size |-> size, meta |-> ptr], h.bigs, r.heap.bigs)
<1> DEFINE b == [ptr |-> Base(f), size |-> size, meta |-> ptr]
           bs == <<b>> \o h.bigs
           h1 == [h EXCEPT !.bigs = bs]
           h2 == r.heap
           Q == Run(f, n)
           X == PagesOfBlocks(h) \cup PagesOfBigs(h) \cup Q
<1>1. h2 = map_pages(h1, f, n)
  BY DEF AddBig
<1>2. f \in Nat /\ n \in Nat
  BY RamMappable, HeapSizes
<1>3. /\ Base(f) \in Nat /\ Base(f) \div PageSize = f
      /\ (Base(f) + size) \div PageSize = f + n
  BY <1>2, PagesOfNewBig
<1>4. b \in BigRecs
  BY <1>3 DEF BigRecs
<1>5. BigPages(b) = Q /\ BigOK(h.pagemap, b)
  <2>1. b.ptr = Base(f) /\ b.size = size
    OBVIOUS
  <2> HIDE DEF b
  <2>2. BigPages(b) = Run(f, n)
    <3>1. BigPages(b) = (Base(f) \div PageSize)..((Base(f) + size) \div PageSize - 1)
      BY <2>1 DEF BigPages
    <3> DEFINE e == (Base(f) + size) \div PageSize
    <3>2. BigPages(b) = f..(e - 1)
      BY <1>3, <3>1
    <3>3. e = f + n
      BY <1>3
    <3> HIDE DEF e
    <3>4. f..(e - 1) = f..(f + n - 1)
      BY <1>2, <3>3
    <3> QED
      BY <3>2, <3>4 DEF Run
  <2> QED
    BY <1>2, <1>3, <2>1, <2>2 DEF BigOK
<1> HIDE DEF b
<1>6. bs \in Seq(BigRecs) /\ Front(b, h.bigs, bs)
  BY <1>4, ListAdd DEF HeapOK
<1>7. /\ Fields \subseteq DOMAIN h /\ {"blocks", "bigs"} \subseteq DOMAIN h
      /\ IsPagemap(h.pagemap) /\ Mem(h, X)
  BY DEF HeapOK, Mem
<1>8. h1.bigs = bs /\ Keeps(h, h1, {"bigs"}) /\ h1.blocks = h.blocks
  BY <1>7 DEF Keeps, IsRecord
<1> HIDE DEF h1, bs
<1>9. Mem(h1, X) /\ h1.pagemap = h.pagemap /\ h1.mapped = h.mapped
  <2>1. Keeps(h, h1, {"blocks", "bigs"})
    BY <1>8 DEF Keeps
  <2> HIDE DEF X
  <2> QED
    BY <1>7, <2>1, MemSame
<1>10. Q \subseteq RamFrames /\ \A p \in Q : PD_INDEX(p) \in PdEntries
  BY <1>2, MarkedInUse, RamMappable
<1> HIDE DEF X, h2
<1>11. Maps(h1, h2, Q, X)
  BY <1>1, <1>2, <1>9, <1>10, MapPagesMaps DEF h2
<1>12. /\ Mem(h2, X) /\ h2.blocks = h.blocks /\ h2.bigs = bs
       /\ {"blocks", "bigs"} \subseteq DOMAIN h2
       /\ h2.mapped = h.mapped \cup Q /\ Grows(h.pagemap, h2.pagemap)
  BY <1>7, <1>8, <1>9, <1>11 DEF Maps, Keeps
<1>13. /\ 1 \in DOMAIN bs /\ bs[1] = b
       /\ \A j \in DOMAIN bs :
            /\ j \in Int
            /\ j = 1 \/ (j - 1 \in DOMAIN h.bigs /\ bs[j] = h.bigs[j - 1])
       /\ \A i \in DOMAIN h.bigs : i + 1 \in DOMAIN bs /\ bs[i + 1] = h.bigs[i]
  BY <1>6, FrontEntries DEF Front
<1> HIDE DEF Q
<1>14. PagesOfBlocks(h2) = PagesOfBlocks(h) /\ PagesOfBigs(h2) = PagesOfBigs(h) \cup Q
  <2>1. PagesOfBlocks(h2) = PagesOfBlocks(h)
    BY <1>12 DEF PagesOfBlocks
  <2>2. PagesOfBigs(h2) = UNION {BigPages(bs[i]) : i \in DOMAIN bs}
    BY <1>12 DEF PagesOfBigs
  <2>3. ASSUME NEW p \in PagesOfBigs(h2) PROVE p \in PagesOfBigs(h) \cup Q
    <3>1. PICK j \in DOMAIN bs : p \in BigPages(bs[j])
      BY <2>2
    <3>2. CASE j = 1
      BY <1>5, <1>13, <3>1, <3>2
    <3>3. CASE j # 1
      BY <1>13, <3>1, <3>3 DEF PagesOfBigs
    <3> QED
      BY <3>2, <3>3
  <2>4. ASSUME NEW p \in PagesOfBigs(h) PROVE p \in PagesOfBigs(h2)
    <3>1. PICK i \in DOMAIN h.bigs : p \in BigPages(h.bigs[i])
      BY DEF PagesOfBigs
    <3> QED
      BY <1>13, <2>2, <3>1
  <2>5. Q \subseteq PagesOfBigs(h2)
    BY <1>5, <1>13, <2>2
  <2> QED
    BY <2>1, <2>3, <2>4, <2>5
<1>15. Q \cap PagesOfBlocks(h) = {} /\ Q \cap PagesOfBigs(h) = {}
  BY DEF HeapOK, Q
<1>16. Distinct(h2)
  <2>1. ASSUME NEW i \in DOMAIN bs, NEW j \in DOMAIN bs, i # j
        PROVE  BigPages(bs[i]) \cap BigPages(bs[j]) = {}
    <3>1. \A k \in DOMAIN h.bigs : BigPages(h.bigs[k]) \cap Q = {}
      BY <1>15 DEF PagesOfBigs
    <3>2. CASE i = 1
      BY <1>5, <1>13, <2>1, <3>1, <3>2
    <3>3. CASE j = 1
      BY <1>5, <1>13, <2>1, <3>1, <3>3
    <3>4. CASE i # 1 /\ j # 1
      <4>1. /\ i - 1 \in DOMAIN h.bigs /\ j - 1 \in DOMAIN h.bigs /\ i - 1 # j - 1
            /\ bs[i] = h.bigs[i - 1] /\ bs[j] = h.bigs[j - 1]
        BY <1>13, <2>1, <3>4
      <4> QED
        BY <4>1 DEF HeapOK, Distinct
    <3> QED
      BY <3>2, <3>3, <3>4
  <2>2. PagesOfBlocks(h2) \cap PagesOfBigs(h2) = {}
    BY <1>14, <1>15 DEF HeapOK, Distinct
  <2> QED
    BY <1>12, <2>1, <2>2 DEF HeapOK, Distinct
<1>17. ASSUME NEW j \in DOMAIN h2.bigs PROVE BigOK(h2.pagemap, h2.bigs[j])
  <2>1. BigOK(h.pagemap, bs[j])
    BY <1>5, <1>12, <1>13 DEF HeapOK
  <2> QED
    BY <1>12, <2>1, MarkedGrows DEF BigOK
<1>18. /\ Mem(h2, PagesOfBlocks(h2) \cup PagesOfBigs(h2) \cup {})
       /\ h2.mapped = BootPages \cup PagesOfBlocks(h2) \cup PagesOfBigs(h2)
  <2>1. X = PagesOfBlocks(h2) \cup PagesOfBigs(h2) \cup {}
    BY <1>14 DEF X
  <2> QED
    BY <1>12, <1>14, <2>1 DEF HeapOK
<1>19. h2.blocks \in Seq(BlockRecs) /\ h2.bigs \in Seq(BigRecs)
  BY <1>6, <1>12 DEF HeapOK
<1>20. IsRecord(h2)
  BY <1>8, <1>11 DEF HeapOK, Maps, Keeps
<1>21. HeapOK(h2, {})
  BY <1>12, <1>16, <1>17, <1>18, <1>19, <1>20 DEF HeapOK
<1>22. r.ret = Base(f) /\ Front(b, h.bigs, h2.bigs)
  BY <1>6, <1>12 DEF AddBig
<1> QED
  BY <1>12, <1>21, <1>22 DEF h2, b

\* Giving back what was taken restores the pagemap.
LEMMA TakenGivenBack ==
  ASSUME NEW pm, IsPagemap(pm), NEW pm1, NEW pm2, NEW f, NEW n,
         Takes(pm, pm1, f, n), GivesBack(pm1, pm2, f, n)
  PROVE  pm2 = pm
<1>1. ASSUME NEW r \in RegionIds, NEW p \in Pages(r) PROVE pm2[r][p] = pm[r][p]
  <2>1. CASE Frame(r, p) \in Run(f, n)
    <3>1. Frame(r, p) \notin InUse(pm) /\ Frame(r, p) \notin InUse(pm2)
      BY <2>1 DEF Takes, GivesBack
    <3>2. pm[r][p] = PAGE_FREE /\ pm2[r][p] = PAGE_FREE
      BY <3>1, InUseIs
    <3> QED
      BY <3>2
  <2>2. CASE Frame(r, p) \notin Run(f, n)
    BY <2>2 DEF Takes, GivesBack
  <2> QED
    BY <2>1, <2>2
<1>2. ASSUME NEW r \in RegionIds PROVE pm2[r] = pm[r]
  <2>1. pm2[r] \in [Pages(r) -> PageStates] /\ pm[r] \in [Pages(r) -> PageStates]
    BY DEF GivesBack, IsPagemap
  <2> QED
    BY <1>1, <2>1
<1>3. pm2 = [r \in RegionIds |-> pm2[r]] /\ pm = [r \in RegionIds |-> pm[r]]
  BY DEF GivesBack, IsPagemap
<1> QED
  BY <1>2, <1>3

\* A memory state whose pagemap is restored is the same state.
LEMMA SameRecord ==
  ASSUME NEW m, IsRecord(m), NEW m1, NEW m2, Keeps(m, m1, {"pagemap"}),
         Keeps(m1, m2, {"pagemap"}), m2.pagemap = m.pagemap
  PROVE  m2 = m
<1>1. IsRecord(m2) /\ DOMAIN m2 = DOMAIN m
  BY DEF Keeps
<1>2. ASSUME NEW x \in DOMAIN m PROVE m2[x] = m[x]
  BY DEF Keeps
<1> QED
  BY <1>1, <1>2 DEF IsRecord

\* Frames are taken for a big allocation that is not in the list yet.
LEMMA HeapTakes ==
  ASSUME NEW h, HeapOK(h, {}), NEW m1, Keeps(h, m1, {"pagemap"}),
         NEW f, NEW n, Takes(h.pagemap, m1.pagemap, f, n)
  PROVE  HeapOK(m1, Run(f, n))
<1>0. {"blocks", "bigs"} \subseteq DOMAIN h /\ Fields \subseteq DOMAIN h
  BY DEF HeapOK, Mem
<1> DEFINE X == PagesOfBlocks(h) \cup PagesOfBigs(h)
<1>1. X \cup {} = X
  OBVIOUS
<1>2. Mem(h, X)
  BY <1>1 DEF HeapOK
<1> HIDE DEF X
<1>3. Mem(m1, X \cup Run(f, n)) /\ Run(f, n) \cap X = {}
  BY <1>2, MemTakes
<1>4. /\ m1.blocks = h.blocks /\ m1.bigs = h.bigs /\ m1.mapped = h.mapped
      /\ {"blocks", "bigs"} \subseteq DOMAIN m1
  BY <1>0 DEF Keeps, Fields
<1>5. /\ PagesOfBlocks(m1) = PagesOfBlocks(h) /\ PagesOfBigs(m1) = PagesOfBigs(h)
  BY <1>4 DEF PagesOfBlocks, PagesOfBigs
<1>6. Distinct(m1)
  BY <1>4, <1>5 DEF HeapOK, Distinct
<1>7. ASSUME NEW j \in DOMAIN m1.bigs PROVE BigOK(m1.pagemap, m1.bigs[j])
  <2>1. BigOK(h.pagemap, h.bigs[j])
    BY <1>4 DEF HeapOK
  <2>2. Grows(h.pagemap, m1.pagemap)
    BY DEF Takes
  <2> QED
    BY <1>4, <2>1, <2>2, MarkedGrows DEF BigOK
<1>8. X = PagesOfBlocks(m1) \cup PagesOfBigs(m1)
  BY <1>5 DEF X
<1>9. IsRecord(m1)
  BY DEF HeapOK, Keeps
<1> QED
  BY <1>3, <1>4, <1>5, <1>6, <1>7, <1>8, <1>9 DEF HeapOK

\* A big allocation of the frames from f on, with its metadata in chunk g.
AddsBig(h, size, f, m, g, r) ==
  /\ HeapOK(m, Run(f, size \div PageSize))
  /\ m.blocks = h.blocks /\ m.bigs = h.bigs
  /\ g = SmallAlloc(m, Rounded(MetaSize)) /\ ~ g.heap.panicked
  /\ g.ret \in Nat /\ g.ret # NULL
  /\ r.ret = Base(f) /\ r.heap.blocks = g.heap.blocks
  /\ Front([ptr |-> Base(f), size |-> size, meta |-> g.ret], h.bigs, r.heap.bigs)

\* A big allocation takes a run of frames and a chunk for its metadata, or
\* gives the frames back.
LEMMA BigAllocKeeps ==
  ASSUME NEW h, HeapOK(h, {}), NEW size \in Nat,
         NEW r, r = big_alloc(h, size), ~ r.heap.panicked
  PROVE  /\ HeapOK(r.heap, {}) /\ (r.ret = NULL => r.heap = h)
         /\ r.ret # NULL => \E f \in RamFrames : \E m, g : AddsBig(h, size, f, m, g, r)
<1> DEFINE n == size \div PageSize
           a == pfa_alloc(h, n)
           m1 == a.mem
           f == a.ret
           meta == SmallAlloc(m1, Rounded(MetaSize))
<1>0. /\ Fields \subseteq DOMAIN h /\ {"blocks", "bigs"} \subseteq DOMAIN h
      /\ IsPagemap(h.pagemap)
  BY DEF HeapOK, Mem
<1>1. CASE f = BAD_PAGE
  BY <1>1 DEF big_alloc
<1>2. CASE f # BAD_PAGE
  <2>1. r = WithMeta(meta, f, size)
    BY <1>2 DEF big_alloc
  <2>2. n \in Nat
    BY HeapSizes
  <2>3. /\ n > 0 /\ f \in RamFrames
        /\ Keeps(h, m1, {"pagemap"})
        /\ Takes(h.pagemap, m1.pagemap, f, n)
    <3> HIDE DEF a, n
    <3> QED
      BY <1>0, <1>2, <2>2, PfaAllocTakes DEF a
  <2> HIDE DEF a, n, meta
  <2>4. HeapOK(m1, Run(f, n))
    BY <2>3, HeapTakes
  <2>5. ~ meta.heap.panicked
    BY <2>1 DEF WithMeta
  <2>6. Rounded(MetaSize) \in Nat
    BY WordSizes, RoundedType
  <2>7. /\ HeapOK(meta.heap, Run(f, n)) /\ Grows(m1.pagemap, meta.heap.pagemap)
        /\ meta.ret \in Nat /\ meta.heap.bigs = m1.bigs
        /\ meta.ret = NULL => meta.heap = m1
    BY <2>4, <2>5, <2>6, SmallAllocKeeps DEF meta
  <2>8. Marked(meta.heap.pagemap, f, n)
    BY <2>2, <2>3, <2>7, MarkedGrows DEF Takes
  <2>9. CASE meta.ret # NULL
    <3>1. r = AddBig(meta.heap, f, size, meta.ret)
      BY <2>1, <2>5, <2>9 DEF WithMeta
    <3>2. r.ret # NULL
      <4>1. f \in Nat /\ f > 0
        BY <2>3, RamMappable
      <4>2. Base(f) > 0 /\ Base(f) \in Nat
        BY <4>1, HeapSizes DEF Base
      <4> QED
        BY <3>1, <4>2 DEF AddBig, NULL
    <3>3. /\ HeapOK(r.heap, {}) /\ r.ret = Base(f) /\ r.heap.blocks = meta.heap.blocks
          /\ Front([ptr |-> Base(f), size |-> size, meta |-> meta.ret],
                   meta.heap.bigs, r.heap.bigs)
      BY <2>3, <2>7, <2>8, <3>1, AddBigKeeps DEF n
    <3>4. m1.blocks = h.blocks /\ m1.bigs = h.bigs
      BY <1>0, <2>3 DEF Keeps
    <3>5. AddsBig(h, size, f, m1, meta, r)
      <4> HIDE DEF m1, f
      <4> QED
        BY <2>4, <2>5, <2>7, <2>9, <3>3, <3>4 DEF AddsBig, n, meta
    <3> QED
      BY <2>3, <3>2, <3>3, <3>5
  <2>10. CASE meta.ret = NULL
    <3> DEFINE g == meta.heap
               h2 == r.heap
               X == PagesOfBlocks(g) \cup PagesOfBigs(g)
    <3>1. h2 = pfa_free(g, f)
      BY <2>1, <2>5, <2>10 DEF WithMeta
    <3> HIDE DEF g, h2
    <3>2. HeapOK(g, Run(f, n)) /\ Marked(g.pagemap, f, n) /\ ~ h2.panicked
      BY <2>7, <2>8 DEF g, h2
    <3>3. /\ Fields \subseteq DOMAIN g /\ {"blocks", "bigs"} \subseteq DOMAIN g
          /\ IsPagemap(g.pagemap) /\ Mem(g, X \cup Run(f, n))
      BY <3>2 DEF HeapOK, Mem
    <3>4. Keeps(g, h2, {"pagemap"}) /\ GivesBack(g.pagemap, h2.pagemap, f, n)
      BY <2>2, <2>3, <3>1, <3>2, <3>3, PfaFreeGivesBack
    <3>5. Run(f, n) \cap X = {}
      BY <3>2 DEF HeapOK
    <3> HIDE DEF X
    <3>6. Mem(h2, X)
      <4>1. Mem(h2, (X \cup Run(f, n)) \ Run(f, n))
        BY <3>3, <3>4, MemGivesBack
      <4>2. (X \cup Run(f, n)) \ Run(f, n) = X
        BY <3>5
      <4> QED
        BY <4>1, <4>2
    <3>7. /\ h2.blocks = g.blocks /\ h2.bigs = g.bigs /\ h2.mapped = g.mapped
          /\ {"blocks", "bigs"} \subseteq DOMAIN h2
      BY <3>3, <3>4 DEF Keeps, Fields
    <3>8. /\ PagesOfBlocks(h2) = PagesOfBlocks(g) /\ PagesOfBigs(h2) = PagesOfBigs(g)
      BY <3>7 DEF PagesOfBlocks, PagesOfBigs
    <3>9. Distinct(h2)
      BY <3>2, <3>7, <3>8 DEF HeapOK, Distinct
    <3>10. ASSUME NEW j \in DOMAIN h2.bigs PROVE BigOK(h2.pagemap, h2.bigs[j])
      <4>1. BigOK(g.pagemap, g.bigs[j])
        BY <3>2, <3>7 DEF HeapOK
      <4>2. BigPages(g.bigs[j]) \cap Run(f, n) = {}
        BY <3>5, <3>7 DEF X, PagesOfBigs
      <4>3. f \in Nat
        BY <2>3, RamMappable
      <4> QED
        BY <2>2, <3>4, <3>7, <4>1, <4>2, <4>3, MarkedStays DEF BigOK
    <3>11. X = PagesOfBlocks(h2) \cup PagesOfBigs(h2) \cup {}
      BY <3>8 DEF X
    <3>12. /\ h2.blocks \in Seq(BlockRecs) /\ h2.bigs \in Seq(BigRecs)
           /\ h2.mapped = BootPages \cup PagesOfBlocks(h2) \cup PagesOfBigs(h2)
      BY <3>2, <3>7, <3>8 DEF HeapOK
    <3>13. IsRecord(h2)
      BY <3>2, <3>4 DEF HeapOK, Keeps
    <3>14. HeapOK(h2, {})
      BY <3>6, <3>7, <3>9, <3>10, <3>11, <3>12, <3>13 DEF HeapOK
    <3>15. h2 = h
      <4>1. g = m1
        BY <2>7, <2>10 DEF g
      <4>2. Keeps(m1, h2, {"pagemap"}) /\ GivesBack(m1.pagemap, h2.pagemap, f, n)
        BY <3>4, <4>1
      <4>3. h2.pagemap = h.pagemap
        BY <1>0, <2>3, <4>2, TakenGivenBack
      <4>4. IsRecord(h)
        BY DEF HeapOK
      <4> QED
        BY <2>3, <4>2, <4>3, <4>4, SameRecord
    <3>16. r.ret = NULL
      BY <2>1, <2>5, <2>10 DEF WithMeta
    <3> QED
      BY <3>14, <3>15, <3>16 DEF h2
  <2> QED
    BY <2>9, <2>10
<1> QED
  BY <1>1, <1>2

LEMMA KmallocKeeps ==
  ASSUME NEW h, HeapOK(h, {}), NEW size \in Sizes,
         NEW r, r = Kmalloc(h, size), ~ r.heap.panicked
  PROVE  HeapOK(r.heap, {}) /\ (r.ret = NULL => r.heap = h)
<1>1. Rounded(size) \in Nat
  <2>1. size \in Nat /\ size <= 2^WordBits
    BY HeapAssumption, WordSizes
  <2> QED
    BY <2>1, RoundedType
<1>2. CASE size = 0
  BY <1>2 DEF Kmalloc
<1>3. CASE size # 0 /\ Rounded(size) >= PageSize
  <2>1. r = big_alloc(h, Rounded(size))
    BY <1>3 DEF Kmalloc
  <2> QED
    BY <1>1, <2>1, BigAllocKeeps
<1>4. CASE size # 0 /\ ~ (Rounded(size) >= PageSize)
  <2>1. r = SmallAlloc(h, Rounded(size))
    BY <1>4 DEF Kmalloc
  <2> QED
    BY <1>1, <2>1, SmallAllocKeeps
<1> QED
  BY <1>2, <1>3, <1>4

\* A chunk of a block becomes free.
LEMMA FreeChunkKeeps ==
  ASSUME NEW h, NEW Q, HeapOK(h, Q), NEW ptr, HasHostBlock(h, ptr),
         NEW h2, h2 = FreeChunk(h, ptr), ~ h2.panicked
  PROVE  HeapOK(h2, Q)
<1> DEFINE i == CHOOSE k \in DOMAIN h.blocks : HostBlock(h, ptr, k)
           b == h.blocks[i]
           at == {k \in 0..(b.tot_elts - 1) : b.first_ptr + k * b.elt_size = ptr}
           c == CHOOSE k \in at : \A l \in at : k <= l
           g == [h EXCEPT !.blocks[i].used = @ \ {c}, !.blocks[i].nb_frees = @ + 1]
<1>1. Fields \subseteq DOMAIN h /\ "blocks" \in DOMAIN h /\ h.blocks \in Seq(BlockRecs)
  BY DEF HeapOK, Mem
<1>2. h2 = g
  <2>1. ~ (at = {} \/ c \notin b.used)
    BY <1>1, PanickedPanics DEF FreeChunk
  <2> QED
    BY <2>1 DEF FreeChunk
<1>3. i \in DOMAIN h.blocks
  BY DEF HasHostBlock
<1> HIDE DEF i, c
<1>4. b \in BlockRecs
  BY <1>1, <1>3
<1> DEFINE u == b.used \ {c}
           k == b.nb_frees + 1
<1>5. /\ g.blocks = [h.blocks EXCEPT ![i].used = u, ![i].nb_frees = k]
      /\ Keeps(h, g, {"blocks"})
  BY <1>1, <1>3, <1>4 DEF Keeps, IsRecord, BlockRecs
<1> HIDE DEF g
<1>6. u \in SUBSET Nat /\ k \in Int
  BY <1>4 DEF BlockRecs
<1>7. SamePages(h.blocks, g.blocks)
  <2> HIDE DEF u, k
  <2>1. SamePages(h.blocks, [h.blocks EXCEPT ![i].used = u, ![i].nb_frees = k])
    BY <1>1, <1>3, <1>6, BlockUpdate
  <2> QED
    BY <1>5, <2>1
<1> QED
  BY <1>2, <1>5, <1>7, ChunksChange

\* t is s without its i-th entry.
Without(s, i, t) ==
  /\ DOMAIN s = 1..Len(s) /\ Len(s) \in Nat /\ i \in 1..Len(s)
  /\ DOMAIN t = 1..(Len(s) - 1)
  /\ \A j \in 1..(Len(s) - 1) : t[j] = s[IF j < i THEN j ELSE j + 1]

LEMMA ListDel ==
  ASSUME NEW S, NEW s \in Seq(S), NEW i \in DOMAIN s,
         NEW t, t = SubSeq(s, 1, i - 1) \o SubSeq(s, i + 1, Len(s))
  PROVE  t \in Seq(S) /\ Without(s, i, t)
<1> DEFINE n == Len(s)
           u == SubSeq(s, 1, i - 1)
           v == SubSeq(s, i + 1, n)
<1>1. n \in Nat /\ DOMAIN s = 1..n /\ i \in 1..n /\ \A j \in 1..n : s[j] \in S
  OBVIOUS
<1>2. t = u \o v
  OBVIOUS
<1> HIDE DEF n
<1>3. /\ u \in Seq(S) /\ Len(u) = i - 1
      /\ \A j \in 1..(i - 1) : u[j] = s[j]
  <2>1. 1 \in Int /\ i - 1 \in Int /\ \A j \in 1..(i - 1) : s[j] \in S
    BY <1>1
  <2>2. /\ u \in Seq(S) /\ Len(u) = IF 1 <= i - 1 THEN i - 1 - 1 + 1 ELSE 0
        /\ \A j \in 1..(i - 1 - 1 + 1) : u[j] = s[1 + j - 1]
    BY <2>1, SubSeqProperties
  <2> HIDE DEF u
  <2>3. Len(u) = i - 1
    BY <1>1, <2>2
  <2>4. ASSUME NEW j \in 1..(i - 1) PROVE u[j] = s[j]
    <3>1. j \in 1..(i - 1 - 1 + 1) /\ 1 + j - 1 = j
      BY <1>1
    <3> QED
      BY <2>2, <3>1
  <2> QED
    BY <2>2, <2>3, <2>4
<1>4. /\ v \in Seq(S) /\ Len(v) = n - i
      /\ \A j \in 1..(n - i) : v[j] = s[i + j]
  <2>1. i + 1 \in Int /\ n \in Int /\ \A j \in (i + 1)..n : s[j] \in S
    BY <1>1
  <2>2. /\ v \in Seq(S) /\ Len(v) = IF i + 1 <= n THEN n - (i + 1) + 1 ELSE 0
        /\ \A j \in 1..(n - (i + 1) + 1) : v[j] = s[(i + 1) + j - 1]
    BY <2>1, SubSeqProperties
  <2> HIDE DEF v
  <2>3. Len(v) = n - i
    BY <1>1, <2>2
  <2>4. ASSUME NEW j \in 1..(n - i) PROVE v[j] = s[i + j]
    <3>1. j \in 1..(n - (i + 1) + 1) /\ (i + 1) + j - 1 = i + j
      BY <1>1
    <3> QED
      BY <2>2, <3>1
  <2> QED
    BY <2>2, <2>3, <2>4
<1> HIDE DEF u, v
<1>5. /\ t \in Seq(S) /\ Len(t) = Len(u) + Len(v)
      /\ \A j \in 1..(Len(u) + Len(v)) :
           t[j] = IF j <= Len(u) THEN u[j] ELSE v[j - Len(u)]
  <2>1. u \in Seq(S) /\ v \in Seq(S)
    BY <1>3, <1>4
  <2>2. /\ u \o v \in Seq(S) /\ Len(u \o v) = Len(u) + Len(v)
        /\ \A j \in 1..(Len(u) + Len(v)) :
             (u \o v)[j] = IF j <= Len(u) THEN u[j] ELSE v[j - Len(u)]
    BY ONLY <2>1, ConcatProperties
  <2> QED
    BY <1>2, <2>2, Zenon
<1>6. DOMAIN t = 1..(n - 1)
  <2>1. Len(t) = n - 1
    BY <1>1, <1>3, <1>4, <1>5
  <2> QED
    BY <1>5, <2>1
<1> DEFINE a == i - 1
           b == n - i
<1>7. Len(u) = a /\ Len(v) = b /\ a \in Int /\ b \in Int
  BY <1>1, <1>3, <1>4
<1>8. ASSUME NEW j \in 1..(n - 1)
      PROVE  t[j] = s[IF j < i THEN j ELSE j + 1]
  <2>1. j \in 1..(a + b)
    BY <1>1
  <2>2. t[j] = IF j <= a THEN u[j] ELSE v[j - a]
    <3> HIDE DEF a, b
    <3> QED
      BY <1>5, <1>7, <2>1
  <2>3. CASE j < i
    <3>1. j <= a /\ j \in 1..(i - 1)
      BY <1>1, <2>3
    <3> QED
      BY <1>3, <2>2, <2>3, <3>1
  <2>4. CASE ~ (j < i)
    <3>1. ~ (j <= a) /\ j - a \in 1..(n - i) /\ i + (j - a) = j + 1
      <4>1. i \in Int /\ j \in Int /\ n \in Int /\ j <= n - 1 /\ j >= i
        BY <1>1, <2>4
      <4>2. ~ (j <= a) /\ j - a >= 1 /\ j - a <= n - i
        BY <4>1
      <4>3. j - a \in Int /\ i + (j - a) = j + 1
        BY ONLY <4>1
      <4> QED
        BY <4>1, <4>2, <4>3
    <3>2. t[j] = v[j - a] /\ v[j - a] = s[i + (j - a)]
      <4> HIDE DEF a
      <4> QED
        BY <1>4, <2>2, <3>1
    <3> QED
      BY <2>4, <3>1, <3>2
  <2> QED
    BY <2>3, <2>4
<1> QED
  BY <1>1, <1>5, <1>6, <1>8 DEF Without, n

\* What a list without an entry consists of: the place in s of each entry.
Place(i, j) == IF j < i THEN j ELSE j + 1

LEMMA WithoutEntries ==
  ASSUME NEW s, NEW i, NEW t, Without(s, i, t)
  PROVE  /\ \A j \in DOMAIN t : Place(i, j) \in DOMAIN s \ {i} /\ t[j] = s[Place(i, j)]
         /\ \A j, k \in DOMAIN t : Place(i, j) = Place(i, k) => j = k
         /\ \A k \in DOMAIN s \ {i} : \E j \in DOMAIN t : t[j] = s[k]
<1>1. \A j \in DOMAIN t : Place(i, j) \in DOMAIN s \ {i} /\ t[j] = s[Place(i, j)]
  BY DEF Without, Place
<1>2. \A j, k \in DOMAIN t : Place(i, j) = Place(i, k) => j = k
  BY DEF Without, Place
<1>3. ASSUME NEW k \in DOMAIN s \ {i} PROVE \E j \in DOMAIN t : t[j] = s[k]
  <2>1. CASE k < i
    <3>1. k \in DOMAIN t /\ Place(i, k) = k
      BY <2>1 DEF Without, Place
    <3> QED
      BY <1>1, <3>1
  <2>2. CASE ~ (k < i)
    <3>1. k - 1 \in DOMAIN t /\ Place(i, k - 1) = k
      BY <2>2 DEF Without, Place
    <3> QED
      BY <1>1, <3>1
  <2> QED
    BY <2>1, <2>2
<1> QED
  BY <1>1, <1>2, <1>3

\* The i-th big allocation is removed, which leaves out, then its metadata.
DropsBig(h, i, out, h2) ==
  /\ HeapOK(out, {})
  /\ out.blocks = h.blocks /\ Without(h.bigs, i, out.bigs)
  /\ HasHostBlock(out, h.bigs[i].meta) /\ h2 = FreeChunk(out, h.bigs[i].meta)

\* The pages of a big allocation are unmapped and given back, its entry is
\* removed and its metadata freed.
LEMMA BigFreeKeeps ==
  ASSUME NEW h, HeapOK(h, {}), NEW i \in DOMAIN h.bigs,
         NEW h2, h2 = big_free(h, i), ~ h2.panicked
  PROVE  HeapOK(h2, {}) /\ \E out : DropsBig(h, i, out, h2)
<1> DEFINE b == h.bigs[i]
           f == b.ptr \div PageSize
           n == b.size \div PageSize
           u == unmap_pages(h, f, n)
           v == pfa_free(u, f)
           bs == SubSeq(v.bigs, 1, i - 1) \o SubSeq(v.bigs, i + 1, Len(v.bigs))
           out == [v EXCEPT !.bigs = bs]
           P == Run(f, n)
           X == PagesOfBlocks(h) \cup PagesOfBigs(h)
<1>1. /\ Fields \subseteq DOMAIN h /\ {"blocks", "bigs"} \subseteq DOMAIN h
      /\ IsPagemap(h.pagemap) /\ h.bigs \in Seq(BigRecs) /\ h.blocks \in Seq(BlockRecs)
  BY DEF HeapOK, Mem
<1>2. /\ f \in Nat /\ n \in Nat /\ n > 0 /\ BigPages(b) = P
      /\ Marked(h.pagemap, f, n)
  BY DEF HeapOK, BigOK
<1>3. /\ ~ u.panicked /\ ~ v.panicked
      /\ h2 = IF HasHostBlock(out, v.bigs[i].meta) THEN FreeChunk(out, v.bigs[i].meta)
              ELSE Panicked(out)
  <2>1. h2 = DropBig(Unmapped(u, f), i)
    BY DEF big_free
  <2> HIDE DEF u
  <2>2. ~ Unmapped(u, f).panicked
    BY <2>1 DEF DropBig
  <2>3. ~ u.panicked /\ Unmapped(u, f) = v
    BY <2>2 DEF Unmapped
  <2> HIDE DEF v
  <2>4. h2 = DropBig(v, i) /\ ~ v.panicked
    BY <2>1, <2>2, <2>3
  <2> QED
    BY <2>3, <2>4 DEF DropBig
<1> HIDE DEF b, f, n, out
<1>4. Keeps(h, u, {"mapped"}) /\ u.mapped = h.mapped \ P
  <2> HIDE DEF u
  <2> QED
    BY <1>1, <1>2, <1>3, UnmapPagesUnmaps DEF u
<1> HIDE DEF u
<1>5. /\ Fields \subseteq DOMAIN u /\ u.pagemap = h.pagemap /\ u.tables = h.tables
      /\ u.bigs = h.bigs /\ u.blocks = h.blocks /\ {"blocks", "bigs"} \subseteq DOMAIN u
  BY <1>1, <1>4 DEF Keeps, Fields
<1>6. Keeps(u, v, {"pagemap"}) /\ GivesBack(h.pagemap, v.pagemap, f, n)
  <2>1. IsPagemap(u.pagemap) /\ Marked(u.pagemap, f, n)
    BY <1>1, <1>2, <1>5
  <2>2. Keeps(u, v, {"pagemap"}) /\ GivesBack(u.pagemap, v.pagemap, f, n)
    <3> HIDE DEF v
    <3> QED
      BY <1>2, <1>3, <1>5, <2>1, PfaFreeGivesBack DEF v
  <2> QED
    BY <1>5, <2>2
<1> HIDE DEF v, X, P
<1>7. /\ Fields \subseteq DOMAIN v /\ v.mapped = h.mapped \ P
      /\ v.bigs = h.bigs /\ v.blocks = h.blocks /\ {"blocks", "bigs"} \subseteq DOMAIN v
  BY <1>4, <1>5, <1>6 DEF Keeps, Fields
<1>8. /\ P \subseteq PagesOfBigs(h) /\ P \subseteq X /\ P \subseteq RamFrames
  <2>1. P \subseteq PagesOfBigs(h)
    BY <1>2 DEF PagesOfBigs, b
  <2>2. P \subseteq RamFrames
    BY <1>2, MarkedInUse DEF P
  <2> QED
    BY <2>1, <2>2 DEF X
<1>9. Mem(v, X \ P)
  <2>1. Mem(h, X)
    <3>1. X = PagesOfBlocks(h) \cup PagesOfBigs(h) \cup {}
      BY DEF X
    <3> QED
      BY <3>1 DEF HeapOK
  <2>2. Mem(u, X)
    <3>1. TablesOf(u) = TablesOf(h)
      BY <1>5 DEF TablesOf
    <3> QED
      BY <1>4, <1>5, <2>1, <3>1 DEF Mem
  <2>3. GivesBack(u.pagemap, v.pagemap, f, n)
    BY <1>5, <1>6
  <2> QED
    BY <1>6, <1>8, <2>2, <2>3, MemGivesBack DEF P
<1>10. bs \in Seq(BigRecs) /\ Without(h.bigs, i, bs)
  <2>1. bs = SubSeq(h.bigs, 1, i - 1) \o SubSeq(h.bigs, i + 1, Len(h.bigs))
    BY <1>7
  <2> HIDE DEF bs
  <2> QED
    BY <1>1, <2>1, ListDel
<1>11. out.bigs = bs /\ Keeps(v, out, {"bigs"})
  <2> HIDE DEF bs
  <2> QED
    BY <1>7 DEF out, Keeps, IsRecord
<1> HIDE DEF bs
<1>12. /\ Mem(out, X \ P) /\ out.pagemap = v.pagemap /\ out.mapped = h.mapped \ P
       /\ out.blocks = h.blocks /\ {"blocks", "bigs"} \subseteq DOMAIN out
       /\ Fields \subseteq DOMAIN out
  <2>1. Keeps(v, out, {"blocks", "bigs"}) /\ out.blocks = v.blocks
    BY <1>7, <1>11 DEF Keeps
  <2>2. {"blocks", "bigs"} \subseteq DOMAIN out
    BY <1>7, <1>11 DEF Keeps
  <2>3. Mem(out, X \ P) /\ out.pagemap = v.pagemap /\ out.mapped = v.mapped
    BY <1>9, <2>1, MemSame
  <2> QED
    BY <1>7, <2>1, <2>2, <2>3 DEF Mem
<1>13. /\ \A j \in DOMAIN bs : Place(i, j) \in DOMAIN h.bigs \ {i} /\ bs[j] = h.bigs[Place(i, j)]
       /\ \A j, k \in DOMAIN bs : Place(i, j) = Place(i, k) => j = k
       /\ \A k \in DOMAIN h.bigs \ {i} : \E j \in DOMAIN bs : bs[j] = h.bigs[k]
  BY <1>10, WithoutEntries
<1>14. \A k \in DOMAIN h.bigs \ {i} : BigPages(h.bigs[k]) \cap P = {}
  BY <1>2 DEF HeapOK, Distinct, b
<1>15. PagesOfBlocks(out) = PagesOfBlocks(h) /\ PagesOfBigs(out) = PagesOfBigs(h) \ P
  <2>1. PagesOfBlocks(out) = PagesOfBlocks(h)
    BY <1>12 DEF PagesOfBlocks
  <2>2. PagesOfBigs(out) = UNION {BigPages(bs[j]) : j \in DOMAIN bs}
    BY <1>11 DEF PagesOfBigs
  <2>3. ASSUME NEW p \in PagesOfBigs(out) PROVE p \in PagesOfBigs(h) \ P
    <3>1. PICK j \in DOMAIN bs : p \in BigPages(bs[j])
      BY <2>2
    <3> QED
      BY <1>13, <1>14, <3>1 DEF PagesOfBigs
  <2>4. ASSUME NEW p \in PagesOfBigs(h) \ P PROVE p \in PagesOfBigs(out)
    <3>1. PICK k \in DOMAIN h.bigs : p \in BigPages(h.bigs[k])
      BY DEF PagesOfBigs
    <3>2. k # i
      BY <1>2, <3>1 DEF b
    <3>3. PICK j \in DOMAIN bs : bs[j] = h.bigs[k]
      BY <1>13, <3>2
    <3> QED
      BY <2>2, <3>1, <3>3
  <2> QED
    BY <2>1, <2>3, <2>4
<1>16. PagesOfBlocks(h) \cap PagesOfBigs(h) = {}
  BY DEF HeapOK, Distinct
<1>17. Distinct(out)
  <2>1. ASSUME NEW j \in DOMAIN bs, NEW k \in DOMAIN bs, j # k
        PROVE  BigPages(bs[j]) \cap BigPages(bs[k]) = {}
    <3>1. /\ Place(i, j) \in DOMAIN h.bigs /\ Place(i, k) \in DOMAIN h.bigs
          /\ Place(i, j) # Place(i, k)
          /\ bs[j] = h.bigs[Place(i, j)] /\ bs[k] = h.bigs[Place(i, k)]
      BY <1>13, <2>1
    <3> QED
      BY <3>1 DEF HeapOK, Distinct
  <2> QED
    BY <1>11, <1>12, <1>15, <1>16, <2>1 DEF HeapOK, Distinct
<1>18. ASSUME NEW j \in DOMAIN out.bigs PROVE BigOK(out.pagemap, out.bigs[j])
  <2>1. PICK k \in DOMAIN h.bigs \ {i} : out.bigs[j] = h.bigs[k]
    BY <1>11, <1>13
  <2>2. BigOK(h.pagemap, h.bigs[k]) /\ BigPages(h.bigs[k]) \cap P = {}
    BY <1>14 DEF HeapOK
  <2>3. GivesBack(h.pagemap, out.pagemap, f, n)
    BY <1>6, <1>12
  <2> QED
    BY <1>2, <2>1, <2>2, <2>3, MarkedStays DEF BigOK, P
<1>19. HeapOK(out, {})
  <2>1. X \ P = PagesOfBlocks(out) \cup PagesOfBigs(out) \cup {}
    BY <1>8, <1>15, <1>16 DEF X
  <2>2. P \cap BootPages = {}
    BY <1>8, RamMappable
  <2>3. out.mapped = BootPages \cup PagesOfBlocks(out) \cup PagesOfBigs(out)
    BY <1>8, <1>12, <1>15, <1>16, <2>2 DEF HeapOK
  <2>4. Mem(out, PagesOfBlocks(out) \cup PagesOfBigs(out) \cup {})
    BY <1>12, <2>1
  <2>5. out.blocks \in Seq(BlockRecs) /\ out.bigs \in Seq(BigRecs)
    BY <1>1, <1>10, <1>11, <1>12
  <2>6. IsRecord(out)
    BY <1>4, <1>6, <1>11 DEF HeapOK, Keeps
  <2> QED
    BY <1>12, <1>17, <1>18, <2>3, <2>4, <2>5, <2>6 DEF HeapOK
<1>20. HasHostBlock(out, v.bigs[i].meta) /\ h2 = FreeChunk(out, v.bigs[i].meta)
  BY <1>3, <1>12, PanickedPanics
<1>21. DropsBig(h, i, out, h2)
  BY <1>7, <1>10, <1>11, <1>12, <1>19, <1>20 DEF DropsBig
<1> QED
  BY <1>19, <1>20, <1>21, FreeChunkKeeps

\* The big allocation kfree() takes is one that starts at the pointer.
FirstAt(s, ptr) ==
  CHOOSE k \in DOMAIN s : s[k].ptr = ptr /\ \A l \in 1..(k - 1) : s[l].ptr # ptr

LEMMA FirstBig ==
  ASSUME NEW s \in Seq(BigRecs), NEW ptr, \E i \in DOMAIN s : s[i].ptr = ptr
  PROVE  FirstAt(s, ptr) \in DOMAIN s /\ s[FirstAt(s, ptr)].ptr = ptr
<1> DEFINE T == {k \in DOMAIN s : s[k].ptr = ptr}
<1>1. DOMAIN s = 1..Len(s) /\ Len(s) \in Nat
  OBVIOUS
<1>2. T # {} /\ T \subseteq Nat
  BY <1>1
<1>3. PICK k \in T : \A l \in T : k <= l
  <2> HIDE DEF T
  <2> QED
    BY <1>2, LeastNatural
<1>4. k \in DOMAIN s /\ s[k].ptr = ptr /\ k \in 1..Len(s)
  BY <1>1, <1>3
<1>5. ASSUME NEW l \in 1..(k - 1) PROVE s[l].ptr # ptr
  <2>1. l \in DOMAIN s /\ ~ (k <= l)
    BY <1>1, <1>4
  <2> QED
    BY <1>3, <2>1
<1> QED
  BY <1>4, <1>5 DEF FirstAt

\* kfree() releases a chunk or a big allocation.
LEMMA KfreeFrees ==
  ASSUME NEW h, HeapOK(h, {}), NEW ptr, NEW h2, h2 = Kfree(h, ptr), ~ h2.panicked
  PROVE  \/ HasHostBlock(h, ptr) /\ h2 = FreeChunk(h, ptr)
         \/ \E i \in DOMAIN h.bigs : h.bigs[i].ptr = ptr /\ h2 = big_free(h, i)
<1>1. Fields \subseteq DOMAIN h /\ h.bigs \in Seq(BigRecs)
  BY DEF HeapOK, Mem
<1>2. ptr # NULL
  BY <1>1, PanickedPanics DEF Kfree
<1>3. CASE HasHostBlock(h, ptr)
  BY <1>2, <1>3 DEF Kfree
<1>4. CASE ~ HasHostBlock(h, ptr)
  <2>1. \E i \in DOMAIN h.bigs : h.bigs[i].ptr = ptr
    BY <1>1, <1>2, <1>4, PanickedPanics DEF Kfree
  <2> DEFINE i == FirstAt(h.bigs, ptr)
  <2>2. h2 = big_free(h, i)
    BY <1>2, <1>4, <2>1 DEF Kfree, FirstAt
  <2>3. i \in DOMAIN h.bigs /\ h.bigs[i].ptr = ptr
    BY <1>1, <2>1, FirstBig
  <2> HIDE DEF i
  <2> QED
    BY <2>2, <2>3
<1> QED
  BY <1>3, <1>4

LEMMA KfreeKeeps ==
  ASSUME NEW h, HeapOK(h, {}), NEW ptr, NEW h2, h2 = Kfree(h, ptr), ~ h2.panicked
  PROVE  HeapOK(h2, {})
<1>1. CASE HasHostBlock(h, ptr) /\ h2 = FreeChunk(h, ptr)
  BY <1>1, FreeChunkKeeps
<1>2. CASE \E i \in DOMAIN h.bigs : h.bigs[i].ptr = ptr /\ h2 = big_free(h, i)
  BY <1>2, BigFreeKeeps
<1> QED
  BY <1>1, <1>2, KfreeFrees

-----------------------------------------------------------------------------
(* Start-up *)

\* After a panic the loop maps nothing.
LEMMA MapPagesPanicked ==
  ASSUME NEW m, m.panicked, NEW first, NEW n \in Nat
  PROVE  map_pages(m, first, n) = m
<1>1. PICK after : /\ map_pages(m, first, n) = after[n]
                   /\ after[0] = m
                   /\ \A i \in 1..n : after[i] = IF after[i - 1].panicked THEN after[i - 1]
                                                 ELSE map_page(after[i - 1], first + i - 1)
  BY MapPagesRuns
<1> DEFINE Bad == {i \in 0..n : after[i] # m}
<1>2. Bad = {}
  <2> SUFFICES ASSUME Bad # {} PROVE FALSE
    OBVIOUS
  <2>1. Bad \subseteq Nat
    OBVIOUS
  <2>2. PICK i \in Bad : \A l \in Bad : i <= l
    <3> HIDE DEF Bad
    <3> QED
      BY <2>1, LeastNatural
  <2>3. i \in 1..n /\ i - 1 \in 0..n /\ ~ (i <= i - 1)
    BY <1>1, <2>2
  <2>4. after[i - 1] = m
    BY <2>2, <2>3
  <2>5. after[i] = m
    BY <1>1, <2>3, <2>4
  <2> QED
    BY <2>2, <2>5
<1>3. n \in 0..n
  OBVIOUS
<1> QED
  BY <1>1, <1>2, <1>3

\* The ranges of pages bootstrap_mapping() maps.
IsRange(range) == range.first \in Nat /\ range.n \in Nat

LEMMA BootRangeType ==
  ASSUME NEW range \in {KernelRange, VramRange}
  PROVE  IsRange(BootRange(range))
<1> DEFINE P == PageSize
           x == range.end + P
           q == x \div P
           l == x % P
<1>1. /\ range.start \in Nat /\ range.end \in Nat /\ range.start <= range.end
      /\ P \in Nat /\ P > 0
  BY RangesAssumption, HeapSizes
<1>2. x \in Nat
  BY <1>1
<1>3. page_align(range.end + 1) = q * P
  <2>1. range.end + 1 + P - 1 = x
    BY <1>1
  <2> QED
    BY <2>1 DEF page_align
<1>4. q \in Nat /\ l \in Nat /\ l < P /\ x = P * q + l
  <2> HIDE DEF x
  <2> QED
    BY <1>1, <1>2
<1>5. q * P \in Nat /\ q * P = P * q
  <2> HIDE DEF q, P
  <2> QED
    BY <1>1, <1>4
<1>6. q * P - range.start \in Nat
  <2> DEFINE y == q * P
  <2>1. y \in Nat /\ x = y + l
    BY <1>4, <1>5
  <2> HIDE DEF y, q, l, P
  <2> QED
    BY <1>1, <1>4, <2>1
<1>7. (q * P - range.start) \div P \in Nat
  <2> DEFINE z == q * P - range.start
  <2> HIDE DEF z
  <2>1. z \in Nat
    BY <1>6 DEF z
  <2>2. z \div P \in Nat
    BY <1>1, <2>1
  <2> QED
    BY <2>2 DEF z
<1>8. range.start \div P \in Nat
  BY <1>1
<1> HIDE DEF q
<1> QED
  BY <1>3, <1>7, <1>8 DEF IsRange, BootRange

LEMMA RangeTypes ==
  /\ IsRange(BootRange(KernelRange)) /\ IsRange(BootRange(VramRange))
  /\ IsRange(MetaRange) /\ IsRange(ModulePages)
<1>1. IsRange(BootRange(KernelRange)) /\ IsRange(BootRange(VramRange))
  BY BootRangeType
<1>2. IsRange(MetaRange)
  BY RangesAssumption DEF IsRange
<1>3. IsRange(ModulePages)
  <2> DEFINE s == ModuleRange.start
             k == ModuleRange.len
             P == PageSize
  <2>1. s \in Nat /\ k \in Nat /\ P \in Nat /\ P > 0
    BY RangesAssumption, HeapSizes
  <2>2. s \div P \in Nat
    BY <2>1
  <2>3. k # 0 => (s + k - 1) \div P - s \div P + 1 \in Nat
    <3> SUFFICES ASSUME k # 0 PROVE (s + k - 1) \div P - s \div P + 1 \in Nat
      OBVIOUS
    <3> DEFINE t == s + k - 1
    <3>1. t \in Nat /\ s <= t
      BY <2>1
    <3> HIDE DEF s, t, P
    <3>2. t \div P \in Nat /\ s \div P \in Nat /\ s \div P <= t \div P
      BY <2>1, <3>1
    <3> QED
      BY <3>2 DEF t
  <2>4. ModulePages.first = s \div P /\ ModulePages.n = IF k = 0 THEN 0
                                     ELSE (s + k - 1) \div P - s \div P + 1
    BY DEF ModulePages
  <2> HIDE DEF s, k, P
  <2> QED
    BY <2>1, <2>2, <2>3, <2>4 DEF IsRange
<1> QED
  BY <1>1, <1>2, <1>3

\* One of the loops of bootstrap_mapping().
LEMMA BootMaps ==
  ASSUME NEW m, ~ m.panicked => Mem(m, {}),
         NEW range, IsRange(range), PagesOf(range) \subseteq BootPages,
         NEW m2, m2 = map_pages(m, range.first, range.n), ~ m2.panicked
  PROVE  ~ m.panicked /\ Mem(m2, {}) /\ m2.mapped = m.mapped \cup PagesOf(range)
         /\ DOMAIN m2 = DOMAIN m
<1>1. range.first \in Nat /\ range.n \in Nat /\ PagesOf(range) = Run(range.first, range.n)
  BY DEF IsRange, PagesOf, Run
<1>2. ~ m.panicked
  BY <1>1, MapPagesPanicked
<1>3. ASSUME NEW p \in Run(range.first, range.n) PROVE PD_INDEX(p) \in PdEntries
  <2>1. p \in Nat
    BY <1>1 DEF Run
  <2>2. PD_INDEX(p) \in Nat
    BY <2>1, PagingAssumption DEF PD_INDEX
  <2>3. PD_INDEX(p) < LastPde
    BY <1>1, PagingAssumption
  <2>4. LastPde \in Int
    BY Layout, PagingAssumption DEF LastPde
  <2> QED
    BY <2>2, <2>3, <2>4 DEF PdEntries, LastPde
<1>4. Maps(m, m2, Run(range.first, range.n), {})
  BY <1>1, <1>2, <1>3, MapPagesMaps
<1> QED
  BY <1>1, <1>2, <1>4 DEF Maps, Keeps

\* The memory paging_setup() leaves behind.
LEMMA SetupMaps ==
  ASSUME NEW m, m = paging_setup(FreshPagemap), ~ m.panicked
  PROVE  Mem(m, {}) /\ m.mapped = BootPages
<1> DEFINE bare == [pagemap |-> FreshPagemap, tables |-> [pd \in PdEntries |-> BAD_PAGE],
                    mapped |-> {}, panicked |-> FALSE]
           a == pfa_alloc(bare, 1)
           f == a.ret
           a1 == a.mem
           m0 == [a1 EXCEPT !.tables[LastPde] = f]
<1>1. /\ DOMAIN bare = Fields /\ bare.pagemap = FreshPagemap /\ bare.mapped = {}
      /\ bare.tables = [pd \in PdEntries |-> BAD_PAGE] /\ bare.panicked = FALSE
  BY DEF Fields
<1>2. IsPagemap(FreshPagemap) /\ InUse(FreshPagemap) = {}
  BY DEF IsPagemap, FreshPagemap, InUse, PageStates
<1>3. m = IF f = BAD_PAGE THEN Panicked(bare) ELSE bootstrap_mapping(m0)
  BY DEF paging_setup
<1> HIDE DEF bare
<1>4. f # BAD_PAGE /\ m = bootstrap_mapping(m0)
  BY <1>1, <1>3, PanickedPanics
<1>5. /\ f \in RamFrames /\ Keeps(bare, a1, {"pagemap"})
      /\ Takes(FreshPagemap, a1.pagemap, f, 1)
  <2>1. 1 \in Nat /\ Fields \subseteq DOMAIN bare /\ IsPagemap(bare.pagemap)
    BY <1>1, <1>2
  <2> HIDE DEF a
  <2> QED
    BY <1>1, <1>4, <2>1, PfaAllocTakes DEF a
<1> HIDE DEF a
<1>6. f \in Nat /\ f # BAD_PAGE /\ Run(f, 1) = {f}
  BY <1>4, <1>5, RamMappable DEF Run
<1>7. LastPde \in PdEntries
  <2>1. PD_INDEX(f) \in PdEntries
    BY <1>5, RamMappable
  <2>2. LastPde \in Int
    BY Layout, PagingAssumption DEF LastPde
  <2> QED
    BY <2>1, <2>2 DEF PdEntries, LastPde
<1>8. /\ DOMAIN a1 = Fields /\ a1.tables = [pd \in PdEntries |-> BAD_PAGE]
      /\ a1.mapped = {} /\ a1.panicked = FALSE
      /\ IsPagemap(a1.pagemap) /\ InUse(a1.pagemap) = {f}
  BY <1>1, <1>2, <1>5, <1>6 DEF Keeps, Fields, Takes
<1>9. /\ DOMAIN m0 = Fields /\ m0.mapped = {} /\ m0.panicked = FALSE
      /\ m0.pagemap = a1.pagemap
      /\ m0.tables = [pd \in PdEntries |-> IF pd = LastPde THEN f ELSE BAD_PAGE]
  <2>1. m0.tables = [a1.tables EXCEPT ![LastPde] = f]
    BY <1>8 DEF Fields
  <2>2. /\ DOMAIN m0 = Fields /\ m0.mapped = {} /\ m0.panicked = FALSE
        /\ m0.pagemap = a1.pagemap
    BY <1>8 DEF Fields
  <2> HIDE DEF m0
  <2> QED
    BY <1>7, <1>8, <2>1, <2>2
<1> HIDE DEF f, a1, m0
<1>10. Mem(m0, {})
  <2>1. m0.tables \in [PdEntries -> Nat]
    BY <1>6, <1>9 DEF BAD_PAGE
  <2>2. TablesOf(m0) = {f}
    BY <1>6, <1>7, <1>9 DEF TablesOf
  <2>3. \A pd, pe \in PdEntries :
          m0.tables[pd] # BAD_PAGE /\ m0.tables[pd] = m0.tables[pe] => pd = pe
    BY <1>6, <1>9
  <2> QED
    BY <1>8, <1>9, <2>1, <2>2, <2>3 DEF Mem
<1> DEFINE R1 == BootRange(KernelRange)
           R2 == BootRange(VramRange)
           R3 == MetaRange
           R4 == ModulePages
           m1 == map_pages(m0, R1.first, R1.n)
           m2 == map_pages(m1, R2.first, R2.n)
           m3 == map_pages(m2, R3.first, R3.n)
           m4 == map_pages(m3, R4.first, R4.n)
<1>11. m = m4
  BY <1>4 DEF bootstrap_mapping
<1>12. /\ IsRange(R1) /\ IsRange(R2) /\ IsRange(R3) /\ IsRange(R4)
       /\ BootPages = PagesOf(R1) \cup PagesOf(R2) \cup PagesOf(R3) \cup PagesOf(R4)
  BY RangeTypes DEF BootPages
<1> HIDE DEF R1, R2, R3, R4
<1>13. ~ m1.panicked => Mem(m1, {}) /\ m1.mapped = m0.mapped \cup PagesOf(R1)
  <2>1. IsRange(R1) /\ PagesOf(R1) \subseteq BootPages
    BY <1>12
  <2> SUFFICES ASSUME ~ m1.panicked
               PROVE  Mem(m1, {}) /\ m1.mapped = m0.mapped \cup PagesOf(R1)
    OBVIOUS
  <2> HIDE DEF m1
  <2> QED
    BY <1>10, <2>1, BootMaps DEF m1
<1> HIDE DEF m1
<1>14. ~ m2.panicked => /\ Mem(m2, {}) /\ m2.mapped = m1.mapped \cup PagesOf(R2)
                        /\ ~ m1.panicked
  <2>1. ~ m1.panicked => Mem(m1, {})
    BY <1>13
  <2>2. IsRange(R2) /\ PagesOf(R2) \subseteq BootPages
    BY <1>12
  <2> SUFFICES ASSUME ~ m2.panicked
               PROVE  /\ Mem(m2, {}) /\ m2.mapped = m1.mapped \cup PagesOf(R2)
                      /\ ~ m1.panicked
    OBVIOUS
  <2> HIDE DEF m2
  <2> QED
    BY <2>1, <2>2, BootMaps DEF m2
<1> HIDE DEF m2
<1>15. ~ m3.panicked => /\ Mem(m3, {}) /\ m3.mapped = m2.mapped \cup PagesOf(R3)
                        /\ ~ m2.panicked
  <2>1. ~ m2.panicked => Mem(m2, {})
    BY <1>14
  <2>2. IsRange(R3) /\ PagesOf(R3) \subseteq BootPages
    BY <1>12
  <2> SUFFICES ASSUME ~ m3.panicked
               PROVE  /\ Mem(m3, {}) /\ m3.mapped = m2.mapped \cup PagesOf(R3)
                      /\ ~ m2.panicked
    OBVIOUS
  <2> HIDE DEF m3
  <2> QED
    BY <2>1, <2>2, BootMaps DEF m3
<1> HIDE DEF m3
<1>16. ~ m4.panicked => /\ Mem(m4, {}) /\ m4.mapped = m3.mapped \cup PagesOf(R4)
                        /\ ~ m3.panicked
  <2>1. ~ m3.panicked => Mem(m3, {})
    BY <1>15
  <2>2. IsRange(R4) /\ PagesOf(R4) \subseteq BootPages
    BY <1>12
  <2> SUFFICES ASSUME ~ m4.panicked
               PROVE  /\ Mem(m4, {}) /\ m4.mapped = m3.mapped \cup PagesOf(R4)
                      /\ ~ m3.panicked
    OBVIOUS
  <2> HIDE DEF m4
  <2> QED
    BY <2>1, <2>2, BootMaps DEF m4
<1> HIDE DEF m4
<1> QED
  BY <1>9, <1>11, <1>12, <1>13, <1>14, <1>15, <1>16

LEMMA InitHeap ==
  ASSUME Init, ~ heap.panicked
  PROVE  HeapOK(heap, {})
<1> DEFINE m == paging_setup(FreshPagemap)
<1>1. heap = [pagemap |-> m.pagemap, tables |-> m.tables, mapped |-> m.mapped,
              panicked |-> m.panicked, blocks |-> <<>>, bigs |-> <<>>]
  BY DEF Init
<1> HIDE DEF m
<1>2. /\ heap.pagemap = m.pagemap /\ heap.tables = m.tables /\ heap.mapped = m.mapped
      /\ heap.panicked = m.panicked /\ heap.blocks = <<>> /\ heap.bigs = <<>>
      /\ Fields \subseteq DOMAIN heap /\ {"blocks", "bigs"} \subseteq DOMAIN heap
  BY <1>1 DEF Fields
<1>3. Mem(m, {}) /\ m.mapped = BootPages
  BY <1>2, SetupMaps DEF m
<1>4. TablesOf(heap) = TablesOf(m)
  BY <1>2 DEF TablesOf
<1>5. Mem(heap, {})
  BY <1>2, <1>3, <1>4 DEF Mem
<1>6. /\ DOMAIN heap.blocks = {} /\ DOMAIN heap.bigs = {}
      /\ heap.blocks \in Seq(BlockRecs) /\ heap.bigs \in Seq(BigRecs)
  BY <1>2
<1>7. PagesOfBlocks(heap) = {} /\ PagesOfBigs(heap) = {}
  BY <1>6 DEF PagesOfBlocks, PagesOfBigs
<1>8. Distinct(heap)
  BY <1>6, <1>7 DEF Distinct
<1>9. Mem(heap, PagesOfBlocks(heap) \cup PagesOfBigs(heap) \cup {})
  <2>1. PagesOfBlocks(heap) \cup PagesOfBigs(heap) \cup {} = {}
    BY <1>7
  <2> QED
    BY <1>5, <2>1
<1>10. heap.mapped = BootPages \cup PagesOfBlocks(heap) \cup PagesOfBigs(heap)
  BY <1>2, <1>3, <1>7
<1>11. IsRecord(heap)
  BY <1>1 DEF IsRecord
<1> QED
  BY <1>2, <1>6, <1>8, <1>9, <1>10, <1>11 DEF HeapOK

-----------------------------------------------------------------------------
(* Every frame has one owner *)

\* A finite set has as many elements as its image under a one-to-one function.
LEMMA OneToOne ==
  ASSUME NEW S, IsFiniteSet(S), NEW T, NEW f, f = [x \in S |-> f[x]],
         \A x \in S : f[x] \in T,
         \A x, y \in S : f[x] = f[y] => x = y,
         \A t \in T : \E x \in S : f[x] = t
  PROVE  IsFiniteSet(T) /\ Cardinality(T) = Cardinality(S)
<1>1. f \in Surjection(S, T)
  BY DEF Surjection
<1>2. f \in Injection(S, T)
  BY DEF Injection, IsInjective
<1> QED
  BY <1>1, <1>2, FS_Surjection

\* The sizes of disjoint finite sets add up.
LEMMA DisjointUnion ==
  ASSUME NEW S, IsFiniteSet(S), NEW T, IsFiniteSet(T), S \cap T = {}
  PROVE  /\ IsFiniteSet(S \cup T)
         /\ Cardinality(S \cup T) = Cardinality(S) + Cardinality(T)
<1>1. /\ IsFiniteSet(S \cup T)
      /\ Cardinality(S \cup T) = Cardinality(S) + Cardinality(T) - Cardinality(S \cap T)
  BY FS_Union
<1>2. Cardinality(S \cap T) = 0
  BY FS_EmptySet
<1>3. Cardinality(S) \in Nat /\ Cardinality(T) \in Nat
  BY FS_CardinalityType
<1> QED
  BY <1>1, <1>2, <1>3

\* The invariant implies the property that the run checks.
LEMMA OwnersCounted ==
  ASSUME HeapOK(heap, {})
  PROVE  EveryFrameHasOneOwner
<1> DEFINE Tab == {pd \in PdEntries : heap.tables[pd] # BAD_PAGE}
           Blk == DOMAIN heap.blocks
           Big == {q \in (DOMAIN heap.bigs) \X (0..AddrPages) : q[2] \in BigPages(heap.bigs[q[1]])}
           A == TablesOf(heap)
           B == PagesOfBlocks(heap)
           C == PagesOfBigs(heap)
<1>1. /\ Mem(heap, B \cup C) /\ heap.mapped = BootPages \cup B \cup C
      /\ heap.blocks \in Seq(BlockRecs) /\ heap.bigs \in Seq(BigRecs)
  <2>1. (B \cup C) \cup {} = B \cup C
    OBVIOUS
  <2> HIDE DEF B, C
  <2> QED
    BY <2>1 DEF HeapOK, B, C
<1>2. TableFrames = A /\ BlockPages = B /\ AllBigPages = C
  BY DEF TableFrames, BlockPages, AllBigPages, TablesOf, PagesOfBlocks, PagesOfBigs
<1>3. UsedFrames = InUse(heap.pagemap)
  <2>1. ASSUME NEW f \in UsedFrames PROVE f \in InUse(heap.pagemap)
    <3>1. PICK p \in AllPages : f = Frame(p[1], p[2]) /\ heap.pagemap[p[1]][p[2]] # PAGE_FREE
      BY DEF UsedFrames
    <3>2. p[1] \in RegionIds /\ p[2] \in Pages(p[1])
      BY DEF AllPages
    <3> QED
      BY <3>1, <3>2, InUseIs
  <2>2. ASSUME NEW f \in InUse(heap.pagemap) PROVE f \in UsedFrames
    <3>1. PICK r \in RegionIds : \E p \in Pages(r) :
             f = Frame(r, p) /\ heap.pagemap[r][p] # PAGE_FREE
      BY DEF InUse
    <3>2. PICK p \in Pages(r) : f = Frame(r, p) /\ heap.pagemap[r][p] # PAGE_FREE
      BY <3>1
    <3>3. <<r, p>> \in AllPages
      BY DEF AllPages
    <3> QED
      BY <3>2, <3>3 DEF UsedFrames
  <2> QED
    BY <2>1, <2>2
<1>4. InUse(heap.pagemap) = A \cup (B \cup C) /\ A \cap (B \cup C) = {} /\ B \cap C = {}
  BY <1>1 DEF Mem, HeapOK, Distinct
<1>5. IsFiniteSet(A) /\ Cardinality(A) = Cardinality(Tab)
  <2> DEFINE g == [pd \in Tab |-> heap.tables[pd]]
  <2>1. IsFiniteSet(Tab)
    <3>1. LastPde \in Int
      BY Layout, PagingAssumption DEF LastPde
    <3>2. IsFiniteSet(PdEntries)
      BY <3>1, FS_Interval DEF PdEntries, LastPde
    <3>3. Tab \in SUBSET PdEntries
      OBVIOUS
    <3> HIDE DEF Tab
    <3> QED
      BY <3>2, <3>3, FS_Subset
  <2>2. /\ g = [x \in Tab |-> g[x]]
        /\ \A x \in Tab : g[x] \in A
        /\ \A t \in A : \E x \in Tab : g[x] = t
    BY DEF TablesOf
  <2>3. \A x, y \in Tab : g[x] = g[y] => x = y
    BY <1>1 DEF Mem
  <2> HIDE DEF g, Tab, A
  <2> QED
    BY <2>1, <2>2, <2>3, OneToOne
<1>6. IsFiniteSet(B) /\ Cardinality(B) = Cardinality(Blk)
  <2> DEFINE g == [i \in Blk |-> heap.blocks[i].page]
  <2>1. IsFiniteSet(Blk)
    <3>1. Blk = 1..Len(heap.blocks) /\ Len(heap.blocks) \in Int
      BY <1>1
    <3> QED
      BY <3>1, FS_Interval
  <2>2. /\ g = [x \in Blk |-> g[x]]
        /\ \A x \in Blk : g[x] \in B
        /\ \A t \in B : \E x \in Blk : g[x] = t
    BY DEF PagesOfBlocks
  <2>3. \A x, y \in Blk : g[x] = g[y] => x = y
    BY DEF HeapOK, Distinct
  <2> HIDE DEF g, Blk, B
  <2> QED
    BY <2>1, <2>2, <2>3, OneToOne
<1>7. IsFiniteSet(C) /\ Cardinality(C) = Cardinality(Big)
  <2> DEFINE g == [q \in Big |-> q[2]]
             D == DOMAIN heap.bigs
  <2>1. IsFiniteSet(Big)
    <3>1. D = 1..Len(heap.bigs) /\ Len(heap.bigs) \in Int
      BY <1>1
    <3>2. IsFiniteSet(D)
      <4> HIDE DEF D
      <4> QED
        BY <3>1, FS_Interval
    <3>3. IsFiniteSet(0..AddrPages)
      BY Layout, FS_Interval
    <3>4. IsFiniteSet(D \X (0..AddrPages))
      BY <3>2, <3>3, FS_Product
    <3>5. Big \in SUBSET (D \X (0..AddrPages))
      OBVIOUS
    <3> HIDE DEF Big, D
    <3> QED
      BY <3>4, <3>5, FS_Subset
  <2>2. g = [x \in Big |-> g[x]] /\ \A x \in Big : g[x] = x[2]
    OBVIOUS
  <2>3. \A x \in Big : /\ x[1] \in D /\ x[2] \in BigPages(heap.bigs[x[1]])
                       /\ x = <<x[1], x[2]>>
    OBVIOUS
  <2>4. \A x \in Big : g[x] \in C
    <3> HIDE DEF g, Big
    <3> QED
      BY <2>2, <2>3 DEF PagesOfBigs
  <2>5. ASSUME NEW x \in Big, NEW y \in Big, g[x] = g[y] PROVE x = y
    <3> HIDE DEF g, Big
    <3>1. x[2] = y[2] /\ x[1] \in D /\ y[1] \in D
      BY <2>2, <2>3, <2>5
    <3>2. x[2] \in BigPages(heap.bigs[x[1]]) \cap BigPages(heap.bigs[y[1]])
      BY <2>3, <3>1
    <3>3. x[1] = y[1]
      BY <3>1, <3>2 DEF HeapOK, Distinct
    <3> QED
      BY <2>3, <3>1, <3>3
  <2>6. ASSUME NEW t \in C PROVE \E x \in Big : g[x] = t
    <3>1. PICK i \in D : t \in BigPages(heap.bigs[i])
      BY DEF PagesOfBigs
    <3>2. BigOK(heap.pagemap, heap.bigs[i])
      BY <3>1 DEF HeapOK
    <3>3. t \in RamFrames
      BY <3>1, <3>2, MarkedInUse DEF BigOK
    <3>4. t \in 0..AddrPages
      BY <3>3, Layout, RamMappable
    <3>5. <<i, t>> \in Big
      BY <3>1, <3>4
    <3> QED
      BY <3>5
  <2> HIDE DEF g, Big, C, D
  <2> QED
    BY <2>1, <2>2, <2>4, <2>5, <2>6, OneToOne
<1> HIDE DEF A, B, C, Tab, Blk, Big
<1>8. Cardinality(UsedFrames) = Cardinality(Tab) + Cardinality(Blk) + Cardinality(Big)
  <2>1. IsFiniteSet(B \cup C) /\ Cardinality(B \cup C) = Cardinality(B) + Cardinality(C)
    BY <1>4, <1>6, <1>7, DisjointUnion
  <2>2. Cardinality(A \cup (B \cup C)) = Cardinality(A) + Cardinality(B \cup C)
    BY <1>4, <1>5, <2>1, DisjointUnion
  <2>3. Cardinality(A) \in Nat /\ Cardinality(B) \in Nat /\ Cardinality(C) \in Nat
    BY <1>5, <1>6, <1>7, FS_CardinalityType
  <2>4. Cardinality(UsedFrames) = Cardinality(A) + (Cardinality(B) + Cardinality(C))
    BY <1>3, <1>4, <2>1, <2>2
  <2>5. Cardinality(UsedFrames) = Cardinality(A) + Cardinality(B) + Cardinality(C)
    BY <2>3, <2>4
  <2> QED
    BY <1>5, <1>6, <1>7, <2>5
<1>9. UsedFrames = TableFrames \cup BlockPages \cup AllBigPages
  BY <1>2, <1>3, <1>4
<1>10. MappedPagesAreOwned
  BY <1>1, <1>2 DEF MappedPagesAreOwned
<1> QED
  BY <1>8, <1>9, <1>10 DEF EveryFrameHasOneOwner, Tab, Blk, Big

\* Until the kernel panics the heap is in order.
IInv == ~ heap.panicked => HeapOK(heap, {})

LEMMA InitIInv == Init => IInv
BY InitHeap DEF IInv

LEMMA NextIInv == IInv /\ [Next]_vars => IInv'
<1> SUFFICES ASSUME IInv, [Next]_vars PROVE IInv'
  OBVIOUS
<1>1. ASSUME NEW size \in Sizes, kmalloc(size) PROVE IInv'
  <2>1. HeapOK(heap, {})
    BY <1>1 DEF kmalloc, IInv
  <2>2. heap' = Kmalloc(heap, size).heap
    BY <1>1 DEF kmalloc
  <2>3. ~ Kmalloc(heap, size).heap.panicked => HeapOK(Kmalloc(heap, size).heap, {})
    BY <2>1, KmallocKeeps
  <2>4. ~ (heap').panicked => HeapOK(heap', {})
    BY <2>2, <2>3
  <2> QED
    BY <2>4 DEF IInv
<1>2. ASSUME NEW ptr \in Pointers, kfree(ptr) PROVE IInv'
  <2>1. HeapOK(heap, {})
    BY <1>2 DEF kfree, IInv
  <2>2. heap' = Kfree(heap, ptr)
    BY <1>2 DEF kfree
  <2>3. ~ (heap').panicked => HeapOK(heap', {})
    BY <2>1, <2>2, KfreeKeeps
  <2> QED
    BY <2>3 DEF IInv
<1>3. CASE UNCHANGED vars
  <2>1. heap' = heap
    BY <1>3 DEF vars
  <2>2. ~ (heap').panicked => HeapOK(heap', {})
    BY <2>1 DEF IInv
  <2> QED
    BY <2>2 DEF IInv
<1> QED
  BY <1>1, <1>2, <1>3 DEF Next

\* For every layout of the memory, kmalloc() and kfree() keep every frame that
\* is in use with exactly one owner, and exactly the owned pages mapped: no
\* frame leaks, none is handed out twice, none is left mapped or unmapped.
THEOREM OneOwner == Spec => []EveryFrameHasOneOwner
<1>1. IInv => EveryFrameHasOneOwner
  BY OwnersCounted DEF IInv, EveryFrameHasOneOwner
<1> QED
  BY <1>1, InitIInv, NextIInv, PTL DEF Spec

\* For every layout of the memory and every size, a kmalloc() that returns
\* NULL has changed nothing: when the metadata of a big allocation cannot be
\* had, big_alloc() gives back all the frames it took and no other.
THEOREM FailedKmalloc == Spec => FailedKmallocChangesNothing
<1> DEFINE Failed == \A size \in Sizes :
                       kmalloc(size) /\ ~ (heap').panicked /\ ret' = NULL => heap' = heap
<1>1. ASSUME IInv PROVE Failed
  <2> SUFFICES ASSUME NEW size \in Sizes, kmalloc(size), ~ (heap').panicked, ret' = NULL
               PROVE  heap' = heap
    OBVIOUS
  <2> DEFINE r == Kmalloc(heap, size)
  <2>1. heap' = r.heap /\ ret' = r.ret /\ ~ r.heap.panicked /\ HeapOK(heap, {})
    BY <1>1 DEF kmalloc, IInv
  <2> HIDE DEF r
  <2>2. r.ret = NULL => r.heap = heap
    BY <2>1, KmallocKeeps DEF r
  <2> QED
    BY <2>1, <2>2
<1>2. IInv => [Failed]_vars
  BY <1>1
<1> HIDE DEF Failed
<1>3. Spec => [][Failed]_vars
  BY <1>2, InitIInv, NextIInv, PTL DEF Spec
<1> QED
  BY <1>3 DEF FailedKmallocChangesNothing, Failed

-----------------------------------------------------------------------------
(* Sizes *)

LEMMA PowerType ==
  ASSUME NEW k \in 0..WordBits
  PROVE  2^k \in Nat /\ 2^k > 0
<1> DEFINE Good(i) == 2^i \in Nat /\ 2^i > 0
           Bad == {i \in 0..WordBits : ~ Good(i)}
<1>0. WordBits \in Nat
  BY HeapAssumption
<1>1. Bad = {}
  <2> SUFFICES ASSUME Bad # {} PROVE FALSE
    OBVIOUS
  <2>1. PICK i \in Bad : \A l \in Bad : i <= l
    <3>1. Bad \subseteq Nat
      BY <1>0
    <3> HIDE DEF Bad
    <3> QED
      BY <3>1, LeastNatural
  <2>2. i # 0
    <3>1. Good(0)
      OBVIOUS
    <3> HIDE DEF Good
    <3> QED
      BY <2>1, <3>1
  <2>3. i \in 1..WordBits /\ i - 1 \in 0..WordBits /\ ~ (i <= i - 1)
    BY <1>0, <2>1, <2>2
  <2>4. Good(i - 1)
    <3> HIDE DEF Good
    <3> QED
      BY <2>1, <2>3
  <2>5. 2^i = 2 * 2^(i - 1)
    BY <2>3, PowersAssumption
  <2>6. Good(i)
    BY <2>4, <2>5
  <2> HIDE DEF Good
  <2> QED
    BY <2>1, <2>6
<1> HIDE DEF Good
<1>2. Good(k)
  BY <1>1
<1> QED
  BY <1>2 DEF Good

\* A power of two divides every larger one.
LEMMA PowerDivides ==
  ASSUME NEW j \in 0..WordBits, NEW k \in 0..WordBits, j <= k
  PROVE  \E m \in Nat : 2^k = m * 2^j
<1> DEFINE Good(i) == \E m \in Nat : 2^i = m * 2^j
           Bad == {i \in j..WordBits : ~ Good(i)}
<1>0. WordBits \in Nat /\ j \in Nat
  BY HeapAssumption
<1>1. Bad = {}
  <2> SUFFICES ASSUME Bad # {} PROVE FALSE
    OBVIOUS
  <2>1. PICK i \in Bad : \A l \in Bad : i <= l
    <3>1. Bad \subseteq Nat
      BY <1>0
    <3> HIDE DEF Bad
    <3> QED
      BY <3>1, LeastNatural
  <2>2. i # j
    <3>1. 2^j = 1 * 2^j
      BY PowerType
    <3>2. Good(j)
      BY <3>1
    <3> HIDE DEF Good
    <3> QED
      BY <2>1, <3>2
  <2>3. i \in 1..WordBits /\ i - 1 \in j..WordBits /\ ~ (i <= i - 1)
    BY <1>0, <2>1, <2>2
  <2>4. Good(i - 1)
    <3> HIDE DEF Good
    <3> QED
      BY <2>1, <2>3
  <2>5. 2^i = 2 * 2^(i - 1)
    BY <2>3, PowersAssumption
  <2>6. Good(i)
    <3>1. PICK m \in Nat : 2^(i - 1) = m * 2^j
      BY <2>4
    <3>2. 2^i = 2 * (m * 2^j)
      BY <2>5, <3>1
    <3> DEFINE x == 2^j
    <3>3. x \in Nat
      BY PowerType
    <3> HIDE DEF x
    <3>4. 2 * (m * x) = (2 * m) * x /\ 2 * m \in Nat
      BY <3>3
    <3>5. 2^i = (2 * m) * 2^j
      BY <3>2, <3>4 DEF x
    <3> QED
      BY <3>4, <3>5
  <2> HIDE DEF Good
  <2> QED
    BY <2>1, <2>6
<1>2. k \in j..WordBits
  BY <1>0
<1> HIDE DEF Good
<1>3. Good(k)
  BY <1>1, <1>2
<1> QED
  BY <1>3 DEF Good

\* Powers of two that are different are ordered as their exponents.
LEMMA PowerGrows ==
  ASSUME NEW j \in 0..WordBits, NEW k \in 0..WordBits, j < k
  PROVE  2^j < 2^k
<1>0. WordBits \in Nat
  BY HeapAssumption
<1>1. k - 1 \in 0..WordBits /\ j <= k - 1 /\ k \in 1..WordBits
  BY <1>0
<1>2. PICK m \in Nat : 2^(k - 1) = m * 2^j
  BY <1>1, PowerDivides
<1>3. 2^k = 2 * 2^(k - 1)
  BY <1>1, PowersAssumption
<1> DEFINE x == 2^j
           y == 2^(k - 1)
<1>4. x \in Nat /\ x > 0 /\ y \in Nat /\ y > 0 /\ y = m * x
  BY <1>1, <1>2, PowerType
<1> HIDE DEF x, y
<1>5. m # 0
  BY <1>4
<1>6. y >= x
  BY <1>4, <1>5
<1>7. x < 2 * y
  BY <1>4, <1>6
<1> QED
  BY <1>3, <1>7 DEF x, y

\* The rounded size is a power of two that is at least the size, unless it
\* overflows.
LEMMA RoundedFits ==
  ASSUME NEW size \in Nat, NEW k \in 0..(WordBits - 1), size <= 2^k, MinSize <= 2^k
  PROVE  /\ Rounded(size) >= size
         /\ \E l \in 0..k : Rounded(size) = 2^l
<1> DEFINE s == IF size < MinSize THEN MinSize ELSE size
           W == 2^WordBits
           powers == {2^i : i \in 0..WordBits}
           p == CHOOSE q \in powers : q >= s /\ \A t \in powers : t >= s => q <= t
           T == {q \in powers : q >= s}
<1>0. WordBits \in Nat /\ k \in 0..WordBits /\ WordBits \in 0..WordBits /\ k < WordBits
  BY HeapAssumption
<1>1. Rounded(size) = p % W
  BY DEF Rounded, next_highest_power_of_two
<1>2. powers \subseteq Nat
  <2>1. ASSUME NEW q \in powers PROVE q \in Nat
    BY PowerType
  <2> QED
    BY <2>1
<1>3. /\ 2^k \in powers /\ 2^k >= s /\ 2^k < W /\ s \in Nat /\ s >= size
      /\ 2^k \in Nat /\ W \in Nat
  <2>1. 2^k \in powers /\ 2^k < W
    BY <1>0, PowerGrows
  <2>2. 2^k \in Nat /\ W \in Nat
    BY <1>0, PowerType
  <2>3. s \in Nat /\ s >= size /\ s <= 2^k
    BY WordSizes
  <2> QED
    BY <2>1, <2>2, <2>3
<1>4. \A q \in powers : \E i \in 0..WordBits : q = 2^i
  OBVIOUS
<1> HIDE DEF powers, s, W
<1>5. T \subseteq Nat /\ T # {}
  BY <1>2, <1>3
<1>6. \E q \in T : \A t \in T : q <= t
  <2> HIDE DEF T
  <2> QED
    BY <1>5, LeastNatural
<1>7. \E q \in powers : q >= s /\ \A t \in powers : t >= s => q <= t
  BY <1>6
<1>8. p \in powers /\ p >= s /\ p <= 2^k
  BY <1>3, <1>7
<1> HIDE DEF p
<1>9. p \in Nat /\ p < W
  BY <1>2, <1>3, <1>8
<1>10. Rounded(size) = p
  BY <1>1, <1>3, <1>9
<1>11. PICK l \in 0..WordBits : p = 2^l
  BY <1>4, <1>8
<1>12. l <= k
  <2>1. CASE ~ (l <= k)
    <3>1. 2^k < 2^l
      BY <1>0, <2>1, PowerGrows
    <3> QED
      BY <1>3, <1>8, <1>9, <1>11, <3>1
  <2> QED
    BY <2>1
<1>13. l \in 0..k
  BY <1>0, <1>12
<1>14. p >= size
  BY <1>3, <1>8, <1>9
<1> QED
  BY <1>10, <1>11, <1>13, <1>14

\* Half a page is a power of two, and holds the metadata of a big allocation.
LEMMA HalfPage ==
  \E k \in 0..(WordBits - 1) :
    k + 1 \in 0..WordBits /\ PageSize = 2^(k + 1) /\ MetaSize <= 2^k /\ MinSize <= 2^k
<1>0. WordBits \in Nat
  BY HeapAssumption
<1>1. PICK q \in 0..WordBits : PageSize = 2^q
  BY HeapAssumption
<1>2. q # 0
  <2>1. CASE q = 0
    <3>1. PageSize = 1
      BY <1>1, <2>1
    <3>2. PageSize \div 2 = 0
      BY <3>1
    <3> QED
      BY <3>2, HeapAssumption
  <2> QED
    BY <2>1
<1>3. q \in 1..WordBits /\ q - 1 \in 0..(WordBits - 1) /\ (q - 1) + 1 = q
  BY <1>0, <1>2
<1>4. PageSize = 2 * 2^(q - 1)
  BY <1>1, <1>3, PowersAssumption
<1> DEFINE x == 2^(q - 1)
<1>5. x \in Nat
  <2>1. q - 1 \in 0..WordBits
    BY <1>0, <1>3
  <2> QED
    BY <2>1, PowerType
<1>6. PageSize = 2 * x
  BY <1>4
<1> HIDE DEF x
<1>7. PageSize \div 2 = x
  BY <1>5, <1>6
<1>8. MetaSize <= x /\ MinSize <= x
  BY <1>5, <1>7, HeapAssumption, WordSizes
<1>9. PageSize = 2^((q - 1) + 1) /\ (q - 1) + 1 \in 0..WordBits
  BY <1>1, <1>3
<1> QED
  BY <1>3, <1>8, <1>9 DEF x

\* The rounded size of a request below the limit: it holds the request, and is
\* a number of whole pages unless it is below the size of a page.
LEMMA RoundedRequest ==
  ASSUME SizesFit, NEW size \in Sizes
  PROVE  /\ size \in Nat /\ Rounded(size) \in Nat
         /\ Rounded(size) >= size /\ Rounded(size) > 0
         /\ \E l \in 0..WordBits : Rounded(size) = 2^l
         /\ Rounded(size) >= PageSize => Rounded(size) = Base(Rounded(size) \div PageSize)
<1>0. WordBits \in Nat /\ size \in Nat
  BY HeapAssumption, WordSizes
<1>1. PICK j \in 0..(WordBits - 1) : size <= 2^j
  BY DEF SizesFit
<1>2. PICK h \in 0..(WordBits - 1) :
         h + 1 \in 0..WordBits /\ PageSize = 2^(h + 1) /\ MetaSize <= 2^h /\ MinSize <= 2^h
  BY HalfPage
<1> DEFINE k == IF j < h THEN h ELSE j
<1>3. k \in 0..(WordBits - 1)
  OBVIOUS
<1>4. size <= 2^k /\ MinSize <= 2^k
  <2>1. j \in 0..WordBits /\ h \in 0..WordBits
    BY <1>0
  <2>2. 2^j \in Nat /\ 2^h \in Nat /\ MinSize \in Nat
    BY <2>1, PowerType, WordSizes
  <2>3. CASE j < h
    <3>1. 2^j < 2^h /\ k = h
      BY <2>1, <2>3, PowerGrows
    <3> QED
      BY <1>0, <1>1, <1>2, <2>2, <3>1
  <2>4. CASE j = h
    BY <1>1, <1>2, <2>4
  <2>5. CASE h < j
    <3>1. 2^h < 2^j /\ k = j
      BY <2>1, <2>5, PowerGrows
    <3> QED
      BY <1>0, <1>1, <1>2, <2>2, <3>1
  <2> QED
    BY <2>3, <2>4, <2>5
<1> HIDE DEF k
<1>5. Rounded(size) >= size /\ \E l \in 0..k : Rounded(size) = 2^l
  BY <1>0, <1>3, <1>4, RoundedFits
<1>6. PICK l \in 0..WordBits : Rounded(size) = 2^l
  BY <1>0, <1>3, <1>5
<1>7. Rounded(size) \in Nat /\ Rounded(size) > 0
  BY <1>6, PowerType
<1>8. ASSUME Rounded(size) >= PageSize PROVE Rounded(size) = Base(Rounded(size) \div PageSize)
  <2>1. h + 1 <= l
    <3>1. CASE l < h + 1
      <4>1. 2^l < 2^(h + 1)
        BY <1>2, <3>1, PowerGrows
      <4> QED
        BY <1>2, <1>6, <1>7, <1>8, <4>1, HeapSizes
    <3> QED
      BY <1>0, <3>1
  <2>2. PICK m \in Nat : 2^l = m * 2^(h + 1)
    BY <1>2, <2>1, PowerDivides
  <2>3. Rounded(size) = m * PageSize
    BY <1>2, <1>6, <2>2
  <2>4. (m * PageSize) \div PageSize = m
    BY HeapSizes
  <2> QED
    BY <2>3, <2>4 DEF Base
<1> QED
  BY <1>0, <1>5, <1>6, <1>7, <1>8

-----------------------------------------------------------------------------
(* The areas of the callers *)

ChunkAt(b, c) == b.first_ptr + c * b.elt_size

\* The chunks of a block lie behind its header and chunkmap and on its page,
\* and it counts the free ones right.
BlockOK(b) ==
  /\ b.elt_size > 0
  /\ Base(b.page) + HeaderSize + b.tot_elts <= b.first_ptr
  /\ b.first_ptr + b.tot_elts * b.elt_size <= Base(b.page) + PageSize
  /\ b.used \subseteq 0..(b.tot_elts - 1)
  /\ b.nb_frees = b.tot_elts - Cardinality(b.used)

BlocksOK(s) == s \in Seq(BlockRecs) /\ \A i \in DOMAIN s : BlockOK(s[i])

\* A chunk of the blocks s that is in use starts at p and has n bytes at least.
Chunk(s, p, n) ==
  \E i \in DOMAIN s : \E c \in s[i].used : p = ChunkAt(s[i], c) /\ n <= s[i].elt_size

\* What a quotient is.
LEMMA DivideUp ==
  ASSUME NEW a \in Nat, NEW d \in Nat, d > 0
  PROVE  /\ a \div d \in Nat /\ (a \div d) * d \in Nat
         /\ (a \div d) * d <= a /\ a < (a \div d) * d + d
<1> DEFINE q == a \div d
           l == a % d
<1>1. q \in Nat /\ l \in Nat /\ l < d /\ a = d * q + l
  OBVIOUS
<1> HIDE DEF q, l
<1>2. q * d \in Nat /\ q * d = d * q
  BY <1>1
<1>3. q * d <= a /\ a < q * d + d
  BY <1>1, <1>2
<1> QED
  BY <1>1, <1>2, <1>3 DEF q

\* The page an address lies on.
LEMMA PageOfAddress ==
  ASSUME NEW page \in Nat, NEW a \in Int, Base(page) <= a, a < Base(page) + PageSize
  PROVE  a \div PageSize = page
<1>1. PageSize \in Nat /\ PageSize > 0
  BY HeapSizes
<1>2. Base(page) = page * PageSize /\ page * PageSize \in Nat
  BY <1>1 DEF Base
<1> DEFINE l == a - page * PageSize
<1>3. l \in Int /\ 0 <= l /\ l < PageSize /\ a = page * PageSize + l
  BY <1>1, <1>2
<1> HIDE DEF l
<1>4. (page * PageSize + l) \div PageSize = page
  BY <1>1, <1>3
<1> QED
  BY <1>3, <1>4

\* The chunks of a block.
LEMMA ChunkPlace ==
  ASSUME NEW b \in BlockRecs, BlockOK(b), NEW c \in 0..(b.tot_elts - 1)
  PROVE  /\ ChunkAt(b, c) \in Nat
         /\ Base(b.page) + HeaderSize + b.tot_elts <= ChunkAt(b, c)
         /\ ChunkAt(b, c) + b.elt_size <= Base(b.page) + PageSize
         /\ Base(b.page) \in Nat /\ b.elt_size \in Nat /\ b.tot_elts \in Nat /\ b.page \in Nat
<1> DEFINE e == b.elt_size
           t == b.tot_elts
           f == b.first_ptr
           B == Base(b.page)
<1>1. e \in Nat /\ t \in Nat /\ f \in Nat /\ b.page \in Nat /\ c \in Nat /\ c + 1 <= t
  BY DEF BlockRecs
<1>2. B \in Nat
  BY <1>1, HeapSizes DEF Base
<1>3. B + HeaderSize + t <= f /\ f + t * e <= B + PageSize
  BY DEF BlockOK
<1>4. ChunkAt(b, c) = f + c * e
  BY DEF ChunkAt
<1> HIDE DEF e, t, f, B
<1>5. c * e \in Nat
  BY <1>1
<1>6. c * e + e <= t * e
  <2>1. (t - c - 1) * e \in Nat
    <3> DEFINE d == t - c - 1
    <3>1. d \in Nat
      BY <1>1
    <3> HIDE DEF d
    <3>2. d * e \in Nat
      BY <1>1, <3>1
    <3> QED
      BY <3>2 DEF d
  <2>2. (t - c - 1) * e = t * e - c * e - e
    BY <1>1
  <2>3. t * e \in Nat
    BY <1>1
  <2> QED
    BY <1>1, <1>5, <2>1, <2>2, <2>3
<1>7. t * e \in Nat
  BY <1>1
<1>8. f + c * e \in Nat /\ B + HeaderSize + t <= f + c * e /\ (f + c * e) + e <= B + PageSize
  BY <1>1, <1>2, <1>3, <1>5, <1>6, <1>7, HeapSizes
<1> QED
  BY <1>1, <1>2, <1>4, <1>8 DEF e, t, f, B

\* Two chunks of a block do not overlap.
LEMMA ChunksApart ==
  ASSUME NEW b \in BlockRecs, BlockOK(b), NEW c \in Nat, NEW d \in Nat, c < d
  PROVE  ChunkAt(b, c) + b.elt_size <= ChunkAt(b, d)
<1> DEFINE e == b.elt_size
           f == b.first_ptr
<1>1. e \in Nat /\ f \in Nat
  BY DEF BlockRecs
<1>2. ChunkAt(b, c) = f + c * e /\ ChunkAt(b, d) = f + d * e
  BY DEF ChunkAt
<1> HIDE DEF e, f
<1> DEFINE k == d - c - 1
<1>3. k \in Nat /\ d = c + 1 + k
  OBVIOUS
<1> HIDE DEF k
<1>4. k * e \in Nat /\ c * e \in Nat
  BY <1>1, <1>3
<1>5. (c + 1 + k) * e = c * e + e + k * e
  BY <1>1, <1>3
<1>6. d * e = c * e + e + k * e
  BY <1>3, <1>5
<1> QED
  BY <1>1, <1>2, <1>4, <1>6 DEF e

\* Two chunks at the same address are the same: no two blocks share a page.
LEMMA ChunkUnique ==
  ASSUME NEW h, Distinct(h), BlocksOK(h.blocks),
         NEW i \in DOMAIN h.blocks, NEW c \in 0..(h.blocks[i].tot_elts - 1),
         NEW j \in DOMAIN h.blocks, NEW d \in 0..(h.blocks[j].tot_elts - 1),
         ChunkAt(h.blocks[i], c) = ChunkAt(h.blocks[j], d)
  PROVE  i = j /\ c = d
<1> DEFINE b == h.blocks[i]
           g == h.blocks[j]
           p == ChunkAt(b, c)
<1>1. b \in BlockRecs /\ BlockOK(b) /\ g \in BlockRecs /\ BlockOK(g)
  BY DEF BlocksOK
<1>2. /\ p \in Nat /\ Base(b.page) + HeaderSize + b.tot_elts <= p
      /\ p + b.elt_size <= Base(b.page) + PageSize
      /\ Base(b.page) \in Nat /\ b.elt_size \in Nat /\ b.tot_elts \in Nat /\ b.page \in Nat
  BY <1>1, ChunkPlace
<1>3. /\ Base(g.page) + HeaderSize + g.tot_elts <= p
      /\ p + g.elt_size <= Base(g.page) + PageSize
      /\ Base(g.page) \in Nat /\ g.elt_size \in Nat /\ g.tot_elts \in Nat /\ g.page \in Nat
  BY <1>1, ChunkPlace
<1>4. b.elt_size > 0 /\ g.elt_size > 0
  BY <1>1 DEF BlockOK
<1>5. p = ChunkAt(g, d)
  OBVIOUS
<1> HIDE DEF p, b, g
<1>6. p \div PageSize = b.page
  <2>1. Base(b.page) <= p /\ p < Base(b.page) + PageSize
    BY <1>2, <1>4, HeapSizes
  <2> QED
    BY <1>2, <2>1, PageOfAddress
<1>7. p \div PageSize = g.page
  <2>1. Base(g.page) <= p /\ p < Base(g.page) + PageSize
    BY <1>2, <1>3, <1>4, HeapSizes
  <2> QED
    BY <1>2, <1>3, <2>1, PageOfAddress
<1>8. i = j
  BY <1>6, <1>7 DEF Distinct, b, g
<1>9. c = d
  <2>1. c \in Nat /\ d \in Nat /\ b = g
    <3>1. b = g
      BY <1>8 DEF b, g
    <3> QED
      BY <3>1
  <2>2. CASE c < d
    <3>1. p + b.elt_size <= p
      BY <1>1, <1>5, <2>1, <2>2, ChunksApart DEF p
    <3> QED
      BY <1>2, <1>4, <3>1
  <2>3. CASE d < c
    <3>1. p + b.elt_size <= p
      BY <1>1, <1>5, <2>1, <2>3, ChunksApart DEF p
    <3> QED
      BY <1>2, <1>4, <3>1
  <2> QED
    BY <2>1, <2>2, <2>3
<1> QED
  BY <1>8, <1>9

\* The chunks of a new block fit into its page, behind the chunkmap.
LEMMA NewBlockOK ==
  ASSUME NEW page \in Nat, page > 0, NEW e \in Nat, e > 0
  PROVE  BlockOK(NewBlock(page, e)) /\ NewBlock(page, e).elt_size = e
<1> DEFINE room == PageSize - HeaderSize - PtrSize
           k == NbElts(e)
           B == Base(page)
           s == B + HeaderSize + k + PtrSize - 1
           f == FirstPtr(page, k)
           b == NewBlock(page, e)
<1>1. room \in Nat
  BY HeapSizes
<1>2. k \in Nat /\ k * (1 + e) <= room
  <2>1. k = room \div (1 + e)
    BY DEF NbElts
  <2> HIDE DEF room, k
  <2> DEFINE d == 1 + e
  <2>2. d \in Nat /\ d > 0
    OBVIOUS
  <2> HIDE DEF d
  <2>3. room \div d \in Nat /\ (room \div d) * d <= room
    BY <1>1, <2>2, DivideUp
  <2> QED
    BY <2>1, <2>3 DEF d
<1>3. B \in Nat
  BY HeapSizes DEF Base
<1> HIDE DEF k, B
<1>4. s \in Nat
  BY <1>2, <1>3, HeapSizes
<1>5. f = (s \div PtrSize) * PtrSize
  BY DEF FirstPtr, B
<1> HIDE DEF s, f
<1>6. f \in Nat /\ f <= s /\ s < f + PtrSize
  <2> DEFINE q == s \div PtrSize
  <2>1. q \in Nat /\ q * PtrSize \in Nat /\ q * PtrSize <= s /\ s < q * PtrSize + PtrSize
    BY <1>4, HeapSizes, DivideUp
  <2> QED
    BY <1>5, <2>1
<1>7. B + HeaderSize + k <= f /\ f <= B + HeaderSize + k + PtrSize - 1
  BY <1>2, <1>3, <1>6, HeapSizes DEF s
<1>8. k * e \in Nat /\ k * (1 + e) = k + k * e
  BY <1>2
<1>9. f + k * e <= B + PageSize
  <2> DEFINE x == k * e
  <2>1. x \in Nat /\ k + x <= room
    BY <1>2, <1>8
  <2> HIDE DEF x
  <2>2. f + x <= B + PageSize
    BY <1>2, <1>3, <1>6, <1>7, <2>1, HeapSizes DEF room
  <2> QED
    BY <2>2 DEF x
<1>10. /\ b.page = page /\ b.elt_size = e /\ b.tot_elts = k /\ b.nb_frees = k
       /\ b.first_ptr = f /\ b.used = {}
  BY DEF NewBlock, k, f
<1> HIDE DEF b
<1>11. Cardinality({}) = 0
  BY FS_EmptySet
<1>12. b.nb_frees = b.tot_elts - Cardinality(b.used)
  BY <1>2, <1>10, <1>11
<1>13. BlockOK(b)
  BY <1>7, <1>9, <1>10, <1>12 DEF BlockOK, B
<1> QED
  BY <1>10, <1>13 DEF b

\* The i-th block has other chunks in use and another count, and nothing else
\* changes.
Changes(s, i, u, k, t) ==
  /\ DOMAIN t = DOMAIN s
  /\ \A j \in DOMAIN s \ {i} : t[j] = s[j]
  /\ t[i] \in BlockRecs
  /\ t[i].page = s[i].page /\ t[i].elt_size = s[i].elt_size
  /\ t[i].tot_elts = s[i].tot_elts /\ t[i].first_ptr = s[i].first_ptr
  /\ t[i].used = u /\ t[i].nb_frees = k

LEMMA BlockChanges ==
  ASSUME NEW s \in Seq(BlockRecs), NEW i \in DOMAIN s, NEW u \in SUBSET Nat, NEW k \in Int
  PROVE  Changes(s, i, u, k, [s EXCEPT ![i].used = u, ![i].nb_frees = k])
<1> DEFINE t == [s EXCEPT ![i].used = u, ![i].nb_frees = k]
           b == [s[i] EXCEPT !.used = u, !.nb_frees = k]
<1>1. s[i] \in BlockRecs
  OBVIOUS
<1>2. /\ b \in BlockRecs /\ b.page = s[i].page /\ b.elt_size = s[i].elt_size
      /\ b.tot_elts = s[i].tot_elts /\ b.first_ptr = s[i].first_ptr
      /\ b.used = u /\ b.nb_frees = k
  BY <1>1 DEF BlockRecs
<1>3. t = [s EXCEPT ![i] = b]
  BY DEF BlockRecs
<1> HIDE DEF b, t
<1>4. DOMAIN t = DOMAIN s /\ t[i] = b /\ \A j \in DOMAIN s \ {i} : t[j] = s[j]
  BY <1>3
<1> QED
  BY <1>2, <1>4 DEF Changes, t

\* A chunk of e bytes at p is handed out: it was not in use, and the chunks in
\* use stay as they are.
HandsOut(s, t, p, e) ==
  /\ BlocksOK(t)
  /\ Chunk(t, p, e)
  /\ \A q, n : Chunk(s, q, n) => Chunk(t, q, n) /\ q # p
  /\ \A q, n : Chunk(t, q, n) => Chunk(s, q, n) \/ q = p

LEMMA TakeChunkHandsOut ==
  ASSUME NEW h, NEW Q, HeapOK(h, Q), BlocksOK(h.blocks), NEW i \in DOMAIN h.blocks,
         NEW r, r = TakeChunk(h, i), ~ r.heap.panicked
  PROVE  HandsOut(h.blocks, r.heap.blocks, r.ret, h.blocks[i].elt_size)
<1> DEFINE s == h.blocks
           b == s[i]
           free == (0..(b.tot_elts - 1)) \ b.used
           c == CHOOSE k \in free : \A l \in free : k <= l
           h2 == [h EXCEPT !.blocks[i].used = @ \cup {c}, !.blocks[i].nb_frees = @ - 1]
           t == h2.blocks
           u == b.used \cup {c}
           k == b.nb_frees - 1
<1>1. Fields \subseteq DOMAIN h /\ "blocks" \in DOMAIN h /\ s \in Seq(BlockRecs)
  BY DEF HeapOK, Mem
<1>2. b \in BlockRecs /\ BlockOK(b)
  BY <1>1 DEF BlocksOK
<1>3. free # {}
  BY <1>1, PanickedPanics DEF TakeChunk
<1>4. r.heap = h2 /\ r.ret = ChunkAt(b, c)
  BY <1>3 DEF TakeChunk, ChunkAt
<1>5. c \in free
  <2>1. free \subseteq Nat
    BY <1>2 DEF BlockRecs
  <2>2. \E l \in free : \A m \in free : l <= m
    <3> HIDE DEF free
    <3> QED
      BY <1>3, <2>1, LeastNatural
  <2> HIDE DEF free
  <2> QED
    BY <2>2
<1> HIDE DEF c
<1>6. c \in 0..(b.tot_elts - 1) /\ c \notin b.used /\ c \in Nat
  BY <1>2, <1>5 DEF BlockRecs
<1>7. t = [s EXCEPT ![i].used = u, ![i].nb_frees = k]
  BY <1>1, <1>2
<1> HIDE DEF h2, t
<1>8. u \in SUBSET Nat /\ k \in Int
  BY <1>2, <1>6 DEF BlockRecs
<1>9. Changes(s, i, u, k, t)
  <2> HIDE DEF u, k
  <2>1. Changes(s, i, u, k, [s EXCEPT ![i].used = u, ![i].nb_frees = k])
    BY <1>1, <1>8, BlockChanges
  <2> QED
    BY <1>7, <2>1
<1>10. t \in Seq(BlockRecs)
  <2>1. r.heap.blocks \in Seq(BlockRecs)
    BY TakeChunkKeeps DEF HeapOK
  <2> QED
    BY <1>4, <2>1 DEF t
<1>11. BlockOK(t[i])
  <2>1. IsFiniteSet(b.used) /\ Cardinality(u) = Cardinality(b.used) + 1
    <3>1. b.used \in SUBSET (0..(b.tot_elts - 1)) /\ b.tot_elts \in Int
      BY <1>2 DEF BlockOK, BlockRecs
    <3>2. IsFiniteSet(0..(b.tot_elts - 1))
      BY <3>1, FS_Interval
    <3>3. IsFiniteSet(b.used)
      BY <3>1, <3>2, FS_Subset
    <3> QED
      BY <1>6, <3>3, FS_AddElement
  <2>2. Cardinality(b.used) \in Nat /\ b.tot_elts \in Int
    BY <1>2, <2>1, FS_CardinalityType DEF BlockRecs
  <2>3. k = b.tot_elts - Cardinality(u)
    BY <1>2, <2>1, <2>2 DEF BlockOK
  <2>4. u \subseteq 0..(b.tot_elts - 1)
    BY <1>2, <1>6 DEF BlockOK
  <2> HIDE DEF u, k, b
  <2>5. /\ t[i].page = b.page /\ t[i].elt_size = b.elt_size /\ t[i].tot_elts = b.tot_elts
        /\ t[i].first_ptr = b.first_ptr /\ t[i].used = u /\ t[i].nb_frees = k
    BY <1>9 DEF Changes, b
  <2> QED
    BY <1>2, <2>3, <2>4, <2>5 DEF BlockOK
<1>12. BlocksOK(t)
  BY <1>9, <1>10, <1>11 DEF BlocksOK, Changes
<1>13. ASSUME NEW j \in DOMAIN s, NEW d PROVE ChunkAt(t[j], d) = ChunkAt(s[j], d)
  BY <1>9 DEF Changes, ChunkAt
<1>14. Chunk(t, ChunkAt(b, c), b.elt_size)
  <2>1. i \in DOMAIN t /\ c \in t[i].used /\ t[i].elt_size = b.elt_size
    BY <1>9 DEF Changes
  <2>2. ChunkAt(b, c) = ChunkAt(t[i], c) /\ b.elt_size \in Nat
    BY <1>2, <1>13 DEF BlockRecs
  <2> QED
    BY <2>1, <2>2 DEF Chunk
<1>15. ASSUME NEW q, NEW n, Chunk(s, q, n) PROVE Chunk(t, q, n) /\ q # ChunkAt(b, c)
  <2>1. PICK j \in DOMAIN s : \E d \in s[j].used : q = ChunkAt(s[j], d) /\ n <= s[j].elt_size
    BY <1>15 DEF Chunk
  <2>2. PICK d \in s[j].used : q = ChunkAt(s[j], d) /\ n <= s[j].elt_size
    BY <2>1
  <2>3. j \in DOMAIN t /\ d \in t[j].used /\ t[j].elt_size = s[j].elt_size
    BY <1>9 DEF Changes
  <2>4. q = ChunkAt(t[j], d)
    BY <1>13, <2>2
  <2>5. Chunk(t, q, n)
    BY <2>2, <2>3, <2>4 DEF Chunk
  <2>6. ASSUME q = ChunkAt(b, c) PROVE FALSE
    <3>1. d \in 0..(s[j].tot_elts - 1)
      BY DEF BlocksOK, BlockOK
    <3>2. Distinct(h)
      BY DEF HeapOK
    <3>3. ChunkAt(h.blocks[i], c) = ChunkAt(h.blocks[j], d) /\ c \in 0..(h.blocks[i].tot_elts - 1)
      BY <1>6, <2>2, <2>6
    <3>4. i = j /\ c = d
      <4> HIDE DEF s, b
      <4>1. j \in DOMAIN h.blocks /\ d \in 0..(h.blocks[j].tot_elts - 1)
        BY <3>1 DEF s
      <4> QED
        BY <3>2, <3>3, <4>1, ChunkUnique
    <3> QED
      BY <1>6, <3>4
  <2> QED
    BY <2>5, <2>6
<1>16. ASSUME NEW q, NEW n, Chunk(t, q, n) PROVE Chunk(s, q, n) \/ q = ChunkAt(b, c)
  <2>1. PICK j \in DOMAIN t : \E d \in t[j].used : q = ChunkAt(t[j], d) /\ n <= t[j].elt_size
    BY <1>16 DEF Chunk
  <2>2. PICK d \in t[j].used : q = ChunkAt(t[j], d) /\ n <= t[j].elt_size
    BY <2>1
  <2>3. j \in DOMAIN s /\ t[j].elt_size = s[j].elt_size /\ q = ChunkAt(s[j], d)
    <3>1. j \in DOMAIN s /\ t[j].elt_size = s[j].elt_size
      BY <1>9 DEF Changes
    <3> QED
      BY <1>13, <2>2, <3>1
  <2>4. d \in s[j].used \/ (j = i /\ d = c)
    BY <1>9, <2>3 DEF Changes
  <2> QED
    BY <2>2, <2>3, <2>4 DEF Chunk
<1>17. HandsOut(s, t, ChunkAt(b, c), b.elt_size)
  <2> HIDE DEF b, s
  <2> QED
    BY <1>12, <1>14, <1>15, <1>16 DEF HandsOut
<1> QED
  BY <1>4, <1>17 DEF t

\* The chunk at p becomes free and no other.
LEMMA FreeChunkFrees ==
  ASSUME NEW h, NEW Q, HeapOK(h, Q), BlocksOK(h.blocks), NEW ptr, HasHostBlock(h, ptr),
         NEW h2, h2 = FreeChunk(h, ptr), ~ h2.panicked
  PROVE  /\ BlocksOK(h2.blocks) /\ h2.bigs = h.bigs
         /\ Chunk(h.blocks, ptr, 0)
         /\ \A q, n : Chunk(h.blocks, q, n) /\ q # ptr => Chunk(h2.blocks, q, n)
         /\ \A q, n : Chunk(h2.blocks, q, n) => Chunk(h.blocks, q, n) /\ q # ptr
<1> DEFINE s == h.blocks
           i == CHOOSE k \in DOMAIN h.blocks : HostBlock(h, ptr, k)
           b == h.blocks[i]
           at == {k \in 0..(b.tot_elts - 1) : b.first_ptr + k * b.elt_size = ptr}
           c == CHOOSE k \in at : \A l \in at : k <= l
           g == [h EXCEPT !.blocks[i].used = @ \ {c}, !.blocks[i].nb_frees = @ + 1]
           t == g.blocks
           u == b.used \ {c}
           k == b.nb_frees + 1
<1>1. /\ Fields \subseteq DOMAIN h /\ {"blocks", "bigs"} \subseteq DOMAIN h
      /\ s \in Seq(BlockRecs)
  BY DEF HeapOK, Mem
<1>2. h2 = g /\ c \in b.used /\ at # {}
  <2>1. ~ (at = {} \/ c \notin b.used)
    BY <1>1, PanickedPanics DEF FreeChunk
  <2> QED
    BY <2>1 DEF FreeChunk
<1>3. i \in DOMAIN s
  BY DEF HasHostBlock
<1> HIDE DEF i
<1>4. b \in BlockRecs /\ BlockOK(b)
  BY <1>1, <1>3 DEF BlocksOK
<1>5. c \in at
  <2>1. at \subseteq Nat
    BY <1>4 DEF BlockRecs
  <2>2. \E l \in at : \A m \in at : l <= m
    <3> HIDE DEF at
    <3> QED
      BY <1>2, <2>1, LeastNatural
  <2> HIDE DEF at
  <2> QED
    BY <2>2
<1> HIDE DEF c
<1>6. ChunkAt(b, c) = ptr
  BY <1>5 DEF ChunkAt
<1>7. t = [s EXCEPT ![i].used = u, ![i].nb_frees = k] /\ g.bigs = h.bigs
  BY <1>1, <1>3, <1>4
<1> HIDE DEF g, t
<1>8. u \in SUBSET Nat /\ k \in Int
  BY <1>4 DEF BlockRecs
<1>9. Changes(s, i, u, k, t)
  <2> HIDE DEF u, k
  <2>1. Changes(s, i, u, k, [s EXCEPT ![i].used = u, ![i].nb_frees = k])
    BY <1>1, <1>3, <1>8, BlockChanges
  <2> QED
    BY <1>7, <2>1
<1>10. t \in Seq(BlockRecs)
  <2>1. h2.blocks \in Seq(BlockRecs)
    BY FreeChunkKeeps DEF HeapOK
  <2> QED
    BY <1>2, <2>1 DEF t
<1>11. BlockOK(t[i])
  <2>1. IsFiniteSet(b.used) /\ Cardinality(u) = Cardinality(b.used) - 1
    <3>1. b.used \in SUBSET (0..(b.tot_elts - 1)) /\ b.tot_elts \in Int
      BY <1>4 DEF BlockOK, BlockRecs
    <3>2. IsFiniteSet(0..(b.tot_elts - 1))
      BY <3>1, FS_Interval
    <3>3. IsFiniteSet(b.used)
      BY <3>1, <3>2, FS_Subset
    <3> QED
      BY <1>2, <3>3, FS_RemoveElement
  <2>2. Cardinality(b.used) \in Nat /\ b.tot_elts \in Int
    BY <1>4, <2>1, FS_CardinalityType DEF BlockRecs
  <2>3. k = b.tot_elts - Cardinality(u)
    BY <1>4, <2>1, <2>2 DEF BlockOK
  <2>4. u \subseteq 0..(b.tot_elts - 1)
    BY <1>4 DEF BlockOK
  <2> HIDE DEF u, k, b
  <2>5. /\ t[i].page = b.page /\ t[i].elt_size = b.elt_size /\ t[i].tot_elts = b.tot_elts
        /\ t[i].first_ptr = b.first_ptr /\ t[i].used = u /\ t[i].nb_frees = k
    BY <1>9 DEF Changes, b
  <2> QED
    BY <1>4, <2>3, <2>4, <2>5 DEF BlockOK
<1>12. BlocksOK(t)
  BY <1>9, <1>10, <1>11 DEF BlocksOK, Changes
<1>13. ASSUME NEW q, NEW n, Chunk(s, q, n), q # ptr PROVE Chunk(t, q, n)
  <2>1. PICK j \in DOMAIN s : \E d \in s[j].used : q = ChunkAt(s[j], d) /\ n <= s[j].elt_size
    BY <1>13 DEF Chunk
  <2>2. PICK d \in s[j].used : q = ChunkAt(s[j], d) /\ n <= s[j].elt_size
    BY <2>1
  <2>3. ~ (j = i /\ d = c)
    BY <1>6, <1>13, <2>2
  <2>4. j \in DOMAIN t /\ d \in t[j].used /\ t[j].elt_size = s[j].elt_size
    BY <1>9, <2>3 DEF Changes
  <2>5. q = ChunkAt(t[j], d)
    BY <1>9, <2>2 DEF Changes, ChunkAt
  <2> QED
    BY <2>2, <2>4, <2>5 DEF Chunk
<1>14. ASSUME NEW q, NEW n, Chunk(t, q, n) PROVE Chunk(s, q, n) /\ q # ptr
  <2>1. PICK j \in DOMAIN t : \E d \in t[j].used : q = ChunkAt(t[j], d) /\ n <= t[j].elt_size
    BY <1>14 DEF Chunk
  <2>2. PICK d \in t[j].used : q = ChunkAt(t[j], d) /\ n <= t[j].elt_size
    BY <2>1
  <2>3. /\ j \in DOMAIN s /\ t[j].elt_size = s[j].elt_size /\ d \in s[j].used
        /\ ~ (j = i /\ d = c)
    BY <1>9 DEF Changes
  <2>4. q = ChunkAt(s[j], d)
    BY <1>9, <2>2, <2>3 DEF Changes, ChunkAt
  <2>5. Chunk(s, q, n)
    BY <2>2, <2>3, <2>4 DEF Chunk
  <2>6. ASSUME q = ptr PROVE FALSE
    <3>1. d \in 0..(s[j].tot_elts - 1) /\ c \in 0..(b.tot_elts - 1)
      BY <1>5, <2>3 DEF BlocksOK, BlockOK
    <3>2. Distinct(h)
      BY DEF HeapOK
    <3> HIDE DEF b
    <3>3. ChunkAt(h.blocks[i], c) = ChunkAt(h.blocks[j], d) /\ c \in 0..(h.blocks[i].tot_elts - 1)
      BY <1>6, <2>4, <2>6, <3>1 DEF b
    <3> HIDE DEF s
    <3>4. j \in DOMAIN h.blocks /\ d \in 0..(h.blocks[j].tot_elts - 1) /\ i \in DOMAIN h.blocks
      BY <1>3, <2>3, <3>1 DEF s
    <3>5. i = j /\ c = d
      BY <3>2, <3>3, <3>4, ChunkUnique
    <3> QED
      BY <2>3, <3>5
  <2> QED
    BY <2>5, <2>6
<1>15. Chunk(s, ptr, 0)
  <2>1. 0 <= b.elt_size
    BY <1>4 DEF BlockRecs
  <2> QED
    BY <1>2, <1>3, <1>6, <2>1 DEF Chunk
<1> QED
  BY <1>2, <1>7, <1>12, <1>13, <1>14, <1>15 DEF t

\* kmalloc() of a chunk.
LEMMA SmallAllocHandsOut ==
  ASSUME NEW h, NEW Q, HeapOK(h, Q), BlocksOK(h.blocks), NEW e \in Nat, e > 0,
         NEW r, r = SmallAlloc(h, e), ~ r.heap.panicked, r.ret # NULL
  PROVE  HandsOut(h.blocks, r.heap.blocks, r.ret, e)
<1>1. CASE \E i \in DOMAIN h.blocks : find_non_full_block(h, e, i)
  <2> DEFINE i == CHOOSE k \in DOMAIN h.blocks : find_non_full_block(h, e, k)
  <2>1. r = TakeChunk(h, i)
    BY <1>1 DEF SmallAlloc
  <2>2. i \in DOMAIN h.blocks /\ h.blocks[i].elt_size = e
    BY <1>1 DEF find_non_full_block
  <2> HIDE DEF i
  <2>3. HandsOut(h.blocks, r.heap.blocks, r.ret, h.blocks[i].elt_size)
    BY <2>1, <2>2, TakeChunkHandsOut
  <2> QED
    BY <2>2, <2>3
<1>2. CASE ~ \E i \in DOMAIN h.blocks : find_non_full_block(h, e, i)
  <2> DEFINE new == new_block(h, e)
             s == h.blocks
             t == new.heap.blocks
  <2>1. r = TakeFirst(new)
    BY <1>2 DEF SmallAlloc
  <2> HIDE DEF new
  <2>2. new.ok /\ r = TakeChunk(new.heap, 1)
    BY <2>1 DEF TakeFirst
  <2>3. /\ HeapOK(new.heap, Q) /\ 1 \in DOMAIN t
        /\ \E page \in RamFrames : Front(NewBlock(page, e), s, t)
    BY <2>2, NewBlockKeeps DEF new
  <2>4. PICK page \in RamFrames : Front(NewBlock(page, e), s, t)
    BY <2>3
  <2>5. BlockOK(NewBlock(page, e)) /\ NewBlock(page, e).elt_size = e
    BY RamMappable, NewBlockOK
  <2> DEFINE b == NewBlock(page, e)
  <2> HIDE DEF b, t
  <2>6. /\ t[1] = b
        /\ \A j \in DOMAIN t : j = 1 \/ (j - 1 \in DOMAIN s /\ t[j] = s[j - 1])
        /\ \A i \in DOMAIN s : i + 1 \in DOMAIN t /\ t[i + 1] = s[i]
    BY <2>4, FrontEntries DEF Front, b
  <2>7. BlocksOK(t)
    <3>1. t \in Seq(BlockRecs)
      BY <2>3 DEF HeapOK, t
    <3>2. ASSUME NEW j \in DOMAIN t PROVE BlockOK(t[j])
      <4>1. CASE j = 1
        BY <2>5, <2>6, <4>1 DEF b
      <4>2. CASE j # 1
        BY <2>6, <4>2 DEF BlocksOK
      <4> QED
        BY <4>1, <4>2
    <3> QED
      BY <3>1, <3>2 DEF BlocksOK
  <2>8. ASSUME NEW q, NEW n, Chunk(s, q, n) PROVE Chunk(t, q, n)
    <3>1. PICK i \in DOMAIN s : \E c \in s[i].used : q = ChunkAt(s[i], c) /\ n <= s[i].elt_size
      BY <2>8 DEF Chunk
    <3>2. i + 1 \in DOMAIN t /\ t[i + 1] = s[i]
      BY <2>6
    <3> QED
      BY <3>1, <3>2 DEF Chunk
  <2>9. ASSUME NEW q, NEW n, Chunk(t, q, n) PROVE Chunk(s, q, n)
    <3>1. PICK j \in DOMAIN t : \E c \in t[j].used : q = ChunkAt(t[j], c) /\ n <= t[j].elt_size
      BY <2>9 DEF Chunk
    <3>2. j # 1
      <4>1. t[1].used = {}
        BY <2>6 DEF b, NewBlock
      <4> QED
        BY <3>1, <4>1
    <3>3. j - 1 \in DOMAIN s /\ t[j] = s[j - 1]
      BY <2>6, <3>2
    <3> QED
      BY <3>1, <3>3 DEF Chunk
  <2>10. HandsOut(t, r.heap.blocks, r.ret, t[1].elt_size)
    BY <2>2, <2>3, <2>7, TakeChunkHandsOut DEF t
  <2>11. t[1].elt_size = e
    BY <2>5, <2>6 DEF b
  <2>12. HandsOut(t, r.heap.blocks, r.ret, e)
    BY <2>10, <2>11
  <2> QED
    BY <2>8, <2>9, <2>12 DEF HandsOut
<1> QED
  BY <1>1, <1>2

\* The chunk of the metadata of a big allocation is large enough for it.
LEMMA RoundedMeta ==
  Rounded(MetaSize) \in Nat /\ Rounded(MetaSize) >= MetaSize /\ Rounded(MetaSize) > 0
<1>1. PICK k \in 0..(WordBits - 1) :
         k + 1 \in 0..WordBits /\ PageSize = 2^(k + 1) /\ MetaSize <= 2^k /\ MinSize <= 2^k
  BY HalfPage
<1>2. MetaSize \in Nat /\ WordBits \in Nat
  BY WordSizes, HeapAssumption
<1>3. Rounded(MetaSize) >= MetaSize /\ \E l \in 0..k : Rounded(MetaSize) = 2^l
  BY <1>1, <1>2, RoundedFits
<1>4. PICK l \in 0..WordBits : Rounded(MetaSize) = 2^l
  BY <1>2, <1>3
<1> QED
  BY <1>3, <1>4, PowerType

\* An allocation of whole pages has n bytes at least from p on.
BigArea(s, p, n) == \E i \in DOMAIN s : p = s[i].ptr /\ n <= s[i].size

Area(h, p, n) == Chunk(h.blocks, p, n) \/ BigArea(h.bigs, p, n)

\* Big allocations consist of whole pages.
WholePages(b) == /\ b.ptr = Base(b.ptr \div PageSize)
                 /\ b.size = Base(b.size \div PageSize)

\* The areas O of the callers are chunks in use or big allocations, each
\* another one, and the metadata of the big allocations are chunks in use of
\* which no caller knows.
AreasOK(h, O) ==
  /\ BlocksOK(h.blocks)
  /\ \A i \in DOMAIN h.bigs : /\ WholePages(h.bigs[i])
                              /\ Chunk(h.blocks, h.bigs[i].meta, MetaSize)
  /\ \A i, j \in DOMAIN h.bigs : h.bigs[i].meta = h.bigs[j].meta => i = j
  /\ \A o \in O : /\ o = [ptr |-> o.ptr, size |-> o.size]
                  /\ o.ptr \in Nat /\ o.size \in Nat /\ o.size > 0
                  /\ Area(h, o.ptr, o.size)
                  /\ \A p \in O : o.ptr = p.ptr => o = p
                  /\ \A i \in DOMAIN h.bigs : o.ptr # h.bigs[i].meta

\* The first page of a big allocation.
LEMMA FirstOfBig ==
  ASSUME NEW h, NEW Q, HeapOK(h, Q), NEW i \in DOMAIN h.bigs
  PROVE  h.bigs[i].ptr \div PageSize \in BigPages(h.bigs[i])
<1> DEFINE b == h.bigs[i]
           f == b.ptr \div PageSize
           n == b.size \div PageSize
<1>1. f \in Nat /\ n \in Nat /\ n > 0 /\ BigPages(b) = Run(f, n)
  BY DEF HeapOK, BigOK
<1> HIDE DEF b, f, n
<1>2. f \in Run(f, n)
  BY <1>1 DEF Run
<1> QED
  BY <1>1, <1>2 DEF b, f

\* The page of a chunk.
LEMMA PageOfChunk ==
  ASSUME NEW s, BlocksOK(s), NEW i \in DOMAIN s, NEW c \in s[i].used,
         NEW a \in Int, ChunkAt(s[i], c) <= a, a < ChunkAt(s[i], c) + s[i].elt_size
  PROVE  a \div PageSize = s[i].page
<1> DEFINE b == s[i]
           p == ChunkAt(b, c)
<1>1. b \in BlockRecs /\ BlockOK(b) /\ c \in 0..(b.tot_elts - 1)
  BY DEF BlocksOK, BlockOK
<1>2. /\ p \in Nat /\ Base(b.page) + HeaderSize + b.tot_elts <= p
      /\ p + b.elt_size <= Base(b.page) + PageSize
      /\ Base(b.page) \in Nat /\ b.elt_size \in Nat /\ b.tot_elts \in Nat /\ b.page \in Nat
  BY <1>1, ChunkPlace
<1>3. p <= a /\ a < p + b.elt_size
  OBVIOUS
<1> HIDE DEF b, p
<1>4. Base(b.page) <= a /\ a < Base(b.page) + PageSize
  BY <1>2, <1>3, HeapSizes
<1>5. a \div PageSize = b.page
  BY <1>2, <1>4, PageOfAddress
<1> QED
  BY <1>5 DEF b

\* No chunk is at the address of a big allocation.
LEMMA ChunkIsNoBig ==
  ASSUME NEW h, NEW Q, HeapOK(h, Q), BlocksOK(h.blocks), NEW p, NEW n,
         Chunk(h.blocks, p, n), NEW i \in DOMAIN h.bigs
  PROVE  h.bigs[i].ptr # p
<1> DEFINE s == h.blocks
<1>1. PICK j \in DOMAIN s : \E c \in s[j].used : p = ChunkAt(s[j], c) /\ n <= s[j].elt_size
  BY DEF Chunk
<1>2. PICK c \in s[j].used : p = ChunkAt(s[j], c)
  BY <1>1
<1>3. p \div PageSize = s[j].page
  <2>1. p \in Nat /\ s[j].elt_size \in Nat /\ s[j].elt_size > 0
    <3>1. s[j] \in BlockRecs /\ BlockOK(s[j]) /\ c \in 0..(s[j].tot_elts - 1)
      BY DEF BlocksOK, BlockOK
    <3>2. ChunkAt(s[j], c) \in Nat /\ s[j].elt_size \in Nat
      BY <3>1, ChunkPlace
    <3> QED
      BY <1>2, <3>1, <3>2 DEF BlockOK
  <2>2. p \in Int /\ ChunkAt(s[j], c) <= p /\ p < ChunkAt(s[j], c) + s[j].elt_size
    BY <1>2, <2>1
  <2> QED
    BY <2>2, PageOfChunk
<1>4. p \div PageSize \in PagesOfBlocks(h)
  BY <1>3 DEF PagesOfBlocks
<1>5. h.bigs[i].ptr \div PageSize \in PagesOfBigs(h)
  BY FirstOfBig DEF PagesOfBigs
<1> QED
  BY <1>4, <1>5 DEF HeapOK, Distinct

\* No two big allocations have the same address.
LEMMA BigsDiffer ==
  ASSUME NEW h, NEW Q, HeapOK(h, Q), NEW i \in DOMAIN h.bigs, NEW j \in DOMAIN h.bigs,
         h.bigs[i].ptr = h.bigs[j].ptr
  PROVE  i = j
<1>1. h.bigs[i].ptr \div PageSize \in BigPages(h.bigs[i]) \cap BigPages(h.bigs[j])
  BY FirstOfBig
<1> QED
  BY <1>1 DEF HeapOK, Distinct

\* A chunk is handed out: the areas stay areas, and none is at its address.
LEMMA ChunkIsNew ==
  ASSUME NEW h, NEW O, AreasOK(h, O), NEW h2, NEW Q, HeapOK(h2, Q), h2.bigs = h.bigs,
         NEW p, NEW e, HandsOut(h.blocks, h2.blocks, p, e)
  PROVE  /\ AreasOK(h2, O)
         /\ \A o \in O : o.ptr # p
         /\ \A i \in DOMAIN h.bigs : h.bigs[i].meta # p /\ h.bigs[i].ptr # p
<1>1. BlocksOK(h2.blocks) /\ Chunk(h2.blocks, p, e)
  BY DEF HandsOut
<1>2. ASSUME NEW i \in DOMAIN h.bigs
      PROVE  /\ Chunk(h2.blocks, h.bigs[i].meta, MetaSize)
             /\ h.bigs[i].meta # p /\ h.bigs[i].ptr # p
  <2>1. Chunk(h.blocks, h.bigs[i].meta, MetaSize)
    BY DEF AreasOK
  <2>2. h2.bigs[i].ptr # p
    BY <1>1, ChunkIsNoBig
  <2> QED
    BY <2>1, <2>2 DEF HandsOut
<1>3. ASSUME NEW o \in O PROVE Area(h2, o.ptr, o.size) /\ o.ptr # p
  <2>1. CASE Chunk(h.blocks, o.ptr, o.size)
    BY <2>1 DEF HandsOut, Area
  <2>2. CASE BigArea(h.bigs, o.ptr, o.size)
    BY <1>2, <2>2 DEF BigArea, Area
  <2> QED
    BY <2>1, <2>2 DEF AreasOK, Area
<1>4. AreasOK(h2, O)
  BY <1>1, <1>2, <1>3 DEF AreasOK
<1> QED
  BY <1>2, <1>3, <1>4

\* An area at an address no caller knows is added.
LEMMA AddArea ==
  ASSUME NEW h, NEW O, AreasOK(h, O), NEW p \in Nat, NEW n \in Nat, n > 0, Area(h, p, n),
         \A o \in O : o.ptr # p, \A i \in DOMAIN h.bigs : h.bigs[i].meta # p
  PROVE  AreasOK(h, O \cup {[ptr |-> p, size |-> n]})
<1> DEFINE x == [ptr |-> p, size |-> n]
<1>1. x.ptr = p /\ x.size = n /\ x = [ptr |-> x.ptr, size |-> x.size]
  OBVIOUS
<1> HIDE DEF x
<1>2. ASSUME NEW o \in O \cup {x}
      PROVE  /\ o = [ptr |-> o.ptr, size |-> o.size]
             /\ o.ptr \in Nat /\ o.size \in Nat /\ o.size > 0
             /\ Area(h, o.ptr, o.size)
             /\ \A q \in O \cup {x} : o.ptr = q.ptr => o = q
             /\ \A i \in DOMAIN h.bigs : o.ptr # h.bigs[i].meta
  <2>1. CASE o \in O
    BY <1>1, <2>1 DEF AreasOK
  <2>2. CASE o = x
    BY <1>1, <2>2
  <2> QED
    BY <2>1, <2>2
<1>3. AreasOK(h, O \cup {x})
  BY <1>2 DEF AreasOK
<1> QED
  BY <1>3 DEF x

\* A big allocation is added, with its metadata in a chunk no area is at.
LEMMA AddBigArea ==
  ASSUME NEW h, NEW O, AreasOK(h, O), NEW h2, h2.blocks = h.blocks,
         NEW b, Front(b, h.bigs, h2.bigs), WholePages(b),
         Chunk(h.blocks, b.meta, MetaSize),
         \A o \in O : o.ptr # b.meta, \A i \in DOMAIN h.bigs : h.bigs[i].meta # b.meta
  PROVE  AreasOK(h2, O)
<1> DEFINE t == h2.bigs
           s == h.bigs
<1>1. /\ 1 \in DOMAIN t /\ t[1] = b
      /\ \A j \in DOMAIN t :
           /\ j \in Int
           /\ j = 1 \/ (j - 1 \in DOMAIN s /\ t[j] = s[j - 1])
      /\ \A i \in DOMAIN s : i + 1 \in DOMAIN t /\ t[i + 1] = s[i]
  <2>1. t[1] = b /\ \A j \in DOMAIN t : j \in Int
    BY DEF Front
  <2> HIDE DEF s, t
  <2>2. Front(b, s, t)
    BY DEF s, t
  <2> QED
    BY <2>1, <2>2, FrontEntries
<1>2. ASSUME NEW j \in DOMAIN t
      PROVE  WholePages(t[j]) /\ Chunk(h2.blocks, t[j].meta, MetaSize)
  <2>1. CASE j = 1
    BY <1>1, <2>1
  <2>2. CASE j # 1
    BY <1>1, <2>2 DEF AreasOK
  <2> QED
    BY <2>1, <2>2
<1>3. ASSUME NEW i \in DOMAIN t, NEW j \in DOMAIN t, t[i].meta = t[j].meta PROVE i = j
  <2>1. CASE i = 1 \/ j = 1
    BY <1>1, <1>3, <2>1
  <2>2. CASE i # 1 /\ j # 1
    <3>1. i - 1 = j - 1
      BY <1>1, <1>3, <2>2 DEF AreasOK
    <3> QED
      BY <1>1, <3>1
  <2> QED
    BY <2>1, <2>2
<1>4. ASSUME NEW o \in O
      PROVE  Area(h2, o.ptr, o.size) /\ \A j \in DOMAIN t : o.ptr # t[j].meta
  <2>1. ASSUME NEW j \in DOMAIN t PROVE o.ptr # t[j].meta
    <3>1. CASE j = 1
      BY <1>1, <3>1
    <3>2. CASE j # 1
      BY <1>1, <3>2 DEF AreasOK
    <3> QED
      BY <3>1, <3>2
  <2>2. CASE Chunk(h.blocks, o.ptr, o.size)
    BY <2>1, <2>2 DEF Area
  <2>3. CASE BigArea(h.bigs, o.ptr, o.size)
    <3>1. PICK i \in DOMAIN s : o.ptr = s[i].ptr /\ o.size <= s[i].size
      BY <2>3 DEF BigArea
    <3>2. BigArea(t, o.ptr, o.size)
      BY <1>1, <3>1 DEF BigArea
    <3> QED
      BY <2>1, <3>2 DEF Area
  <2> QED
    BY <2>2, <2>3 DEF AreasOK, Area
<1> QED
  BY <1>2, <1>3, <1>4 DEF AreasOK

LEMMA SmallerChunk ==
  ASSUME NEW s, BlocksOK(s), NEW p, NEW e \in Nat, Chunk(s, p, e), NEW n \in Nat, n <= e
  PROVE  Chunk(s, p, n)
<1>1. PICK i \in DOMAIN s : \E c \in s[i].used : p = ChunkAt(s[i], c) /\ e <= s[i].elt_size
  BY DEF Chunk
<1>2. s[i].elt_size \in Nat
  <2>1. s[i] \in BlockRecs
    BY DEF BlocksOK
  <2> QED
    BY <2>1 DEF BlockRecs
<1>3. e <= s[i].elt_size
  BY <1>1
<1>4. n <= s[i].elt_size
  BY <1>2, <1>3
<1> QED
  BY <1>1, <1>4 DEF Chunk

\* A kmalloc() that succeeds returns an area of the size asked for, where the
\* callers have none.
LEMMA KmallocAreas ==
  ASSUME SizesFit, NEW h, HeapOK(h, {}), NEW O, AreasOK(h, O), NEW size \in Sizes,
         NEW r, r = Kmalloc(h, size), ~ r.heap.panicked, r.ret # NULL
  PROVE  AreasOK(r.heap, O \cup {[ptr |-> r.ret, size |-> size]})
<1> DEFINE e == Rounded(size)
<1>1. /\ size \in Nat /\ e \in Nat /\ e >= size /\ e > 0
      /\ e >= PageSize => e = Base(e \div PageSize)
  BY RoundedRequest
<1>2. size > 0
  BY <1>1 DEF Kmalloc
<1>3. HeapOK(r.heap, {}) /\ BlocksOK(h.blocks)
  BY KmallocKeeps DEF AreasOK
<1> HIDE DEF e
<1>4. CASE ~ (e >= PageSize)
  <2>1. r = SmallAlloc(h, e)
    BY <1>2, <1>4 DEF Kmalloc, e
  <2>2. HandsOut(h.blocks, r.heap.blocks, r.ret, e)
    BY <1>1, <1>3, <2>1, SmallAllocHandsOut
  <2>3. r.heap.bigs = h.bigs /\ r.ret \in Nat
    BY <1>1, <2>1, SmallAllocKeeps
  <2>4. /\ AreasOK(r.heap, O) /\ \A o \in O : o.ptr # r.ret
        /\ \A i \in DOMAIN h.bigs : h.bigs[i].meta # r.ret
    BY <1>3, <2>2, <2>3, ChunkIsNew
  <2>5. Area(r.heap, r.ret, size)
    <3>1. BlocksOK(r.heap.blocks) /\ Chunk(r.heap.blocks, r.ret, e)
      BY <2>2 DEF HandsOut
    <3>2. Chunk(r.heap.blocks, r.ret, size)
      BY <1>1, <3>1, SmallerChunk
    <3> QED
      BY <3>2 DEF Area
  <2> QED
    BY <1>1, <1>2, <2>3, <2>4, <2>5, AddArea
<1>5. CASE e >= PageSize
  <2>1. r = big_alloc(h, e)
    BY <1>2, <1>5 DEF Kmalloc, e
  <2>2. \E f \in RamFrames : \E m, g : AddsBig(h, e, f, m, g, r)
    BY <1>1, <2>1, BigAllocKeeps
  <2>3. PICK f \in RamFrames : \E m, g : AddsBig(h, e, f, m, g, r)
    BY <2>2
  <2>4. PICK m, g : AddsBig(h, e, f, m, g, r)
    BY <2>3
  <2> DEFINE n == e \div PageSize
             b == [ptr |-> Base(f), size |-> e, meta |-> g.ret]
  <2>5. /\ HeapOK(m, Run(f, n)) /\ m.blocks = h.blocks /\ m.bigs = h.bigs
        /\ g = SmallAlloc(m, Rounded(MetaSize)) /\ ~ g.heap.panicked
        /\ g.ret \in Nat /\ g.ret # NULL
        /\ r.ret = Base(f) /\ r.heap.blocks = g.heap.blocks
        /\ Front(b, h.bigs, r.heap.bigs)
    BY <2>4 DEF AddsBig
  <2>6. b.ptr = Base(f) /\ b.size = e /\ b.meta = g.ret
    OBVIOUS
  <2> HIDE DEF n, b
  <2>7. HeapOK(g.heap, Run(f, n)) /\ g.heap.bigs = h.bigs
    BY <2>5, RoundedMeta, SmallAllocKeeps
  <2>8. HandsOut(h.blocks, g.heap.blocks, g.ret, Rounded(MetaSize))
    <3>1. BlocksOK(m.blocks)
      BY <1>3, <2>5
    <3>2. HandsOut(m.blocks, g.heap.blocks, g.ret, Rounded(MetaSize))
      BY <2>5, <3>1, RoundedMeta, SmallAllocHandsOut
    <3> QED
      BY <2>5, <3>2
  <2>9. /\ AreasOK(g.heap, O) /\ \A o \in O : o.ptr # g.ret
        /\ \A i \in DOMAIN h.bigs : h.bigs[i].meta # g.ret
    BY <2>7, <2>8, ChunkIsNew
  <2>10. Chunk(g.heap.blocks, b.meta, MetaSize)
    <3>1. BlocksOK(g.heap.blocks) /\ Chunk(g.heap.blocks, g.ret, Rounded(MetaSize))
      BY <2>8 DEF HandsOut
    <3> QED
      BY <2>6, <3>1, RoundedMeta, WordSizes, SmallerChunk
  <2>11. f \in Nat /\ Base(f) \in Nat /\ Base(f) \div PageSize = f
    BY <1>1, RamMappable, PagesOfNewBig
  <2>12. WholePages(b)
    BY <1>1, <1>5, <2>6, <2>11 DEF WholePages
  <2>13. AreasOK(r.heap, O)
    BY <2>5, <2>6, <2>7, <2>9, <2>10, <2>12, AddBigArea
  <2>14. 1 \in DOMAIN r.heap.bigs /\ r.heap.bigs[1] = b
    BY <2>5, FrontEntries DEF Front
  <2>15. Area(r.heap, r.ret, size)
    <3>1. r.ret = r.heap.bigs[1].ptr /\ size <= r.heap.bigs[1].size
      BY <1>1, <2>5, <2>6, <2>14
    <3> QED
      BY <2>14, <3>1 DEF Area, BigArea
  <2>16. BlocksOK(r.heap.blocks)
    BY <2>13 DEF AreasOK
  <2>17. ASSUME NEW i \in DOMAIN r.heap.bigs PROVE r.heap.bigs[i].meta # r.ret
    <3>1. Chunk(r.heap.blocks, r.heap.bigs[i].meta, MetaSize)
      BY <2>13 DEF AreasOK
    <3>2. r.heap.bigs[1].ptr # r.heap.bigs[i].meta
      BY <1>3, <2>14, <2>16, <3>1, ChunkIsNoBig
    <3> QED
      BY <2>5, <2>6, <2>14, <3>2
  <2>18. ASSUME NEW o \in O PROVE o.ptr # r.ret
    <3>1. CASE Chunk(h.blocks, o.ptr, o.size)
      <4>1. Chunk(r.heap.blocks, o.ptr, o.size)
        BY <2>5, <2>8, <3>1 DEF HandsOut
      <4>2. r.heap.bigs[1].ptr # o.ptr
        BY <1>3, <2>14, <2>16, <4>1, ChunkIsNoBig
      <4> QED
        BY <2>5, <2>6, <2>14, <4>2
    <3>2. CASE BigArea(h.bigs, o.ptr, o.size)
      <4>1. PICK i \in DOMAIN h.bigs : o.ptr = h.bigs[i].ptr
        BY <3>2 DEF BigArea
      <4>2. i + 1 \in DOMAIN r.heap.bigs /\ r.heap.bigs[i + 1] = h.bigs[i] /\ i + 1 # 1
        BY <2>5, FrontEntries DEF Front
      <4>3. r.heap.bigs[i + 1].ptr # r.heap.bigs[1].ptr
        BY <1>3, <2>14, <4>2, BigsDiffer
      <4> QED
        BY <2>5, <2>6, <2>14, <4>1, <4>2, <4>3
    <3> QED
      BY <3>1, <3>2 DEF AreasOK, Area
  <2>19. r.ret \in Nat
    BY <2>5, <2>11
  <2> QED
    BY <1>1, <1>2, <2>13, <2>15, <2>17, <2>18, <2>19, AddArea
<1> QED
  BY <1>4, <1>5

\* A chunk is freed that holds no metadata: the areas at other addresses stay.
LEMMA FreeChunkAreas ==
  ASSUME NEW h, NEW Q, HeapOK(h, Q), NEW O, AreasOK(h, O),
         NEW ptr, \A i \in DOMAIN h.bigs : h.bigs[i].meta # ptr, HasHostBlock(h, ptr),
         NEW h2, h2 = FreeChunk(h, ptr), ~ h2.panicked
  PROVE  AreasOK(h2, {o \in O : o.ptr # ptr})
<1>1. /\ BlocksOK(h2.blocks) /\ h2.bigs = h.bigs
      /\ \A q, n : Chunk(h.blocks, q, n) /\ q # ptr => Chunk(h2.blocks, q, n)
  <2>1. BlocksOK(h.blocks)
    BY DEF AreasOK
  <2> QED
    BY <2>1, FreeChunkFrees
<1>2. ASSUME NEW o \in O, o.ptr # ptr PROVE Area(h2, o.ptr, o.size)
  <2>1. Area(h, o.ptr, o.size)
    BY DEF AreasOK
  <2> QED
    BY <1>1, <1>2, <2>1 DEF Area
<1>3. ASSUME NEW i \in DOMAIN h2.bigs PROVE Chunk(h2.blocks, h2.bigs[i].meta, MetaSize)
  <2>1. Chunk(h.blocks, h.bigs[i].meta, MetaSize) /\ h.bigs[i].meta # ptr
    BY <1>1 DEF AreasOK
  <2> QED
    BY <1>1, <2>1
<1> QED
  BY <1>1, <1>2, <1>3 DEF AreasOK

\* A big allocation is removed: the areas at other addresses stay.
LEMMA BigFreeAreas ==
  ASSUME NEW h, HeapOK(h, {}), NEW O, AreasOK(h, O), NEW i \in DOMAIN h.bigs,
         NEW h2, h2 = big_free(h, i), ~ h2.panicked
  PROVE  AreasOK(h2, {o \in O : o.ptr # h.bigs[i].ptr})
<1> DEFINE P == {o \in O : o.ptr # h.bigs[i].ptr}
           meta == h.bigs[i].meta
<1>1. PICK out : DropsBig(h, i, out, h2)
  BY BigFreeKeeps
<1>2. /\ HeapOK(out, {}) /\ out.blocks = h.blocks
      /\ HasHostBlock(out, meta) /\ h2 = FreeChunk(out, meta)
      /\ Without(h.bigs, i, out.bigs)
  BY <1>1 DEF DropsBig
<1> DEFINE t == out.bigs
           s == h.bigs
<1>3. /\ \A j \in DOMAIN t : Place(i, j) \in DOMAIN s \ {i} /\ t[j] = s[Place(i, j)]
      /\ \A j, k \in DOMAIN t : Place(i, j) = Place(i, k) => j = k
      /\ \A k \in DOMAIN s \ {i} : \E j \in DOMAIN t : t[j] = s[k]
  BY <1>2, WithoutEntries
<1> HIDE DEF meta
<1>4. ASSUME NEW j \in DOMAIN t
      PROVE  /\ WholePages(t[j]) /\ Chunk(out.blocks, t[j].meta, MetaSize)
             /\ t[j].meta # meta
             /\ \A o \in O : o.ptr # t[j].meta
  <2>1. Place(i, j) \in DOMAIN s /\ Place(i, j) # i /\ t[j] = s[Place(i, j)]
    BY <1>3
  <2> QED
    BY <1>2, <2>1 DEF AreasOK, meta
<1>5. ASSUME NEW j \in DOMAIN t, NEW k \in DOMAIN t, t[j].meta = t[k].meta PROVE j = k
  BY <1>3, <1>5 DEF AreasOK
<1>6. ASSUME NEW o \in P PROVE Area(out, o.ptr, o.size) /\ o.ptr # meta
  <2>1. o \in O /\ o.ptr # h.bigs[i].ptr /\ o.ptr # meta
    BY DEF AreasOK, meta
  <2>2. CASE Chunk(h.blocks, o.ptr, o.size)
    BY <1>2, <2>1, <2>2 DEF Area
  <2>3. CASE BigArea(h.bigs, o.ptr, o.size)
    <3>1. PICK k \in DOMAIN s : o.ptr = s[k].ptr /\ o.size <= s[k].size
      BY <2>3 DEF BigArea
    <3>2. PICK j \in DOMAIN t : t[j] = s[k]
      BY <1>3, <2>1, <3>1
    <3> QED
      BY <2>1, <3>1, <3>2 DEF Area, BigArea
  <2> QED
    BY <2>1, <2>2, <2>3 DEF AreasOK, Area
<1>7. AreasOK(out, P)
  BY <1>2, <1>4, <1>5, <1>6 DEF AreasOK
<1>8. AreasOK(h2, {o \in P : o.ptr # meta})
  <2> HIDE DEF P
  <2> QED
    BY <1>2, <1>4, <1>7, FreeChunkAreas
<1>9. {o \in P : o.ptr # meta} = P
  BY <1>6
<1> QED
  BY <1>8, <1>9

\* Where the bytes of an area are: on pages of the heap, behind the header and
\* the chunkmap of a block or in a big allocation.
InChunk(h, a, i, c) ==
  /\ i \in DOMAIN h.blocks /\ c \in h.blocks[i].used
  /\ ChunkAt(h.blocks[i], c) <= a /\ a < ChunkAt(h.blocks[i], c) + h.blocks[i].elt_size

InBig(h, a, i) == i \in DOMAIN h.bigs /\ a \div PageSize \in BigPages(h.bigs[i])

LEMMA BytesOfChunk ==
  ASSUME NEW s, BlocksOK(s), NEW p, NEW n \in Nat, Chunk(s, p, n)
  PROVE  \E i \in DOMAIN s : \E c \in s[i].used :
           /\ p = ChunkAt(s[i], c) /\ p \in Nat
           /\ \A a \in p..(p + n - 1) : a \in Int /\ a < p + s[i].elt_size /\ p <= a
<1>1. PICK i \in DOMAIN s : \E c \in s[i].used : p = ChunkAt(s[i], c) /\ n <= s[i].elt_size
  BY DEF Chunk
<1>2. PICK c \in s[i].used : p = ChunkAt(s[i], c) /\ n <= s[i].elt_size
  BY <1>1
<1>3. s[i] \in BlockRecs /\ BlockOK(s[i]) /\ c \in 0..(s[i].tot_elts - 1)
  BY DEF BlocksOK, BlockOK
<1>4. p \in Nat /\ s[i].elt_size \in Nat
  BY <1>2, <1>3, ChunkPlace
<1> DEFINE e == s[i].elt_size
<1>5. e \in Nat /\ n <= e
  BY <1>2, <1>4
<1> HIDE DEF e
<1>6. ASSUME NEW a \in p..(p + n - 1) PROVE a \in Int /\ a < p + e /\ p <= a
  BY <1>4, <1>5
<1> QED
  BY <1>2, <1>4, <1>6 DEF e

LEMMA ProductOrder ==
  ASSUME NEW x \in Nat, NEW y \in Nat, NEW d \in Nat, x * d < y * d
  PROVE  x < y
<1>1. CASE y <= x
  <2> DEFINE k == x - y
  <2>1. k \in Nat /\ x = y + k
    BY <1>1
  <2> HIDE DEF k
  <2>2. (y + k) * d = y * d + k * d /\ y * d \in Nat /\ k * d \in Nat
    BY <2>1
  <2>3. x * d = y * d + k * d
    BY <2>1, <2>2
  <2> QED
    BY <2>2, <2>3
<1> QED
  BY <1>1

LEMMA BytesOfBig ==
  ASSUME NEW h, NEW Q, HeapOK(h, Q), NEW i \in DOMAIN h.bigs, WholePages(h.bigs[i]),
         NEW n \in Nat, n <= h.bigs[i].size,
         NEW a \in h.bigs[i].ptr..(h.bigs[i].ptr + n - 1)
  PROVE  a \div PageSize \in BigPages(h.bigs[i])
<1> DEFINE b == h.bigs[i]
           f == b.ptr \div PageSize
           k == b.size \div PageSize
           g == a \div PageSize
<1>1. f \in Nat /\ k \in Nat /\ BigPages(b) = Run(f, k)
  BY DEF HeapOK, BigOK
<1>2. b.ptr \in Nat /\ b.size \in Nat
  <2>1. b \in BigRecs
    BY DEF HeapOK
  <2> QED
    BY <2>1 DEF BigRecs
<1>3. b.ptr = f * PageSize /\ b.size = k * PageSize
  BY DEF WholePages, Base
<1>4. a \in b.ptr..(b.ptr + n - 1) /\ n <= b.size
  OBVIOUS
<1> HIDE DEF b, f, k
<1>5. a \in Nat /\ b.ptr <= a /\ a < b.ptr + b.size
  BY <1>2, <1>4
<1>6. g \in Nat /\ g * PageSize \in Nat /\ g * PageSize <= a /\ a < g * PageSize + PageSize
  BY <1>5, HeapSizes, DivideUp
<1> HIDE DEF g
<1>7. f <= g
  <2>1. f * PageSize < (g + 1) * PageSize
    BY <1>1, <1>2, <1>3, <1>5, <1>6, HeapSizes
  <2>2. f < g + 1
    BY <1>1, <1>6, <2>1, HeapSizes, ProductOrder
  <2> QED
    BY <1>1, <1>6, <2>2
<1>8. g < f + k
  <2>1. f * PageSize \in Nat /\ k * PageSize \in Nat
        /\ (f + k) * PageSize = f * PageSize + k * PageSize
    BY <1>1, HeapSizes
  <2>2. g * PageSize < (f + k) * PageSize
    BY <1>2, <1>3, <1>5, <1>6, <2>1
  <2> QED
    BY <1>1, <1>6, <2>2, HeapSizes, ProductOrder
<1>9. g \in Run(f, k)
  BY <1>1, <1>6, <1>7, <1>8 DEF Run
<1> QED
  BY <1>1, <1>9 DEF b, g

\* Where a byte of an area is.
LEMMA ByteOfArea ==
  ASSUME NEW h, NEW Q, HeapOK(h, Q), BlocksOK(h.blocks),
         \A i \in DOMAIN h.bigs : WholePages(h.bigs[i]),
         NEW p, NEW n \in Nat, Area(h, p, n), NEW a \in p..(p + n - 1)
  PROVE  \/ \E i, c : InChunk(h, a, i, c) /\ p = ChunkAt(h.blocks[i], c) /\ a \in Int
         \/ \E i : InBig(h, a, i) /\ p = h.bigs[i].ptr
<1>1. CASE Chunk(h.blocks, p, n)
  <2> DEFINE s == h.blocks
  <2>1. PICK i \in DOMAIN s : \E c \in s[i].used :
           /\ p = ChunkAt(s[i], c) /\ p \in Nat
           /\ \A x \in p..(p + n - 1) : x \in Int /\ x < p + s[i].elt_size /\ p <= x
    BY <1>1, BytesOfChunk
  <2>2. PICK c \in s[i].used :
           /\ p = ChunkAt(s[i], c) /\ p \in Nat
           /\ \A x \in p..(p + n - 1) : x \in Int /\ x < p + s[i].elt_size /\ p <= x
    BY <2>1
  <2>3. InChunk(h, a, i, c) /\ p = ChunkAt(h.blocks[i], c) /\ a \in Int
    BY <2>2 DEF InChunk
  <2> QED
    BY <2>3
<1>2. CASE BigArea(h.bigs, p, n)
  <2>1. PICK i \in DOMAIN h.bigs : p = h.bigs[i].ptr /\ n <= h.bigs[i].size
    BY <1>2 DEF BigArea
  <2>2. a \div PageSize \in BigPages(h.bigs[i])
    BY <2>1, BytesOfBig
  <2> QED
    BY <2>1, <2>2 DEF InBig
<1> QED
  BY <1>1, <1>2 DEF Area

LEMMA PageOfByte ==
  ASSUME NEW h, NEW Q, HeapOK(h, Q), BlocksOK(h.blocks), NEW a \in Int, NEW i, NEW c,
         InChunk(h, a, i, c)
  PROVE  a \div PageSize = h.blocks[i].page /\ a \div PageSize \in PagesOfBlocks(h)
<1>1. a \div PageSize = h.blocks[i].page
  BY PageOfChunk DEF InChunk
<1> QED
  BY <1>1 DEF PagesOfBlocks, InChunk

\* Areas that share a byte start at the same address.
LEMMA SharedByte ==
  ASSUME NEW h, NEW Q, HeapOK(h, Q), BlocksOK(h.blocks),
         \A i \in DOMAIN h.bigs : WholePages(h.bigs[i]),
         NEW p, NEW n \in Nat, Area(h, p, n), NEW q, NEW m \in Nat, Area(h, q, m),
         NEW a, a \in p..(p + n - 1), a \in q..(q + m - 1)
  PROVE  p = q
<1>0. /\ \A i, j \in DOMAIN h.blocks : h.blocks[i].page = h.blocks[j].page => i = j
      /\ \A i, j \in DOMAIN h.bigs : i # j => BigPages(h.bigs[i]) \cap BigPages(h.bigs[j]) = {}
      /\ PagesOfBlocks(h) \cap PagesOfBigs(h) = {}
  BY DEF HeapOK, Distinct
<1>1. \/ \E i, c : InChunk(h, a, i, c) /\ p = ChunkAt(h.blocks[i], c) /\ a \in Int
      \/ \E i : InBig(h, a, i) /\ p = h.bigs[i].ptr
  BY ByteOfArea
<1>2. \/ \E i, c : InChunk(h, a, i, c) /\ q = ChunkAt(h.blocks[i], c) /\ a \in Int
      \/ \E i : InBig(h, a, i) /\ q = h.bigs[i].ptr
  BY ByteOfArea
<1>3. \A i, c : InChunk(h, a, i, c) /\ a \in Int =>
        /\ a \div PageSize = h.blocks[i].page /\ a \div PageSize \in PagesOfBlocks(h)
        /\ i \in DOMAIN h.blocks
  BY PageOfByte DEF InChunk
<1>4. \A i : InBig(h, a, i) => a \div PageSize \in PagesOfBigs(h)
  BY DEF InBig, PagesOfBigs
<1>5. CASE /\ \E i, c : InChunk(h, a, i, c) /\ p = ChunkAt(h.blocks[i], c) /\ a \in Int
           /\ \E i, c : InChunk(h, a, i, c) /\ q = ChunkAt(h.blocks[i], c) /\ a \in Int
  <2>1. PICK i, c : InChunk(h, a, i, c) /\ p = ChunkAt(h.blocks[i], c) /\ a \in Int
    BY <1>5
  <2>2. PICK j, d : InChunk(h, a, j, d) /\ q = ChunkAt(h.blocks[j], d)
    BY <1>5
  <2>3. i = j
    BY <1>0, <1>3, <2>1, <2>2
  <2> DEFINE b == h.blocks[i]
  <2>4. /\ b \in BlockRecs /\ BlockOK(b)
        /\ c \in 0..(b.tot_elts - 1) /\ d \in 0..(b.tot_elts - 1)
    BY <2>1, <2>2, <2>3 DEF BlocksOK, BlockOK, InChunk
  <2>5. /\ ChunkAt(b, c) <= a /\ a < ChunkAt(b, c) + b.elt_size
        /\ ChunkAt(b, d) <= a /\ a < ChunkAt(b, d) + b.elt_size
    BY <2>1, <2>2, <2>3 DEF InChunk
  <2>6. /\ ChunkAt(b, c) \in Nat /\ ChunkAt(b, d) \in Nat /\ b.elt_size \in Nat
        /\ c \in Nat /\ d \in Nat
    BY <2>4, ChunkPlace
  <2> HIDE DEF b
  <2>7. ~ (c < d)
    <3>1. ASSUME c < d PROVE FALSE
      <4>1. ChunkAt(b, c) + b.elt_size <= ChunkAt(b, d)
        BY <2>4, <2>6, <3>1, ChunksApart
      <4> QED
        BY <2>1, <2>5, <2>6, <4>1
    <3> QED
      BY <3>1
  <2>8. ~ (d < c)
    <3>1. ASSUME d < c PROVE FALSE
      <4>1. ChunkAt(b, d) + b.elt_size <= ChunkAt(b, c)
        BY <2>4, <2>6, <3>1, ChunksApart
      <4> QED
        BY <2>1, <2>5, <2>6, <4>1
    <3> QED
      BY <3>1
  <2>9. c = d
    BY <2>6, <2>7, <2>8
  <2> QED
    BY <2>1, <2>2, <2>3, <2>9
<1>6. CASE /\ \E i : InBig(h, a, i) /\ p = h.bigs[i].ptr
           /\ \E i : InBig(h, a, i) /\ q = h.bigs[i].ptr
  BY <1>0, <1>6 DEF InBig
<1> QED
  BY <1>0, <1>1, <1>2, <1>3, <1>4, <1>5, <1>6

\* No area reaches into the header or the chunkmap of a block.
LEMMA HeaderIsFree ==
  ASSUME NEW h, NEW Q, HeapOK(h, Q), BlocksOK(h.blocks),
         \A i \in DOMAIN h.bigs : WholePages(h.bigs[i]),
         NEW p, NEW n \in Nat, Area(h, p, n), NEW j \in DOMAIN h.blocks,
         NEW a, a \in p..(p + n - 1), a \in BlockHeader(h.blocks[j])
  PROVE  FALSE
<1>0. /\ \A i, k \in DOMAIN h.blocks : h.blocks[i].page = h.blocks[k].page => i = k
      /\ PagesOfBlocks(h) \cap PagesOfBigs(h) = {}
  BY DEF HeapOK, Distinct
<1>1. \/ \E i, c : InChunk(h, a, i, c) /\ p = ChunkAt(h.blocks[i], c) /\ a \in Int
      \/ \E i : InBig(h, a, i) /\ p = h.bigs[i].ptr
  BY ByteOfArea
<1> DEFINE b == h.blocks[j]
           B == Base(b.page)
<1>2. b \in BlockRecs /\ BlockOK(b)
  BY DEF BlocksOK
<1>3. /\ b.page \in Nat /\ b.tot_elts \in Nat /\ b.first_ptr \in Nat /\ b.elt_size \in Nat
      /\ B \in Nat
  <2>1. b.page \in Nat /\ b.tot_elts \in Nat /\ b.first_ptr \in Nat /\ b.elt_size \in Nat
    BY <1>2 DEF BlockRecs
  <2> HIDE DEF b
  <2>2. B \in Nat
    BY <2>1, HeapSizes DEF Base
  <2> QED
    BY <2>1, <2>2
<1>4. B + HeaderSize + b.tot_elts <= b.first_ptr
      /\ b.first_ptr + b.tot_elts * b.elt_size <= B + PageSize
  BY <1>2 DEF BlockOK
<1>5. a \in B..(B + HeaderSize + b.tot_elts - 1)
  BY DEF BlockHeader
<1> HIDE DEF B, b
<1>6. b.tot_elts * b.elt_size \in Nat
  BY <1>3
<1>7. a \in Int /\ B <= a /\ a < B + HeaderSize + b.tot_elts /\ a < B + PageSize
  BY <1>3, <1>4, <1>5, <1>6, HeapSizes
<1>8. a \div PageSize = b.page
  BY <1>3, <1>7, PageOfAddress DEF B
<1>9. CASE \E i : InBig(h, a, i) /\ p = h.bigs[i].ptr
  BY <1>0, <1>8, <1>9 DEF InBig, PagesOfBigs, PagesOfBlocks, b
<1>10. CASE \E i, c : InChunk(h, a, i, c) /\ p = ChunkAt(h.blocks[i], c) /\ a \in Int
  <2>1. PICK i, c : InChunk(h, a, i, c)
    BY <1>10
  <2>2. i \in DOMAIN h.blocks /\ h.blocks[i].page = h.blocks[j].page
    BY <1>7, <1>8, <2>1, PageOfByte DEF InChunk, b
  <2>3. i = j
    BY <1>0, <2>2
  <2>4. c \in b.used /\ ChunkAt(b, c) <= a
    BY <2>1, <2>3 DEF InChunk, b
  <2>5. c \in 0..(b.tot_elts - 1)
    BY <1>2, <2>4 DEF BlockOK
  <2>6. ChunkAt(b, c) \in Nat /\ B + HeaderSize + b.tot_elts <= ChunkAt(b, c)
    BY <1>2, <2>5, ChunkPlace DEF B
  <2> QED
    BY <1>3, <1>7, <2>4, <2>6, HeapSizes
<1> QED
  BY <1>1, <1>9, <1>10

LEMMA AreasUsable ==
  ASSUME HeapOK(heap, {}), AreasOK(heap, objects)
  PROVE  AreasAreUsable
<1> DEFINE All == objects \cup Metas
<1>1. BlocksOK(heap.blocks) /\ \A i \in DOMAIN heap.bigs : WholePages(heap.bigs[i])
  BY DEF AreasOK
<1>2. ASSUME NEW o \in All PROVE o.size \in Nat /\ Area(heap, o.ptr, o.size)
  <2>1. CASE o \in objects
    BY <2>1 DEF AreasOK
  <2>2. CASE o \in Metas
    <3>1. PICK i \in DOMAIN heap.bigs : o = [ptr |-> heap.bigs[i].meta, size |-> MetaSize]
      BY <2>2 DEF Metas
    <3>2. o.ptr = heap.bigs[i].meta /\ o.size = MetaSize
      BY <3>1
    <3> QED
      BY <3>2, WordSizes DEF AreasOK, Area
  <2> QED
    BY <2>1, <2>2
<1>3. ASSUME NEW o \in All, NEW p \in All, o.ptr = p.ptr PROVE o = p
  <2>1. CASE o \in objects /\ p \in objects
    BY <1>3, <2>1 DEF AreasOK
  <2>2. CASE o \in Metas /\ p \in Metas
    BY <1>3, <2>2 DEF Metas
  <2>3. CASE (o \in objects /\ p \in Metas) \/ (o \in Metas /\ p \in objects)
    BY <1>3, <2>3 DEF AreasOK, Metas
  <2> QED
    BY <2>1, <2>2, <2>3
<1> HIDE DEF All
<1>4. ASSUME NEW o \in All, NEW p \in All, p # o PROVE Bytes(o) \cap Bytes(p) = {}
  <2>1. ASSUME NEW a, a \in Bytes(o), a \in Bytes(p) PROVE FALSE
    <3>1. a \in o.ptr..(o.ptr + o.size - 1) /\ a \in p.ptr..(p.ptr + p.size - 1)
      BY <2>1 DEF Bytes
    <3>2. o.ptr = p.ptr
      BY <1>1, <1>2, <3>1, SharedByte
    <3> QED
      BY <1>3, <1>4, <3>2
  <2> QED
    BY <2>1
<1>5. ASSUME NEW o \in All, NEW a \in Bytes(o)
      PROVE  a \div PageSize \in heap.mapped /\ a \div PageSize \notin TableFrames
  <2>1. a \in o.ptr..(o.ptr + o.size - 1)
    BY DEF Bytes
  <2>2. \/ \E i, c : InChunk(heap, a, i, c) /\ o.ptr = ChunkAt(heap.blocks[i], c) /\ a \in Int
        \/ \E i : InBig(heap, a, i) /\ o.ptr = heap.bigs[i].ptr
    BY <1>1, <1>2, <2>1, ByteOfArea
  <2>3. a \div PageSize \in PagesOfBlocks(heap) \cup PagesOfBigs(heap)
    <3>1. CASE \E i, c : InChunk(heap, a, i, c) /\ a \in Int
      BY <1>1, <3>1, PageOfByte
    <3>2. CASE \E i : InBig(heap, a, i)
      BY <3>2 DEF InBig, PagesOfBigs
    <3> QED
      BY <2>2, <3>1, <3>2
  <2>4. /\ TablesOf(heap) \cap (PagesOfBlocks(heap) \cup PagesOfBigs(heap) \cup {}) = {}
        /\ heap.mapped = BootPages \cup PagesOfBlocks(heap) \cup PagesOfBigs(heap)
    BY DEF HeapOK, Mem
  <2>5. TableFrames = TablesOf(heap)
    BY DEF TableFrames, TablesOf
  <2> QED
    BY <2>3, <2>4, <2>5
<1>6. ASSUME NEW o \in All, NEW i \in DOMAIN heap.blocks
      PROVE  Bytes(o) \cap BlockHeader(heap.blocks[i]) = {}
  <2>1. ASSUME NEW a, a \in Bytes(o), a \in BlockHeader(heap.blocks[i]) PROVE FALSE
    <3>1. a \in o.ptr..(o.ptr + o.size - 1)
      BY <2>1 DEF Bytes
    <3> QED
      BY <1>1, <1>2, <2>1, <3>1, HeaderIsFree
  <2> QED
    BY <2>1
<1>7. ASSUME NEW i \in DOMAIN heap.blocks
      PROVE  heap.blocks[i].nb_frees = heap.blocks[i].tot_elts - Cardinality(heap.blocks[i].used)
  BY <1>1 DEF BlocksOK, BlockOK
<1> QED
  BY <1>4, <1>5, <1>6, <1>7 DEF AreasAreUsable, All

\* Until the kernel panics the callers hold areas of their own.
AreasInv == ~ heap.panicked => AreasOK(heap, objects)

LEMMA InitAreas == Init => AreasInv
<1> SUFFICES ASSUME Init PROVE AreasOK(heap, objects)
  BY DEF AreasInv
<1>1. heap.blocks = <<>> /\ heap.bigs = <<>> /\ objects = {}
  BY DEF Init
<1>2. <<>> \in Seq(BlockRecs) /\ DOMAIN <<>> = {}
  OBVIOUS
<1> QED
  BY <1>1, <1>2 DEF AreasOK, BlocksOK

\* A pointer passed to kfree() is never that of metadata.
LEMMA NeverMetadata ==
  ASSUME AreasOK(heap, objects), NEW ptr \in Pointers, NEW i \in DOMAIN heap.bigs
  PROVE  heap.bigs[i].meta # ptr
<1>1. CASE ptr \in {o.ptr : o \in objects}
  BY <1>1 DEF AreasOK
<1>2. CASE ptr \notin {o.ptr : o \in Metas}
  <2>1. [ptr |-> heap.bigs[i].meta, size |-> MetaSize] \in Metas
    BY DEF Metas
  <2> QED
    BY <1>2, <2>1
<1> QED
  BY <1>1, <1>2 DEF Pointers

LEMMA NextAreas ==
  ASSUME SizesFit, IInv, AreasInv, [Next]_vars
  PROVE  AreasInv'
<1>1. ASSUME NEW size \in Sizes, kmalloc(size), ~ (heap').panicked
      PROVE  AreasOK(heap', objects')
  <2> DEFINE r == Kmalloc(heap, size)
  <2>1. /\ HeapOK(heap, {}) /\ AreasOK(heap, objects)
        /\ heap' = r.heap /\ ~ r.heap.panicked
        /\ objects' = IF r.ret = NULL THEN objects
                      ELSE objects \cup {[ptr |-> r.ret, size |-> size]}
    BY <1>1 DEF kmalloc, IInv, AreasInv
  <2> HIDE DEF r
  <2>2. CASE r.ret = NULL
    <3>1. r.heap = heap
      BY <2>1, <2>2, KmallocKeeps DEF r
    <3> QED
      BY <2>1, <2>2, <3>1
  <2>3. CASE r.ret # NULL
    <3>1. AreasOK(r.heap, objects \cup {[ptr |-> r.ret, size |-> size]})
      BY <2>1, <2>3, KmallocAreas DEF r
    <3> QED
      BY <2>1, <2>3, <3>1
  <2> QED
    BY <2>2, <2>3
<1>2. ASSUME NEW ptr \in Pointers, kfree(ptr), ~ (heap').panicked
      PROVE  AreasOK(heap', objects')
  <2> DEFINE h2 == Kfree(heap, ptr)
  <2>1. /\ HeapOK(heap, {}) /\ AreasOK(heap, objects)
        /\ heap' = h2 /\ ~ h2.panicked
        /\ objects' = {o \in objects : o.ptr # ptr}
    BY <1>2 DEF kfree, IInv, AreasInv
  <2>2. \A i \in DOMAIN heap.bigs : heap.bigs[i].meta # ptr
    BY <2>1, NeverMetadata
  <2> HIDE DEF h2
  <2>3. CASE HasHostBlock(heap, ptr) /\ h2 = FreeChunk(heap, ptr)
    BY <2>1, <2>2, <2>3, FreeChunkAreas
  <2>4. CASE \E i \in DOMAIN heap.bigs : heap.bigs[i].ptr = ptr /\ h2 = big_free(heap, i)
    BY <2>1, <2>4, BigFreeAreas
  <2> QED
    BY <2>1, <2>3, <2>4, KfreeFrees DEF h2
<1>3. CASE UNCHANGED vars
  BY <1>3 DEF vars, AreasInv
<1>4. AreasInv' = (~ (heap').panicked => AreasOK(heap', objects'))
  BY DEF AreasInv
<1> QED
  BY <1>1, <1>2, <1>3, <1>4 DEF Next

\* For every layout of the memory and every sequence of calls with sizes up to
\* 2^31, the areas kmalloc() has returned and the metadata of big_alloc() never
\* overlap, lie on mapped pages and never cover a header, a chunkmap or a page
\* table; wrong pointers passed to kfree() do not change that.
THEOREM UsableAreas == SizesFit => (Spec => []AreasAreUsable)
<1> SUFFICES ASSUME SizesFit PROVE Spec => []AreasAreUsable
  OBVIOUS
<1>1. IInv /\ AreasInv => AreasAreUsable
  BY AreasUsable DEF IInv, AreasInv, AreasAreUsable
<1>2. Init => IInv /\ AreasInv
  BY InitIInv, InitAreas
<1>3. IInv /\ AreasInv /\ [Next]_vars => (IInv /\ AreasInv)'
  BY NextIInv, NextAreas
<1> QED
  BY <1>1, <1>2, <1>3, PTL DEF Spec

-----------------------------------------------------------------------------
(* When the kernel panics in kmalloc() *)

\* No frame is left for a page table.
OutOfFrames(m) == NoneServes(m.pagemap, 1)

\* A panic means that no frame is left.
Excused(m) == m.panicked => OutOfFrames(m)

\* pfa_alloc() fails only if no region serves the request.
LEMMA PfaAllocFails ==
  ASSUME NEW m, NEW n \in Nat, n > 0, pfa_alloc(m, n).ret = BAD_PAGE
  PROVE  NoneServes(m.pagemap, n)
<1> SUFFICES ASSUME ~ NoneServes(m.pagemap, n) PROVE FALSE
  OBVIOUS
<1> DEFINE at == CHOOSE p \in AllPages : Serves(m.pagemap, p[1], p[2], n)
<1>1. \E p \in AllPages : Serves(m.pagemap, p[1], p[2], n)
  BY SomeRegionServes
<1>2. at \in AllPages
  BY <1>1
<1>3. pfa_alloc(m, n).ret = Frame(at[1], at[2])
  BY DEF pfa_alloc
<1> HIDE DEF at
<1>4. at[1] \in RegionIds /\ at[2] \in Pages(at[1])
  BY <1>2 DEF AllPages
<1> QED
  BY <1>3, <1>4, FrameType DEF BAD_PAGE

LEMMA NewTableExcused ==
  ASSUME NEW m, NEW X, Mem(m, X), ~ m.panicked, NEW pd \in PdEntries,
         NEW m2, m2 = new_page_table(m, pd), m2.panicked
  PROVE  OutOfFrames(m2)
<1> DEFINE a == pfa_alloc(m, 1)
<1>0. 1 \in Nat /\ 1 > 0 /\ Fields \subseteq DOMAIN m /\ IsPagemap(m.pagemap)
  BY DEF Mem
<1>1. CASE a.ret = BAD_PAGE
  <2>1. NoneServes(m.pagemap, 1)
    BY <1>0, <1>1, PfaAllocFails
  <2>2. m2.pagemap = m.pagemap
    BY <1>0, <1>1 DEF new_page_table, Panicked, Fields
  <2> QED
    BY <2>1, <2>2 DEF OutOfFrames
<1>2. CASE a.ret # BAD_PAGE
  <2>1. m2 = [a.mem EXCEPT !.tables[pd] = a.ret, !.mapped = {p \in @ : PD_INDEX(p) # pd}]
    BY <1>2 DEF new_page_table
  <2> HIDE DEF a
  <2>2. Keeps(m, a.mem, {"pagemap"})
    BY <1>0, <1>2, PfaAllocTakes DEF a
  <2>3. a.mem.panicked = m.panicked /\ Fields \subseteq DOMAIN a.mem
    BY <1>0, <2>2 DEF Keeps, Fields
  <2>4. m2.panicked = a.mem.panicked
    BY <2>1, <2>3 DEF Fields
  <2> QED
    BY <2>3, <2>4
<1> QED
  BY <1>1, <1>2

LEMMA MapPageExcused ==
  ASSUME NEW m, NEW X, Mem(m, X), ~ m.panicked, NEW page, PD_INDEX(page) \in PdEntries,
         page \notin m.mapped, NEW m2, m2 = map_page(m, page)
  PROVE  Excused(m2)
<1> DEFINE pd == PD_INDEX(page)
<1>0. Fields \subseteq DOMAIN m
  BY DEF Mem
<1>1. CASE m.tables[pd] = BAD_PAGE
  <2> DEFINE m1 == new_page_table(m, pd)
  <2>1. m2 = SetPte(m1, page)
    BY <1>1 DEF map_page
  <2>2. CASE m1.panicked
    <3>1. m2 = m1 /\ OutOfFrames(m1)
      BY <2>1, <2>2, NewTableExcused DEF SetPte
    <3> QED
      BY <3>1 DEF Excused
  <2>3. CASE ~ m1.panicked
    <3>1. Maps(m, m1, {}, X)
      BY <1>1, <2>3, NewTableMaps
    <3> HIDE DEF m1
    <3>2. Fields \subseteq DOMAIN m1
      BY <3>1 DEF Maps, Mem
    <3>3. ~ m2.panicked
      BY <2>1, <2>3, <3>2 DEF SetPte, Fields
    <3> QED
      BY <3>3 DEF Excused
  <2> QED
    BY <2>2, <2>3
<1>2. CASE m.tables[pd] # BAD_PAGE
  <2>1. ~ m2.panicked
    BY <1>0, <1>2 DEF map_page, SetPte, Fields
  <2> QED
    BY <2>1 DEF Excused
<1> QED
  BY <1>1, <1>2

LEMMA MapPagesExcused ==
  ASSUME NEW m, NEW X, Mem(m, X), ~ m.panicked, NEW first \in Nat, NEW n \in Nat,
         \A p \in Run(first, n) : PD_INDEX(p) \in PdEntries,
         Run(first, n) \cap m.mapped = {},
         NEW m2, m2 = map_pages(m, first, n)
  PROVE  Excused(m2)
<1>1. PICK after : /\ map_pages(m, first, n) = after[n]
                   /\ after[0] = m
                   /\ \A i \in 1..n : after[i] = IF after[i - 1].panicked THEN after[i - 1]
                                                 ELSE map_page(after[i - 1], first + i - 1)
  BY MapPagesRuns
<1> DEFINE Good(i) == /\ Excused(after[i])
                      /\ ~ after[i].panicked => Maps(m, after[i], Run(first, i), X)
           Bad == {i \in 0..n : ~ Good(i)}
<1>2. Bad = {}
  <2> SUFFICES ASSUME Bad # {} PROVE FALSE
    OBVIOUS
  <2>1. Bad \subseteq Nat
    OBVIOUS
  <2>2. PICK i \in Bad : \A l \in Bad : i <= l
    <3> HIDE DEF Bad
    <3> QED
      BY <2>1, LeastNatural
  <2>3. i # 0
    <3>1. Run(first, 0) = {}
      BY DEF Run
    <3>2. Good(0)
      BY <1>1, <3>1, MapsReflexive DEF Excused
    <3> HIDE DEF Good
    <3> QED
      BY <2>2, <3>2
  <2>4. i \in 1..n /\ i \in Nat /\ i > 0 /\ i - 1 \in 0..n /\ i - 1 \notin Bad
    <3>1. i \in 1..n
      BY <2>2, <2>3
    <3> HIDE DEF Bad
    <3> QED
      BY <2>2, <3>1
  <2>5. Good(i - 1)
    <3> HIDE DEF Good
    <3> QED
      BY <2>4
  <2> DEFINE a == after[i - 1]
             page == first + i - 1
  <2>6. after[i] = IF a.panicked THEN a ELSE map_page(a, page)
    BY <1>1, <2>4
  <2>7. page \in Run(first, n) /\ page \notin Run(first, i - 1)
    BY <2>4 DEF Run
  <2>8. Run(first, i) = Run(first, i - 1) \cup {page}
    BY <2>4, RunGrows
  <2>9. CASE a.panicked
    <3>1. after[i] = a
      BY <2>6, <2>9
    <3>2. Good(i)
      BY <2>5, <2>9, <3>1
    <3> HIDE DEF Good
    <3> QED
      BY <2>2, <3>2
  <2>10. CASE ~ a.panicked
    <3>1. Maps(m, a, Run(first, i - 1), X) /\ after[i] = map_page(a, page)
      BY <2>5, <2>6, <2>10
    <3> HIDE DEF a, page
    <3>2. Mem(a, X) /\ page \notin a.mapped /\ PD_INDEX(page) \in PdEntries
      BY <2>7, <3>1 DEF Maps
    <3>3. Excused(after[i])
      BY <2>10, <3>1, <3>2, MapPageExcused
    <3>4. ~ after[i].panicked => Maps(a, after[i], {page}, X)
      BY <3>1, <3>2, MapPageMaps
    <3>5. ~ after[i].panicked => Maps(m, after[i], Run(first, i), X)
      BY <2>8, <3>1, <3>4, MapsTransitive
    <3>6. Good(i)
      BY <3>3, <3>5
    <3> HIDE DEF Good
    <3> QED
      BY <2>2, <3>6
  <2> QED
    BY <2>9, <2>10
<1>3. Good(n)
  <2> HIDE DEF Good
  <2>1. n \in 0..n
    OBVIOUS
  <2> QED
    BY <1>2, <2>1
<1> QED
  BY <1>1, <1>3

\* find_region() finds the region of every block, as no region ends at the top
\* of the address space.
LEMMA BlockFound ==
  ASSUME TopIsFree, NEW pm, NEW f, NEW n, Marked(pm, f, n)
  PROVE  ~ FoundNowhere(f)
<1>1. PICK r \in RegionIds : \E i \in Pages(r) : f = Frame(r, i)
  BY DEF Marked
<1>2. PICK i \in Pages(r) : f = Frame(r, i)
  BY <1>1
<1> DEFINE e == FirstPage[r] + NbPages[r]
<1>3. e \in Nat /\ e < AddrPages /\ AddrPages \in Nat
  BY Layout DEF TopIsFree
<1>4. FirstPage[r] <= f /\ f < e
  BY <1>2, Layout DEF Frame, Pages
<1> HIDE DEF e
<1>5. e % AddrPages = e
  BY <1>3
<1>6. MaxPgf(r) = e
  BY <1>5 DEF MaxPgf, e
<1>7. Hosts(r, f)
  BY <1>4, <1>6 DEF Hosts
<1> QED
  BY <1>7 DEF FoundNowhere

\* A power of two below the size of a page is at most half of it.
LEMMA SmallPower ==
  ASSUME NEW l \in 0..WordBits, 2^l < PageSize
  PROVE  2^l <= PageSize \div 2
<1>0. WordBits \in Nat
  BY HeapAssumption
<1>1. PICK k \in 0..(WordBits - 1) : k + 1 \in 0..WordBits /\ PageSize = 2^(k + 1)
  BY HalfPage
<1>2. k \in 0..WordBits /\ k + 1 \in 1..WordBits /\ (k + 1) - 1 = k
  BY <1>0, <1>1
<1> DEFINE x == 2^l
           y == 2^k
           z == 2^(k + 1)
<1>3. x \in Nat /\ y \in Nat /\ z \in Nat
  BY <1>1, <1>2, PowerType
<1>4. z = 2 * y
  BY <1>2, PowersAssumption
<1>5. l <= k
  <2>1. CASE l = k + 1
    BY <1>1, <1>3, <2>1
  <2>2. CASE l > k + 1
    <3>1. z < x
      BY <1>1, <2>2, PowerGrows
    <3> HIDE DEF x, z
    <3>2. z = PageSize /\ x < PageSize
      BY <1>1 DEF x, z
    <3> QED
      BY <1>3, <3>1, <3>2
  <2> QED
    BY <1>0, <1>1, <2>1, <2>2
<1>6. x <= y
  <2>1. CASE l = k
    BY <1>3, <2>1
  <2>2. CASE l < k
    BY <1>2, <1>3, <2>2, PowerGrows
  <2> QED
    BY <1>0, <1>5, <2>1, <2>2
<1>7. PageSize = z
  BY <1>1
<1> HIDE DEF x, y, z
<1>8. x <= PageSize \div 2
  BY <1>3, <1>4, <1>6, <1>7
<1> QED
  BY <1>8 DEF x

\* A block has a chunk at least, for every size new_block() is called with.
LEMMA BlockHasChunks ==
  ASSUME NEW e \in Nat, e <= PageSize \div 2
  PROVE  NbElts(e) \in Nat /\ NbElts(e) > 0
<1> DEFINE room == PageSize - HeaderSize - PtrSize
           d == 1 + e
<1>1. room \in Nat /\ room >= d
  <2>1. PageSize \div 2 \in Nat
    BY HeapSizes
  <2> DEFINE y == PageSize \div 2
  <2> HIDE DEF y
  <2>2. y \in Nat /\ e <= y /\ HeaderSize + PtrSize + y < PageSize
    BY <2>1, HeapAssumption DEF y
  <2> QED
    BY <2>2, HeapSizes
<1>2. d \in Nat /\ d > 0
  OBVIOUS
<1> HIDE DEF room, d
<1>3. room \div d \in Nat /\ room \div d > 0
  BY <1>1, <1>2
<1> QED
  BY <1>3 DEF NbElts, room, d

LEMMA MetaBlockHasChunks ==
  NbElts(Rounded(MetaSize)) \in Nat /\ NbElts(Rounded(MetaSize)) > 0
<1>0. WordBits \in Nat
  BY HeapAssumption
<1>1. PICK k \in 0..(WordBits - 1) :
         k + 1 \in 0..WordBits /\ PageSize = 2^(k + 1) /\ MetaSize <= 2^k /\ MinSize <= 2^k
  BY HalfPage
<1>2. PICK l \in 0..k : Rounded(MetaSize) = 2^l
  BY <1>1, WordSizes, RoundedFits
<1>3. l \in 0..WordBits /\ l < k + 1
  BY <1>0
<1>4. 2^l < PageSize
  BY <1>1, <1>3, PowerGrows
<1>5. 2^l <= PageSize \div 2 /\ 2^l \in Nat
  BY <1>3, <1>4, SmallPower, PowerType
<1> QED
  BY <1>2, <1>5, BlockHasChunks

LEMMA NewBlockExcused ==
  ASSUME NEW h, NEW Q, HeapOK(h, Q), ~ h.panicked, NEW e \in Nat, NbElts(e) # 0,
         NEW r, r = new_block(h, e)
  PROVE  Excused(r.heap) /\ (r.ok => ~ r.heap.panicked)
<1> DEFINE a == pfa_alloc(h, 1)
           m1 == a.mem
           page == a.ret
           m2 == map_page(m1, page)
           X == PagesOfBlocks(h) \cup PagesOfBigs(h) \cup Q
<1>0. /\ Fields \subseteq DOMAIN h /\ {"blocks", "bigs"} \subseteq DOMAIN h
      /\ IsPagemap(h.pagemap) /\ Mem(h, X)
  BY DEF HeapOK, Mem
<1>1. CASE page = BAD_PAGE
  <2>1. r.heap = h
    BY <1>1 DEF new_block
  <2> QED
    BY <2>1 DEF Excused
<1>2. CASE page # BAD_PAGE
  <2>1. r = AddBlock(m2, page, e)
    BY <1>2 DEF new_block
  <2>2. /\ page \in RamFrames /\ Keeps(h, m1, {"pagemap"})
        /\ Takes(h.pagemap, m1.pagemap, page, 1)
    <3>1. 1 \in Nat
      OBVIOUS
    <3> HIDE DEF a
    <3> QED
      BY <1>0, <1>2, <3>1, PfaAllocTakes DEF a
  <2> HIDE DEF m1, page, X
  <2>3. /\ PD_INDEX(page) \in PdEntries /\ Run(page, 1) = {page} /\ page \notin BootPages
    BY <2>2, RamMappable DEF Run
  <2>4. Mem(m1, X \cup {page}) /\ page \notin X
    <3>1. Mem(m1, X \cup Run(page, 1)) /\ Run(page, 1) \cap X = {}
      BY <1>0, <2>2, MemTakes
    <3> QED
      BY <2>3, <3>1
  <2>5. m1.mapped = h.mapped /\ m1.panicked = h.panicked
    BY <1>0, <2>2 DEF Keeps, Fields
  <2>6. page \notin m1.mapped
    BY <2>3, <2>4, <2>5 DEF HeapOK, X
  <2>7. Excused(m2)
    BY <2>3, <2>4, <2>5, <2>6, MapPageExcused
  <2>8. CASE m2.panicked
    BY <2>1, <2>7, <2>8 DEF AddBlock
  <2>9. CASE ~ m2.panicked
    <3>1. Maps(m1, m2, {page}, X \cup {page})
      BY <2>3, <2>4, <2>9, MapPageMaps
    <3> HIDE DEF m2
    <3>2. Fields \subseteq DOMAIN m2
      BY <3>1 DEF Maps, Mem
    <3>3. r.heap = [m2 EXCEPT !.blocks = <<NewBlock(page, e)>> \o @]
      BY <2>1, <2>9 DEF AddBlock
    <3>4. ~ r.heap.panicked
      BY <2>9, <3>2, <3>3 DEF Fields
    <3> QED
      BY <3>4 DEF Excused
  <2> QED
    BY <2>8, <2>9
<1> QED
  BY <1>1, <1>2

\* A block that counts a free chunk has one.
LEMMA TakeChunkFinds ==
  ASSUME NEW h, NEW Q, HeapOK(h, Q), ~ h.panicked, NEW i \in DOMAIN h.blocks,
         BlockOK(h.blocks[i]), h.blocks[i].nb_frees > 0,
         NEW r, r = TakeChunk(h, i)
  PROVE  ~ r.heap.panicked
<1> DEFINE b == h.blocks[i]
           all == 0..(b.tot_elts - 1)
           free == all \ b.used
           c == CHOOSE k \in free : \A l \in free : k <= l
<1>1. Fields \subseteq DOMAIN h /\ "blocks" \in DOMAIN h /\ h.blocks \in Seq(BlockRecs)
  BY DEF HeapOK, Mem
<1>2. b \in BlockRecs
  BY <1>1
<1>3. b.tot_elts \in Nat
  BY <1>2 DEF BlockRecs
<1>4. free # {}
  <2> SUFFICES ASSUME free = {} PROVE FALSE
    OBVIOUS
  <2>1. b.used \subseteq all /\ b.nb_frees = b.tot_elts - Cardinality(b.used)
    BY DEF BlockOK
  <2>2. b.used = all
    BY <2>1
  <2>3. Cardinality(all) = b.tot_elts
    <3> DEFINE n == b.tot_elts
    <3>1. n \in Nat /\ 0 \in Int /\ n - 1 \in Int
      BY <1>3
    <3> HIDE DEF n
    <3>2. Cardinality(0..(n - 1)) = IF 0 > n - 1 THEN 0 ELSE (n - 1) - 0 + 1
      BY <3>1, FS_Interval
    <3>3. Cardinality(0..(n - 1)) = n
      BY <3>1, <3>2
    <3> QED
      BY <3>3 DEF n
  <2> QED
    BY <1>3, <2>1, <2>2, <2>3
<1>5. r.heap = [h EXCEPT !.blocks[i].used = @ \cup {c}, !.blocks[i].nb_frees = @ - 1]
  BY <1>4 DEF TakeChunk
<1> QED
  BY <1>1, <1>5 DEF Fields

LEMMA SmallAllocExcused ==
  ASSUME NEW h, NEW Q, HeapOK(h, Q), ~ h.panicked, BlocksOK(h.blocks),
         NEW e \in Nat, e > 0, NbElts(e) \in Nat, NbElts(e) > 0,
         NEW r, r = SmallAlloc(h, e)
  PROVE  Excused(r.heap)
<1>1. CASE \E i \in DOMAIN h.blocks : find_non_full_block(h, e, i)
  <2> DEFINE i == CHOOSE k \in DOMAIN h.blocks : find_non_full_block(h, e, k)
  <2>1. r = TakeChunk(h, i)
    BY <1>1 DEF SmallAlloc
  <2>2. i \in DOMAIN h.blocks /\ h.blocks[i].nb_frees > 0
    BY <1>1 DEF find_non_full_block
  <2> HIDE DEF i
  <2>3. BlockOK(h.blocks[i])
    BY <2>2 DEF BlocksOK
  <2>4. ~ r.heap.panicked
    BY <2>1, <2>2, <2>3, TakeChunkFinds
  <2> QED
    BY <2>4 DEF Excused
<1>2. CASE ~ \E i \in DOMAIN h.blocks : find_non_full_block(h, e, i)
  <2> DEFINE new == new_block(h, e)
             t == new.heap.blocks
  <2>1. r = TakeFirst(new)
    BY <1>2 DEF SmallAlloc
  <2> HIDE DEF new
  <2>2. Excused(new.heap) /\ (new.ok => ~ new.heap.panicked)
    BY NewBlockExcused DEF new
  <2>3. CASE ~ new.ok
    BY <2>1, <2>2, <2>3 DEF TakeFirst
  <2>4. CASE new.ok
    <3>1. r = TakeChunk(new.heap, 1)
      BY <2>1, <2>4 DEF TakeFirst
    <3>2. /\ HeapOK(new.heap, Q) /\ 1 \in DOMAIN t
          /\ \E page \in RamFrames : Front(NewBlock(page, e), h.blocks, t)
      BY <2>4, NewBlockKeeps DEF new
    <3>3. PICK page \in RamFrames : Front(NewBlock(page, e), h.blocks, t)
      BY <3>2
    <3>4. t[1] = NewBlock(page, e)
      BY <3>3 DEF Front
    <3>5. BlockOK(t[1])
      BY <3>4, RamMappable, NewBlockOK
    <3>6. t[1].nb_frees > 0
      BY <3>4 DEF NewBlock
    <3>7. ~ r.heap.panicked
      BY <2>2, <2>4, <3>1, <3>2, <3>5, <3>6, TakeChunkFinds
    <3> QED
      BY <3>7 DEF Excused
  <2> QED
    BY <2>3, <2>4
<1> QED
  BY <1>1, <1>2

LEMMA AddBigExcused ==
  ASSUME NEW h, NEW f \in RamFrames, NEW size \in Nat, NEW n, n = size \div PageSize, n > 0,
         NEW ptr \in Nat, HeapOK(h, Run(f, n)), Marked(h.pagemap, f, n), ~ h.panicked,
         NEW r, r = AddBig(h, f, size, ptr)
  PROVE  Excused(r.heap)
<1> DEFINE b == [ptr |-> Base(f), size |-> size, meta |-> ptr]
           h1 == [h EXCEPT !.bigs = <<b>> \o h.bigs]
           X == PagesOfBlocks(h) \cup PagesOfBigs(h) \cup Run(f, n)
<1>1. r.heap = map_pages(h1, f, n)
  BY DEF AddBig
<1>2. f \in Nat /\ n \in Nat
  BY RamMappable, HeapSizes
<1>3. /\ Fields \subseteq DOMAIN h /\ {"blocks", "bigs"} \subseteq DOMAIN h /\ Mem(h, X)
  BY DEF HeapOK, Mem
<1> HIDE DEF b
<1>4. Keeps(h, h1, {"blocks", "bigs"}) /\ h1.panicked = h.panicked /\ h1.mapped = h.mapped
  BY <1>3 DEF Keeps, IsRecord, Fields
<1> HIDE DEF h1, X
<1>5. Mem(h1, X)
  BY <1>3, <1>4, MemSame
<1>6. Run(f, n) \subseteq RamFrames
  BY <1>2, MarkedInUse
<1>7. \A p \in Run(f, n) : PD_INDEX(p) \in PdEntries /\ p \notin BootPages
  BY <1>6, RamMappable
<1>8. Run(f, n) \cap h1.mapped = {}
  BY <1>4, <1>7 DEF HeapOK
<1> QED
  BY <1>1, <1>2, <1>4, <1>5, <1>7, <1>8, MapPagesExcused

\* Neither a big allocation nor its rollback panics for another reason.
LEMMA BigAllocExcused ==
  ASSUME TopIsFree, NEW h, HeapOK(h, {}), ~ h.panicked, BlocksOK(h.blocks), NEW size \in Nat,
         NEW r, r = big_alloc(h, size)
  PROVE  Excused(r.heap)
<1> DEFINE n == size \div PageSize
           a == pfa_alloc(h, n)
           m1 == a.mem
           f == a.ret
           meta == SmallAlloc(m1, Rounded(MetaSize))
<1>0. /\ Fields \subseteq DOMAIN h /\ {"blocks", "bigs"} \subseteq DOMAIN h
      /\ IsPagemap(h.pagemap)
  BY DEF HeapOK, Mem
<1>1. CASE f = BAD_PAGE
  <2>1. r.heap = h
    BY <1>1 DEF big_alloc
  <2> QED
    BY <2>1 DEF Excused
<1>2. CASE f # BAD_PAGE
  <2>1. r = WithMeta(meta, f, size)
    BY <1>2 DEF big_alloc
  <2>2. n \in Nat
    BY HeapSizes
  <2>3. /\ n > 0 /\ f \in RamFrames
        /\ Keeps(h, m1, {"pagemap"})
        /\ Takes(h.pagemap, m1.pagemap, f, n)
    <3> HIDE DEF a, n
    <3> QED
      BY <1>0, <1>2, <2>2, PfaAllocTakes DEF a
  <2> HIDE DEF a, n, meta
  <2>4. HeapOK(m1, Run(f, n))
    BY <2>3, HeapTakes
  <2>5. m1.panicked = h.panicked /\ m1.blocks = h.blocks
    BY <1>0, <2>3 DEF Keeps, Fields
  <2>6. Excused(meta.heap)
    BY <2>4, <2>5, RoundedMeta, MetaBlockHasChunks, SmallAllocExcused DEF meta
  <2>7. CASE meta.heap.panicked
    <3>1. r = meta
      BY <2>1, <2>7 DEF WithMeta
    <3> QED
      BY <2>6, <3>1
  <2>8. CASE ~ meta.heap.panicked
    <3>1. /\ HeapOK(meta.heap, Run(f, n)) /\ Grows(m1.pagemap, meta.heap.pagemap)
          /\ meta.ret \in Nat
      BY <2>4, <2>8, RoundedMeta, SmallAllocKeeps DEF meta
    <3>2. Marked(meta.heap.pagemap, f, n)
      BY <2>2, <2>3, <3>1, MarkedGrows DEF Takes
    <3>3. CASE meta.ret # NULL
      <4>1. r = AddBig(meta.heap, f, size, meta.ret)
        BY <2>1, <2>8, <3>3 DEF WithMeta
      <4> QED
        BY <2>3, <2>8, <3>1, <3>2, <4>1, AddBigExcused DEF n
    <3>4. CASE meta.ret = NULL
      <4>1. r.heap = pfa_free(meta.heap, f)
        BY <2>1, <2>8, <3>4 DEF WithMeta
      <4>2. Fields \subseteq DOMAIN meta.heap /\ IsPagemap(meta.heap.pagemap)
        BY <3>1 DEF HeapOK, Mem
      <4>3. ~ FoundNowhere(f)
        BY <3>2, BlockFound
      <4>4. Keeps(meta.heap, r.heap, {"pagemap"})
        BY <2>2, <2>3, <3>2, <4>1, <4>2, <4>3, PfaFreeOfBlock
      <4>5. ~ r.heap.panicked
        BY <2>8, <4>2, <4>4 DEF Keeps, Fields
      <4> QED
        BY <4>5 DEF Excused
    <3> QED
      BY <3>3, <3>4
  <2> QED
    BY <2>7, <2>8
<1> QED
  BY <1>1, <1>2

LEMMA KmallocExcused ==
  ASSUME TopIsFree, SizesFit, NEW h, HeapOK(h, {}), ~ h.panicked, BlocksOK(h.blocks),
         NEW size \in Sizes, NEW r, r = Kmalloc(h, size)
  PROVE  Excused(r.heap)
<1> DEFINE e == Rounded(size)
<1>1. /\ e \in Nat /\ e > 0 /\ \E l \in 0..WordBits : e = 2^l
  BY RoundedRequest
<1> HIDE DEF e
<1>2. CASE size = 0
  <2>1. r.heap = h
    BY <1>2 DEF Kmalloc
  <2> QED
    BY <2>1 DEF Excused
<1>3. CASE size # 0 /\ e >= PageSize
  <2>1. r = big_alloc(h, e)
    BY <1>3 DEF Kmalloc, e
  <2> QED
    BY <1>1, <2>1, BigAllocExcused
<1>4. CASE size # 0 /\ ~ (e >= PageSize)
  <2>1. r = SmallAlloc(h, e)
    BY <1>4 DEF Kmalloc, e
  <2>2. e < PageSize
    BY <1>1, <1>4, HeapSizes
  <2>3. e <= PageSize \div 2
    BY <1>1, <2>2, SmallPower
  <2>4. NbElts(e) \in Nat /\ NbElts(e) > 0
    BY <1>1, <2>3, BlockHasChunks
  <2> QED
    BY <1>1, <2>1, <2>4, SmallAllocExcused
<1> QED
  BY <1>2, <1>3, <1>4

\* For every layout of the memory in which no region ends at the top of the
\* address space, and sizes up to 2^31: kmalloc() panics only when no frame is
\* left for a page table.  map_page() never finds a page already mapped, a
\* block that counts a free chunk has one, every block has room for a chunk,
\* and the rollback of big_alloc() never fails.
THEOREM PanicOutOfFrames == SizesFit /\ TopIsFree => (Spec => PanicMeansOutOfFrames)
<1> SUFFICES ASSUME SizesFit, TopIsFree PROVE Spec => PanicMeansOutOfFrames
  OBVIOUS
<1> DEFINE Allowed == \A size \in Sizes : kmalloc(size) /\ (heap').panicked
                                           => NoneServes((heap').pagemap, 1)
<1>1. ASSUME IInv, AreasInv PROVE [Allowed]_vars
  <2> SUFFICES ASSUME NEW size \in Sizes, kmalloc(size), (heap').panicked
               PROVE  NoneServes((heap').pagemap, 1)
    OBVIOUS
  <2> DEFINE r == Kmalloc(heap, size)
  <2>1. heap' = r.heap /\ ~ heap.panicked /\ HeapOK(heap, {}) /\ AreasOK(heap, objects)
    BY <1>1 DEF kmalloc, IInv, AreasInv
  <2> HIDE DEF r
  <2>2. BlocksOK(heap.blocks)
    BY <2>1 DEF AreasOK
  <2>3. Excused(r.heap)
    BY <2>1, <2>2, KmallocExcused DEF r
  <2> QED
    BY <2>1, <2>3 DEF Excused, OutOfFrames
<1>2. IInv /\ AreasInv => [Allowed]_vars
  BY <1>1
<1> HIDE DEF Allowed
<1>3. Init => IInv /\ AreasInv
  BY InitIInv, InitAreas
<1>4. IInv /\ AreasInv /\ [Next]_vars => (IInv /\ AreasInv)'
  BY NextIInv, NextAreas
<1>5. Spec => [][Allowed]_vars
  BY <1>2, <1>3, <1>4, PTL DEF Spec
<1> QED
  BY <1>5 DEF PanicMeansOutOfFrames, Allowed

-----------------------------------------------------------------------------
(* What kfree() accepts *)

\* kfree() finds the block of a pointer on the page of the pointer.
LEMMA HostPage ==
  ASSUME NEW s, BlocksOK(s), NEW k \in DOMAIN s, NEW p \in Nat,
         s[k].first_ptr <= p, p < Base(s[k].page) + PageSize
  PROVE  p \div PageSize = s[k].page
<1> DEFINE b == s[k]
<1>1. b \in BlockRecs /\ BlockOK(b)
  BY DEF BlocksOK
<1>2. b.page \in Nat /\ b.tot_elts \in Nat /\ b.first_ptr \in Nat
  BY <1>1 DEF BlockRecs
<1>3. Base(b.page) \in Nat
  BY <1>2, HeapSizes DEF Base
<1>4. Base(b.page) + HeaderSize + b.tot_elts <= b.first_ptr
  BY <1>1 DEF BlockOK
<1> HIDE DEF b
<1>5. Base(b.page) <= p /\ p < Base(b.page) + PageSize
  <2>1. b.first_ptr <= p /\ p < Base(b.page) + PageSize
    BY DEF b
  <2> QED
    BY <1>2, <1>3, <1>4, <2>1, HeapSizes
<1>6. p \div PageSize = b.page
  BY <1>2, <1>5, PageOfAddress
<1> QED
  BY <1>6 DEF b

\* kfree() of a chunk in use finds the block and the chunk.
LEMMA ChunkReleased ==
  ASSUME NEW h, Distinct(h), BlocksOK(h.blocks), NEW p, NEW n, Chunk(h.blocks, p, n),
         NEW g, g.blocks = h.blocks, Fields \subseteq DOMAIN g, ~ g.panicked
  PROVE  HasHostBlock(g, p) /\ ~ FreeChunk(g, p).panicked /\ p \in Nat \ {0}
<1> DEFINE s == h.blocks
           In(k) == s[k].first_ptr <= p /\ p < Base(s[k].page) + PageSize
<1>1. PICK i \in DOMAIN s : \E c \in s[i].used : p = ChunkAt(s[i], c)
  BY DEF Chunk
<1>2. PICK c \in s[i].used : p = ChunkAt(s[i], c)
  BY <1>1
<1>3. s[i] \in BlockRecs /\ BlockOK(s[i]) /\ c \in 0..(s[i].tot_elts - 1) /\ s \in Seq(BlockRecs)
  BY DEF BlocksOK, BlockOK
<1>4. p \in Nat \ {0} /\ In(i)
  <2> DEFINE b == s[i]
  <2>1. /\ ChunkAt(b, c) \in Nat /\ b.elt_size \in Nat /\ b.elt_size > 0
        /\ ChunkAt(b, c) + b.elt_size <= Base(b.page) + PageSize /\ Base(b.page) \in Nat
    BY <1>3, ChunkPlace DEF BlockOK
  <2>2. b.first_ptr \in Nat /\ b.first_ptr > 0 /\ c \in Nat
    <3>1. b.first_ptr \in Nat \ {0} /\ b.tot_elts \in Nat
      BY <1>3 DEF BlockRecs
    <3> QED
      BY <1>3, <3>1
  <2>3. p = b.first_ptr + c * b.elt_size
    BY <1>2 DEF ChunkAt
  <2>4. p = ChunkAt(b, c)
    BY <1>2
  <2> DEFINE x == c * b.elt_size
  <2>5. x \in Nat
    BY <2>1, <2>2
  <2> HIDE DEF b, x
  <2>6. p = b.first_ptr + x
    BY <2>3 DEF x
  <2>7. p \in Nat /\ p > 0 /\ b.first_ptr <= p
    BY <2>2, <2>5, <2>6
  <2>8. p < Base(b.page) + PageSize
    BY <2>1, <2>4, <2>7, HeapSizes
  <2> QED
    BY <2>7, <2>8 DEF b
<1>5. ASSUME NEW k \in DOMAIN s, In(k) PROVE k = i
  <2>1. p \div PageSize = s[k].page
    BY <1>4, <1>5, HostPage
  <2>2. p \div PageSize = s[i].page
    BY <1>4, HostPage
  <2> QED
    BY <2>1, <2>2 DEF Distinct
<1>6. DOMAIN s = 1..Len(s) /\ Len(s) \in Nat
  BY <1>3
<1>7. HostBlock(g, p, i)
  <2>1. ASSUME NEW k \in 1..(i - 1) PROVE ~ In(k)
    <3>1. k \in DOMAIN s /\ k # i
      BY <1>6
    <3> QED
      BY <1>5, <3>1
  <2> QED
    BY <1>4, <2>1 DEF HostBlock
<1>8. \A k \in DOMAIN g.blocks : HostBlock(g, p, k) => k = i
  BY <1>5 DEF HostBlock
<1> DEFINE i0 == CHOOSE k \in DOMAIN g.blocks : HostBlock(g, p, k)
           b == g.blocks[i0]
           at == {k \in 0..(b.tot_elts - 1) : b.first_ptr + k * b.elt_size = p}
           c0 == CHOOSE k \in at : \A l \in at : k <= l
<1>9. i0 = i
  BY <1>7, <1>8
<1>10. b = s[i]
  BY <1>9
<1> HIDE DEF i0, b
<1>11. \A k : k \in at <=> k \in 0..(s[i].tot_elts - 1) /\ ChunkAt(s[i], k) = p
  BY <1>10 DEF ChunkAt
<1>12. c \in at
  BY <1>2, <1>3, <1>11
<1>13. ASSUME NEW k \in at PROVE k = c
  <2>1. k \in 0..(s[i].tot_elts - 1) /\ ChunkAt(s[i], k) = ChunkAt(s[i], c)
    BY <1>2, <1>11
  <2> QED
    BY <1>3, <2>1, ChunkUnique
<1>14. c0 = c
  <2>1. c <= c
    BY <1>3
  <2>2. \E k \in at : \A l \in at : k <= l
    BY <1>12, <1>13, <2>1
  <2> HIDE DEF at
  <2>3. c0 \in at
    BY <2>2
  <2> QED
    BY <1>13, <2>3
<1>15. ~ (at = {} \/ c0 \notin b.used)
  BY <1>10, <1>12, <1>14
<1>16. FreeChunk(g, p) = [g EXCEPT !.blocks[i0].used = @ \ {c0}, !.blocks[i0].nb_frees = @ + 1]
  BY <1>15 DEF FreeChunk, i0, b
<1>17. ~ FreeChunk(g, p).panicked
  BY <1>16 DEF Fields
<1> QED
  BY <1>4, <1>7, <1>17 DEF HasHostBlock, HostBlock

\* The loop of unmap_pages() unmaps pages that are mapped, without a panic.
LEMMA UnmapPagesWorks ==
  ASSUME NEW m, Fields \subseteq DOMAIN m, ~ m.panicked, NEW first \in Nat, NEW n \in Nat,
         \A p \in Run(first, n) : PD_INDEX(p) # LastPde /\ Unmappable(m, p),
         NEW m2, m2 = unmap_pages(m, first, n)
  PROVE  ~ m2.panicked
<1>1. PICK after : /\ unmap_pages(m, first, n) = after[n]
                   /\ after[0] = m
                   /\ \A i \in 1..n : after[i] = IF after[i - 1].panicked THEN after[i - 1]
                                                 ELSE unmap_page(after[i - 1], first + i - 1)
  BY UnmapPagesRuns
<1> DEFINE Good(i) == /\ Fields \subseteq DOMAIN after[i] /\ ~ after[i].panicked
                      /\ after[i].tables = m.tables
                      /\ after[i].mapped = m.mapped \ Run(first, i)
           Bad == {i \in 0..n : ~ Good(i)}
<1>2. Bad = {}
  <2> SUFFICES ASSUME Bad # {} PROVE FALSE
    OBVIOUS
  <2>1. Bad \subseteq Nat
    OBVIOUS
  <2>2. PICK i \in Bad : \A l \in Bad : i <= l
    <3> HIDE DEF Bad
    <3> QED
      BY <2>1, LeastNatural
  <2>3. i # 0
    <3>1. Run(first, 0) = {}
      BY DEF Run
    <3>2. Good(0)
      BY <1>1, <3>1
    <3> HIDE DEF Good
    <3> QED
      BY <2>2, <3>2
  <2>4. i \in 1..n /\ i \in Nat /\ i > 0 /\ i - 1 \in 0..n /\ i - 1 \notin Bad
    <3>1. i \in 1..n
      BY <2>2, <2>3
    <3> HIDE DEF Bad
    <3> QED
      BY <2>2, <3>1
  <2>5. Good(i - 1)
    <3> HIDE DEF Good
    <3> QED
      BY <2>4
  <2> DEFINE a == after[i - 1]
             b == after[i]
             page == first + i - 1
  <2>6. b = IF a.panicked THEN a ELSE unmap_page(a, page)
    BY <1>1, <2>4
  <2>7. page \in Run(first, n) /\ page \notin Run(first, i - 1)
    BY <2>4 DEF Run
  <2>8. Run(first, i) = Run(first, i - 1) \cup {page}
    BY <2>4, RunGrows
  <2>9. /\ Fields \subseteq DOMAIN a /\ ~ a.panicked /\ a.tables = m.tables
        /\ a.mapped = m.mapped \ Run(first, i - 1)
    BY <2>5
  <2> HIDE DEF a, page
  <2>10. PD_INDEX(page) # LastPde /\ Unmappable(a, page)
    BY <2>7, <2>9 DEF Unmappable
  <2>11. b = [a EXCEPT !.mapped = @ \ {page}]
    BY <2>6, <2>9, <2>10 DEF unmap_page
  <2> HIDE DEF b
  <2>12. /\ Fields \subseteq DOMAIN b /\ ~ b.panicked /\ b.tables = m.tables
         /\ b.mapped = m.mapped \ Run(first, i)
    BY <2>8, <2>9, <2>11 DEF Fields
  <2>13. Good(i)
    BY <2>12 DEF b
  <2> HIDE DEF Good
  <2> QED
    BY <2>2, <2>13
<1>3. Good(n)
  <2> HIDE DEF Good
  <2>1. n \in 0..n
    OBVIOUS
  <2> QED
    BY <1>2, <2>1
<1> QED
  BY <1>1, <1>3

\* kfree() of a big allocation in the list works.
LEMMA BigFreeWorks ==
  ASSUME TopIsFree, NEW h, HeapOK(h, {}), ~ h.panicked, BlocksOK(h.blocks),
         NEW i \in DOMAIN h.bigs, Chunk(h.blocks, h.bigs[i].meta, MetaSize),
         NEW h2, h2 = big_free(h, i)
  PROVE  ~ h2.panicked
<1> DEFINE b == h.bigs[i]
           f == b.ptr \div PageSize
           n == b.size \div PageSize
           u == unmap_pages(h, f, n)
           v == pfa_free(u, f)
           bs == SubSeq(v.bigs, 1, i - 1) \o SubSeq(v.bigs, i + 1, Len(v.bigs))
           out == [v EXCEPT !.bigs = bs]
<1>1. /\ Fields \subseteq DOMAIN h /\ {"blocks", "bigs"} \subseteq DOMAIN h
      /\ IsPagemap(h.pagemap) /\ Distinct(h)
  BY DEF HeapOK, Mem
<1>2. /\ f \in Nat /\ n \in Nat /\ n > 0 /\ BigPages(b) = Run(f, n)
      /\ Marked(h.pagemap, f, n)
  BY DEF HeapOK, BigOK
<1>3. h2 = DropBig(Unmapped(u, f), i)
  BY DEF big_free
<1> HIDE DEF f, n
<1>4. ASSUME NEW p \in Run(f, n) PROVE PD_INDEX(p) # LastPde /\ Unmappable(h, p)
  <2>1. p \in RamFrames
    BY <1>2, MarkedInUse
  <2>2. PD_INDEX(p) < LastPde /\ PD_INDEX(p) \in Nat
    <3>1. PD_INDEX(p) < LastPde
      BY <2>1, PagingAssumption DEF RamFrames
    <3> QED
      BY <2>1, <3>1, RamMappable, PagingAssumption DEF PD_INDEX
  <2>3. p \in h.mapped
    BY <1>2 DEF HeapOK, PagesOfBigs
  <2>4. h.tables[PD_INDEX(p)] # BAD_PAGE
    BY <2>3 DEF HeapOK, Mem
  <2> QED
    BY <2>2, <2>3, <2>4 DEF Unmappable
<1> HIDE DEF u
<1>5. ~ u.panicked
  BY <1>1, <1>2, <1>4, UnmapPagesWorks DEF u
<1>6. Keeps(h, u, {"mapped"})
  BY <1>1, <1>2, <1>5, UnmapPagesUnmaps DEF u
<1>7. /\ Fields \subseteq DOMAIN u /\ u.pagemap = h.pagemap
      /\ u.bigs = h.bigs /\ u.blocks = h.blocks /\ {"blocks", "bigs"} \subseteq DOMAIN u
  BY <1>1, <1>6 DEF Keeps, Fields
<1> HIDE DEF v
<1>8. Keeps(u, v, {"pagemap"})
  <2>1. IsPagemap(u.pagemap) /\ Marked(u.pagemap, f, n)
    BY <1>1, <1>2, <1>7
  <2>2. ~ FoundNowhere(f)
    BY <1>2, BlockFound
  <2> QED
    BY <1>2, <1>7, <2>1, <2>2, PfaFreeOfBlock DEF v
<1>9. /\ Fields \subseteq DOMAIN v /\ ~ v.panicked
      /\ v.bigs = h.bigs /\ v.blocks = h.blocks /\ {"blocks", "bigs"} \subseteq DOMAIN v
  BY <1>5, <1>7, <1>8 DEF Keeps, Fields
<1>10. h2 = DropBig(v, i)
  BY <1>3, <1>5 DEF Unmapped, v
<1>11. h2 = IF HasHostBlock(out, b.meta) THEN FreeChunk(out, b.meta) ELSE Panicked(out)
  <2>1. v.bigs[i].meta = b.meta
    BY <1>9
  <2> QED
    BY <1>9, <1>10, <2>1 DEF DropBig
<1> HIDE DEF bs, b
<1>12. out.blocks = h.blocks /\ Fields \subseteq DOMAIN out /\ ~ out.panicked
  BY <1>9 DEF Fields
<1> HIDE DEF out
<1>13. HasHostBlock(out, b.meta) /\ ~ FreeChunk(out, b.meta).panicked
  <2>1. Chunk(h.blocks, b.meta, MetaSize)
    BY DEF b
  <2> QED
    BY <1>1, <1>12, <2>1, ChunkReleased
<1> QED
  BY <1>11, <1>13

\* kfree() of an area a caller holds works.
LEMMA KfreeAccepts ==
  ASSUME TopIsFree, NEW h, HeapOK(h, {}), ~ h.panicked, NEW O, AreasOK(h, O),
         NEW o \in O, NEW h2, h2 = Kfree(h, o.ptr)
  PROVE  ~ h2.panicked
<1> DEFINE ptr == o.ptr
<1>1. /\ Fields \subseteq DOMAIN h /\ Distinct(h) /\ h.bigs \in Seq(BigRecs)
      /\ BlocksOK(h.blocks) /\ Area(h, ptr, o.size) /\ ptr \in Nat
  BY DEF HeapOK, Mem, AreasOK
<1> HIDE DEF ptr
<1>2. h2 = Kfree(h, ptr)
  BY DEF ptr
<1>3. CASE Chunk(h.blocks, ptr, o.size)
  <2>1. HasHostBlock(h, ptr) /\ ~ FreeChunk(h, ptr).panicked /\ ptr # NULL
    BY <1>1, <1>3, ChunkReleased DEF NULL
  <2> QED
    BY <1>2, <2>1 DEF Kfree
<1>4. CASE BigArea(h.bigs, ptr, o.size)
  <2>1. PICK k \in DOMAIN h.bigs : ptr = h.bigs[k].ptr
    BY <1>4 DEF BigArea
  <2>2. ptr \div PageSize \in PagesOfBigs(h) /\ ptr \div PageSize \in RamFrames
    <3>1. ptr \div PageSize \in BigPages(h.bigs[k])
      BY <2>1, FirstOfBig
    <3> DEFINE f == h.bigs[k].ptr \div PageSize
               n == h.bigs[k].size \div PageSize
    <3>2. f \in Nat /\ n \in Nat /\ n > 0 /\ BigPages(h.bigs[k]) = Run(f, n) /\ Marked(h.pagemap, f, n)
      BY DEF HeapOK, BigOK
    <3> HIDE DEF f, n
    <3>3. Run(f, n) \subseteq RamFrames
      BY <3>2, MarkedInUse
    <3> QED
      BY <3>1, <3>2, <3>3 DEF PagesOfBigs
  <2>3. ptr # NULL
    <3>1. ptr \div PageSize > 0
      BY <2>2, RamMappable
    <3>2. 0 \div PageSize = 0
      BY HeapSizes
    <3> QED
      BY <3>1, <3>2 DEF NULL
  <2>4. ~ HasHostBlock(h, ptr)
    <3> SUFFICES ASSUME HasHostBlock(h, ptr) PROVE FALSE
      OBVIOUS
    <3>1. PICK j \in DOMAIN h.blocks :
             h.blocks[j].first_ptr <= ptr /\ ptr < Base(h.blocks[j].page) + PageSize
      BY DEF HasHostBlock, HostBlock
    <3>2. ptr \div PageSize = h.blocks[j].page
      BY <1>1, <3>1, HostPage
    <3> QED
      BY <1>1, <2>2, <3>2 DEF Distinct, PagesOfBlocks
  <2> DEFINE i == FirstAt(h.bigs, ptr)
  <2>5. h2 = big_free(h, i)
    BY <1>2, <2>1, <2>3, <2>4 DEF Kfree, FirstAt
  <2>6. i \in DOMAIN h.bigs
    BY <1>1, <2>1, FirstBig
  <2> HIDE DEF i
  <2>7. Chunk(h.blocks, h.bigs[i].meta, MetaSize)
    BY <2>6 DEF AreasOK
  <2> QED
    BY <1>1, <2>5, <2>6, <2>7, BigFreeWorks
<1> QED
  BY <1>1, <1>3, <1>4 DEF Area

\* The chunks in use and the big allocations are exactly what the callers hold
\* and the metadata.
Exact(h, O) ==
  /\ \A p, n : Chunk(h.blocks, p, n) =>
       (\E o \in O : o.ptr = p) \/ (\E i \in DOMAIN h.bigs : h.bigs[i].meta = p)
  /\ \A i \in DOMAIN h.bigs : \E o \in O : o.ptr = h.bigs[i].ptr

\* kfree() of any other pointer panics before it changes anything.
LEMMA KfreeRejects ==
  ASSUME NEW h, HeapOK(h, {}), NEW O, AreasOK(h, O), Exact(h, O),
         NEW ptr, \A o \in O : o.ptr # ptr, \A i \in DOMAIN h.bigs : h.bigs[i].meta # ptr,
         NEW h2, h2 = Kfree(h, ptr)
  PROVE  h2 = Panicked(h)
<1>1. ~ \E i \in DOMAIN h.bigs : h.bigs[i].ptr = ptr
  BY DEF Exact
<1>2. \A n : ~ Chunk(h.blocks, ptr, n)
  BY DEF Exact
<1>3. CASE HasHostBlock(h, ptr) /\ ptr # NULL
  <2> DEFINE i == CHOOSE k \in DOMAIN h.blocks : HostBlock(h, ptr, k)
             b == h.blocks[i]
             at == {k \in 0..(b.tot_elts - 1) : b.first_ptr + k * b.elt_size = ptr}
             c == CHOOSE k \in at : \A l \in at : k <= l
  <2>1. i \in DOMAIN h.blocks
    BY <1>3 DEF HasHostBlock
  <2> HIDE DEF i
  <2>2. b \in BlockRecs
    BY <2>1 DEF HeapOK
  <2>3. at = {} \/ c \notin b.used
    <3> SUFFICES ASSUME at # {}, c \in b.used PROVE FALSE
      OBVIOUS
    <3>1. at \subseteq Nat
      BY <2>2 DEF BlockRecs
    <3>2. c \in at
      <4> HIDE DEF at
      <4>1. \E l \in at : \A m \in at : l <= m
        BY <3>1, LeastNatural
      <4> QED
        BY <4>1
    <3> HIDE DEF c
    <3>3. ptr = ChunkAt(b, c)
      BY <3>2 DEF ChunkAt
    <3>4. 0 <= b.elt_size
      BY <2>2 DEF BlockRecs
    <3>5. Chunk(h.blocks, ptr, 0)
      BY <2>1, <3>3, <3>4 DEF Chunk
    <3> QED
      BY <1>2, <3>5
  <2>4. FreeChunk(h, ptr) = Panicked(h)
    BY <2>3 DEF FreeChunk, i
  <2> QED
    BY <1>3, <2>4 DEF Kfree
<1>4. CASE ~ (HasHostBlock(h, ptr) /\ ptr # NULL)
  BY <1>1, <1>4 DEF Kfree
<1> QED
  BY <1>3, <1>4

\* A kmalloc() that succeeds takes what it returns, and its metadata.
LEMMA KmallocExact ==
  ASSUME SizesFit, NEW h, HeapOK(h, {}), NEW O, AreasOK(h, O), Exact(h, O), NEW size \in Sizes,
         NEW r, r = Kmalloc(h, size), ~ r.heap.panicked, r.ret # NULL
  PROVE  Exact(r.heap, O \cup {[ptr |-> r.ret, size |-> size]})
<1> DEFINE e == Rounded(size)
           x == [ptr |-> r.ret, size |-> size]
<1>1. e \in Nat /\ e > 0 /\ x.ptr = r.ret /\ size \in Nat
  BY RoundedRequest
<1>2. size # 0 /\ BlocksOK(h.blocks)
  BY DEF Kmalloc, AreasOK
<1> HIDE DEF e, x
<1>3. CASE ~ (e >= PageSize)
  <2>1. r = SmallAlloc(h, e)
    BY <1>2, <1>3 DEF Kmalloc, e
  <2>2. HandsOut(h.blocks, r.heap.blocks, r.ret, e)
    BY <1>1, <1>2, <2>1, SmallAllocHandsOut
  <2>3. r.heap.bigs = h.bigs
    BY <1>1, <2>1, SmallAllocKeeps
  <2>4. ASSUME NEW p, NEW n, Chunk(r.heap.blocks, p, n)
        PROVE  (\E o \in O \cup {x} : o.ptr = p) \/ (\E i \in DOMAIN h.bigs : h.bigs[i].meta = p)
    <3>1. Chunk(h.blocks, p, n) \/ p = r.ret
      BY <2>2, <2>4 DEF HandsOut
    <3> QED
      BY <1>1, <3>1 DEF Exact
  <2> QED
    BY <2>3, <2>4 DEF Exact, x
<1>4. CASE e >= PageSize
  <2>1. r = big_alloc(h, e)
    BY <1>2, <1>4 DEF Kmalloc, e
  <2>2. PICK f \in RamFrames : \E m, g : AddsBig(h, e, f, m, g, r)
    BY <1>1, <2>1, BigAllocKeeps
  <2>3. PICK m, g : AddsBig(h, e, f, m, g, r)
    BY <2>2
  <2> DEFINE b == [ptr |-> Base(f), size |-> e, meta |-> g.ret]
             s == h.bigs
             t == r.heap.bigs
  <2>4. /\ HeapOK(m, Run(f, e \div PageSize)) /\ m.blocks = h.blocks
        /\ g = SmallAlloc(m, Rounded(MetaSize)) /\ ~ g.heap.panicked
        /\ g.ret \in Nat /\ g.ret # NULL
        /\ r.ret = Base(f) /\ r.heap.blocks = g.heap.blocks
        /\ Front(b, s, t)
    BY <2>3 DEF AddsBig
  <2>5. b.ptr = r.ret /\ b.meta = g.ret
    BY <2>4
  <2> HIDE DEF b
  <2>6. HandsOut(h.blocks, r.heap.blocks, g.ret, Rounded(MetaSize))
    <3>1. BlocksOK(m.blocks)
      BY <1>2, <2>4
    <3>2. HandsOut(m.blocks, g.heap.blocks, g.ret, Rounded(MetaSize))
      BY <2>4, <3>1, RoundedMeta, SmallAllocHandsOut
    <3> QED
      BY <2>4, <3>2
  <2> HIDE DEF s, t
  <2>7. /\ 1 \in DOMAIN t /\ t[1] = b
        /\ \A j \in DOMAIN t : j = 1 \/ (j - 1 \in DOMAIN s /\ t[j] = s[j - 1])
        /\ \A i \in DOMAIN s : i + 1 \in DOMAIN t /\ t[i + 1] = s[i]
    <3>1. Front(b, s, t)
      BY <2>4
    <3>2. t[1] = b
      BY <3>1 DEF Front
    <3> QED
      BY <3>1, <3>2, FrontEntries
  <2>8. ASSUME NEW p, NEW n, Chunk(r.heap.blocks, p, n)
        PROVE  (\E o \in O \cup {x} : o.ptr = p) \/ (\E i \in DOMAIN t : t[i].meta = p)
    <3>1. CASE Chunk(h.blocks, p, n)
      <4>1. (\E o \in O : o.ptr = p) \/ (\E i \in DOMAIN s : s[i].meta = p)
        BY <3>1 DEF Exact, s
      <4> QED
        BY <2>7, <4>1
    <3>2. CASE p = g.ret
      BY <2>5, <2>7, <3>2
    <3> QED
      BY <2>6, <2>8, <3>1, <3>2 DEF HandsOut
  <2>9. ASSUME NEW j \in DOMAIN t PROVE \E o \in O \cup {x} : o.ptr = t[j].ptr
    <3>1. CASE j = 1
      BY <1>1, <2>5, <2>7, <3>1
    <3>2. CASE j # 1
      <4>1. j - 1 \in DOMAIN s /\ t[j] = s[j - 1]
        BY <2>7, <3>2
      <4> QED
        BY <4>1 DEF Exact, s
    <3> QED
      BY <3>1, <3>2
  <2> QED
    BY <2>8, <2>9 DEF Exact, x, t
<1> QED
  BY <1>3, <1>4

LEMMA FreeChunkExact ==
  ASSUME NEW h, HeapOK(h, {}), NEW O, AreasOK(h, O), Exact(h, O),
         NEW ptr, HasHostBlock(h, ptr), NEW h2, h2 = FreeChunk(h, ptr), ~ h2.panicked
  PROVE  Exact(h2, {o \in O : o.ptr # ptr})
<1> DEFINE P == {o \in O : o.ptr # ptr}
<1>0. BlocksOK(h.blocks)
  BY DEF AreasOK
<1>1. /\ h2.bigs = h.bigs /\ Chunk(h.blocks, ptr, 0)
      /\ \A q, n : Chunk(h2.blocks, q, n) => Chunk(h.blocks, q, n) /\ q # ptr
  BY <1>0, FreeChunkFrees
<1>2. ASSUME NEW q, NEW n, Chunk(h2.blocks, q, n)
      PROVE  (\E o \in P : o.ptr = q) \/ (\E i \in DOMAIN h2.bigs : h2.bigs[i].meta = q)
  <2>1. Chunk(h.blocks, q, n) /\ q # ptr
    BY <1>1, <1>2
  <2>2. (\E o \in O : o.ptr = q) \/ (\E i \in DOMAIN h.bigs : h.bigs[i].meta = q)
    BY <2>1 DEF Exact
  <2> QED
    BY <1>1, <2>1, <2>2
<1>3. ASSUME NEW i \in DOMAIN h2.bigs PROVE \E o \in P : o.ptr = h2.bigs[i].ptr
  <2>1. h.bigs[i].ptr # ptr
    BY <1>0, <1>1, ChunkIsNoBig
  <2>2. PICK o \in O : o.ptr = h.bigs[i].ptr
    BY <1>1 DEF Exact
  <2> QED
    BY <1>1, <2>1, <2>2
<1> QED
  BY <1>2, <1>3 DEF Exact

LEMMA BigFreeExact ==
  ASSUME NEW h, HeapOK(h, {}), NEW O, AreasOK(h, O), Exact(h, O), NEW i \in DOMAIN h.bigs,
         NEW h2, h2 = big_free(h, i), ~ h2.panicked
  PROVE  Exact(h2, {o \in O : o.ptr # h.bigs[i].ptr})
<1> DEFINE P == {o \in O : o.ptr # h.bigs[i].ptr}
           meta == h.bigs[i].meta
<1>0. BlocksOK(h.blocks)
  BY DEF AreasOK
<1>1. PICK out : DropsBig(h, i, out, h2)
  BY BigFreeKeeps
<1>2. /\ HeapOK(out, {}) /\ out.blocks = h.blocks
      /\ HasHostBlock(out, meta) /\ h2 = FreeChunk(out, meta)
      /\ Without(h.bigs, i, out.bigs)
  BY <1>1 DEF DropsBig
<1> DEFINE t == h2.bigs
           s == h.bigs
<1>3. /\ t = out.bigs
      /\ \A q, n : Chunk(h2.blocks, q, n) => Chunk(h.blocks, q, n) /\ q # meta
  <2>1. BlocksOK(out.blocks)
    BY <1>0, <1>2
  <2> HIDE DEF meta
  <2>2. /\ h2.bigs = out.bigs
        /\ \A q, n : Chunk(h2.blocks, q, n) => Chunk(out.blocks, q, n) /\ q # meta
    BY <1>2, <2>1, FreeChunkFrees
  <2> QED
    BY <1>2, <2>2
<1>4. /\ \A j \in DOMAIN t : Place(i, j) \in DOMAIN s \ {i} /\ t[j] = s[Place(i, j)]
      /\ \A k \in DOMAIN s \ {i} : \E j \in DOMAIN t : t[j] = s[k]
  BY <1>2, <1>3, WithoutEntries
<1> HIDE DEF meta, t, s
<1>5. ASSUME NEW q, NEW n, Chunk(h2.blocks, q, n)
      PROVE  (\E o \in P : o.ptr = q) \/ (\E j \in DOMAIN t : t[j].meta = q)
  <2>1. Chunk(h.blocks, q, n) /\ q # meta
    BY <1>3, <1>5
  <2>2. h.bigs[i].ptr # q
    BY <1>0, <2>1, ChunkIsNoBig
  <2>3. CASE \E o \in O : o.ptr = q
    BY <2>2, <2>3
  <2>4. CASE \E k \in DOMAIN s : s[k].meta = q
    <3>1. PICK k \in DOMAIN s : s[k].meta = q
      BY <2>4
    <3>2. k # i
      BY <2>1, <3>1 DEF meta, s
    <3> QED
      BY <1>4, <3>1, <3>2
  <2> QED
    BY <2>1, <2>3, <2>4 DEF Exact, s
<1>6. ASSUME NEW j \in DOMAIN t PROVE \E o \in P : o.ptr = t[j].ptr
  <2>1. PICK k \in DOMAIN s \ {i} : t[j] = s[k]
    BY <1>4
  <2>2. h.bigs[k].ptr # h.bigs[i].ptr
    BY <2>1, BigsDiffer DEF s
  <2>3. PICK o \in O : o.ptr = h.bigs[k].ptr
    BY DEF Exact, s
  <2> QED
    BY <2>1, <2>2, <2>3 DEF s
<1> QED
  BY <1>5, <1>6 DEF Exact, t

\* Until the kernel panics nothing is in use but what the callers hold.
ExactInv == ~ heap.panicked => Exact(heap, objects)

LEMMA InitExact == Init => ExactInv
<1> SUFFICES ASSUME Init PROVE Exact(heap, objects)
  BY DEF ExactInv
<1>1. heap.blocks = <<>> /\ heap.bigs = <<>>
  BY DEF Init
<1>2. DOMAIN <<>> = {}
  OBVIOUS
<1> QED
  BY <1>1, <1>2 DEF Exact, Chunk

LEMMA NextExact ==
  ASSUME SizesFit, IInv, AreasInv, ExactInv, [Next]_vars
  PROVE  ExactInv'
<1>1. ASSUME NEW size \in Sizes, kmalloc(size), ~ (heap').panicked
      PROVE  Exact(heap', objects')
  <2> DEFINE r == Kmalloc(heap, size)
  <2>1. /\ HeapOK(heap, {}) /\ AreasOK(heap, objects) /\ Exact(heap, objects)
        /\ heap' = r.heap /\ ~ r.heap.panicked
        /\ objects' = IF r.ret = NULL THEN objects
                      ELSE objects \cup {[ptr |-> r.ret, size |-> size]}
    BY <1>1 DEF kmalloc, IInv, AreasInv, ExactInv
  <2> HIDE DEF r
  <2>2. CASE r.ret = NULL
    <3>1. r.heap = heap
      BY <2>1, <2>2, KmallocKeeps DEF r
    <3> QED
      BY <2>1, <2>2, <3>1
  <2>3. CASE r.ret # NULL
    <3>1. Exact(r.heap, objects \cup {[ptr |-> r.ret, size |-> size]})
      BY <2>1, <2>3, KmallocExact DEF r
    <3> QED
      BY <2>1, <2>3, <3>1
  <2> QED
    BY <2>2, <2>3
<1>2. ASSUME NEW ptr \in Pointers, kfree(ptr), ~ (heap').panicked
      PROVE  Exact(heap', objects')
  <2> DEFINE h2 == Kfree(heap, ptr)
  <2>1. /\ HeapOK(heap, {}) /\ AreasOK(heap, objects) /\ Exact(heap, objects)
        /\ heap' = h2 /\ ~ h2.panicked
        /\ objects' = {o \in objects : o.ptr # ptr}
    BY <1>2 DEF kfree, IInv, AreasInv, ExactInv
  <2> HIDE DEF h2
  <2>2. CASE HasHostBlock(heap, ptr) /\ h2 = FreeChunk(heap, ptr)
    BY <2>1, <2>2, FreeChunkExact
  <2>3. CASE \E i \in DOMAIN heap.bigs : heap.bigs[i].ptr = ptr /\ h2 = big_free(heap, i)
    BY <2>1, <2>3, BigFreeExact
  <2> QED
    BY <2>1, <2>2, <2>3, KfreeFrees DEF h2
<1>3. CASE UNCHANGED vars
  BY <1>3 DEF vars, ExactInv
<1>4. ExactInv' = (~ (heap').panicked => Exact(heap', objects'))
  BY DEF ExactInv
<1> QED
  BY <1>1, <1>2, <1>3, <1>4 DEF Next

\* For every layout of the memory in which no region ends at the top of the
\* address space, and sizes up to 2^31: kfree() of an area the caller holds
\* works, and kfree() of any other pointer (NULL, into an area or a header, or
\* freed before and not handed out again) panics and changes nothing else.
THEOREM KfreeExact == SizesFit /\ TopIsFree => (Spec => KfreeTellsRightFromWrong)
<1> SUFFICES ASSUME SizesFit, TopIsFree PROVE Spec => KfreeTellsRightFromWrong
  OBVIOUS
<1> DEFINE Inv == IInv /\ AreasInv /\ ExactInv
           Told == \A ptr \in Pointers :
                     kfree(ptr) => IF \E o \in objects : o.ptr = ptr
                                     THEN ~ (heap').panicked
                                     ELSE heap' = [heap EXCEPT !.panicked = TRUE]
<1>1. ASSUME Inv PROVE [Told]_vars
  <2> SUFFICES ASSUME NEW ptr \in Pointers, kfree(ptr)
               PROVE  IF \E o \in objects : o.ptr = ptr
                        THEN ~ (heap').panicked
                        ELSE heap' = [heap EXCEPT !.panicked = TRUE]
    OBVIOUS
  <2>1. /\ heap' = Kfree(heap, ptr) /\ ~ heap.panicked
        /\ HeapOK(heap, {}) /\ AreasOK(heap, objects) /\ Exact(heap, objects)
    BY <1>1 DEF kfree, IInv, AreasInv, ExactInv
  <2>2. CASE \E o \in objects : o.ptr = ptr
    <3>1. PICK o \in objects : o.ptr = ptr
      BY <2>2
    <3>2. heap' = Kfree(heap, o.ptr)
      BY <2>1, <3>1
    <3>3. ~ (heap').panicked
      BY <2>1, <3>2, KfreeAccepts
    <3> QED
      BY <2>2, <3>3
  <2>3. CASE ~ \E o \in objects : o.ptr = ptr
    <3>1. \A i \in DOMAIN heap.bigs : heap.bigs[i].meta # ptr
      BY <2>1, NeverMetadata
    <3>2. heap' = Panicked(heap)
      BY <2>1, <2>3, <3>1, KfreeRejects
    <3> QED
      BY <2>3, <3>2 DEF Panicked
  <2> QED
    BY <2>2, <2>3
<1>2. Inv => [Told]_vars
  BY <1>1
<1> HIDE DEF Told
<1>3. Init => Inv
  BY InitIInv, InitAreas, InitExact
<1>4. Inv /\ [Next]_vars => Inv'
  BY NextIInv, NextAreas, NextExact
<1> HIDE DEF Inv
<1>5. Spec => [][Told]_vars
  BY <1>2, <1>3, <1>4, PTL DEF Spec
<1> QED
  BY <1>5 DEF KfreeTellsRightFromWrong, Told

=============================================================================
