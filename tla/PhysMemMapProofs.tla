-------------------------- MODULE PhysMemMapProofs --------------------------
(***************************************************************************)
(* Proofs about the memory part of the boot, for every machine that a      *)
(* bootloader may leave: any number of entries in the memory map, in any   *)
(* order, and any places of the kernel, the multiboot structures and the   *)
(* module.                                                                 *)
(***************************************************************************)
EXTENDS PhysMemMap, InductionProofs, SequenceTheorems, TLAPS

-----------------------------------------------------------------------------
(* The bubble sorts *)

Members(s) == {s[i] : i \in 1..Len(s)}

AllApart(s) == \A i, j \in 1..Len(s) : i = j \/ Apart(s[i], s[j])

\* From entry n + 1 on, every entry is in its place: none before it is larger.
Rises(s, n) ==
  \A i, j \in 1..Len(s) : i < j /\ n < j => s[i].addr <= s[j].addr

\* What a pass over the first n entries of s has done when it has compared
\* entry i with the next one.
PassInv(S, s, n, d, i) ==
  /\ d.s \in Seq(S) /\ Len(d.s) = Len(s)
  /\ Members(d.s) = Members(s)
  /\ AllApart(s) => AllApart(d.s)
  /\ d.last \in 0..i
  /\ \A a, b \in 1..Len(s) :
       a < b /\ (n < b \/ (d.last < b /\ b <= i + 1)) => d.s[a].addr <= d.s[b].addr

\* Two entries of a sequence, exchanged.
Exchanged(s, i) == [s EXCEPT ![i] = s[i + 1], ![i + 1] = s[i]]

LEMMA Swapped ==
  ASSUME NEW S, NEW s \in Seq(S), NEW i \in 1..(Len(s) - 1)
  PROVE  /\ Exchanged(s, i) \in Seq(S) /\ Len(Exchanged(s, i)) = Len(s)
         /\ Exchanged(s, i)[i] = s[i + 1] /\ Exchanged(s, i)[i + 1] = s[i]
         /\ \A j \in 1..Len(s) :
              j # i /\ j # i + 1 => Exchanged(s, i)[j] = s[j]
         /\ Members(Exchanged(s, i)) = Members(s)
         /\ AllApart(s) => AllApart(Exchanged(s, i))
<1> DEFINE n == Len(s)
           t == [s EXCEPT ![i] = s[i + 1], ![i + 1] = s[i]]
           At(j) == IF j = i THEN i + 1 ELSE IF j = i + 1 THEN i ELSE j
<1>1. n \in Nat /\ s \in [1..n -> S] /\ DOMAIN s = 1..n
  BY LenProperties
<1>2. i \in 1..n /\ i + 1 \in 1..n /\ i # i + 1
  BY <1>1
<1> HIDE DEF n
<1>3. t \in [1..n -> S]
  BY <1>1, <1>2
<1>4. \A j \in 1..n : t[j] = s[At(j)] /\ At(j) \in 1..n
  BY <1>1, <1>2
<1>5. t \in Seq(S) /\ Len(t) = n
  BY <1>1, <1>3, SeqDef, LenProperties
<1>6. t[i] = s[i + 1] /\ t[i + 1] = s[i]
  BY <1>1, <1>2
<1>7. \A j \in 1..n : j # i /\ j # i + 1 => t[j] = s[j]
  BY <1>1, <1>2
<1>8. Members(t) = Members(s)
  <2>1. \A j \in 1..n : At(At(j)) = j
    BY <1>2
  <2> HIDE DEF t, At
  <2>2. \A j \in 1..n : s[j] = t[At(j)] /\ At(j) \in 1..n
    BY <1>4, <2>1
  <2>3. Members(t) \subseteq Members(s)
    BY <1>4, <1>5 DEF Members, n
  <2>4. Members(s) \subseteq Members(t)
    BY <1>5, <2>2 DEF Members, n
  <2> QED
    BY <2>3, <2>4
<1>9. ASSUME AllApart(s) PROVE AllApart(t)
  <2>1. \A j, k \in 1..n : At(j) = At(k) => j = k
    BY <1>2
  <2> HIDE DEF t, At
  <2>2. \A j, k \in 1..n : j = k \/ Apart(t[j], t[k])
    BY <1>4, <1>9, <2>1 DEF AllApart, n
  <2> QED
    BY <1>5, <2>2 DEF AllApart
<1> HIDE DEF t, At
<1>10. /\ t \in Seq(S) /\ Len(t) = Len(s)
       /\ t[i] = s[i + 1] /\ t[i + 1] = s[i]
       /\ \A j \in 1..Len(s) : j # i /\ j # i + 1 => t[j] = s[j]
       /\ Members(t) = Members(s)
       /\ AllApart(s) => AllApart(t)
  BY <1>5, <1>6, <1>7, <1>8, <1>9 DEF n
<1> QED
  BY <1>10 DEF t, Exchanged

\* The largest entry of those the pass has seen goes up with it.
LEMMA ComparePasses ==
  ASSUME NEW S, \A x \in S : x.addr \in Nat, NEW s \in Seq(S), NEW n \in 1..Len(s),
         NEW i \in 1..(n - 1), NEW d, PassInv(S, s, n, d, i - 1)
  PROVE  PassInv(S, s, n, Compare(d, i), i)
<1> DEFINE N == Len(s)
           u == d.s
           l == d.last
           t == Exchanged(u, i)
<1>1. N \in Nat /\ n \in Nat /\ i \in Nat /\ n <= N /\ 1 <= i /\ i < n
  BY LenProperties
<1>2. /\ u \in Seq(S) /\ Len(u) = N /\ Members(u) = Members(s)
      /\ AllApart(s) => AllApart(u)
      /\ l \in 0..(i - 1)
      /\ \A a, b \in 1..N :
           a < b /\ (n < b \/ (l < b /\ b <= i)) => u[a].addr <= u[b].addr
  <2>1. i - 1 + 1 = i
    BY <1>1
  <2> QED
    BY <2>1 DEF PassInv
<1> HIDE DEF N, u, l
<1>3. \A a \in 1..N : u[a].addr \in Nat
  BY <1>2, ElementOfSeq
<1>4. i \in 1..N /\ i + 1 \in 1..N
  BY <1>1
<1>5. CASE u[i].addr > u[i + 1].addr
  <2>1. Compare(d, i) = [s |-> t, last |-> i]
    BY <1>5 DEF Compare, u, Exchanged
  <2>2. /\ t \in Seq(S) /\ Len(t) = N
        /\ t[i] = u[i + 1] /\ t[i + 1] = u[i]
        /\ \A j \in 1..N : j # i /\ j # i + 1 => t[j] = u[j]
        /\ Members(t) = Members(u)
        /\ AllApart(u) => AllApart(t)
    <3>1. i \in 1..(Len(u) - 1)
      BY <1>1, <1>2
    <3> QED
      BY <1>2, <3>1, Swapped
  <2> HIDE DEF t
  <2>3. ASSUME NEW a \in 1..N, NEW b \in 1..N, a < b,
               n < b \/ (i < b /\ b <= i + 1)
        PROVE  t[a].addr <= t[b].addr
    <3>1. CASE b = i + 1
      <4>1. \A c \in 1..i : u[c].addr <= u[i].addr
        <5>1. \A c \in 1..(i - 1) : u[c].addr <= u[i].addr
          BY <1>1, <1>2, <1>4
        <5>2. u[i].addr <= u[i].addr
          BY <1>3, <1>4
        <5> QED
          BY <1>1, <5>1, <5>2
      <4>2. CASE a = i
        BY <1>3, <1>4, <1>5, <2>2, <3>1, <4>2
      <4>3. CASE a # i
        <5>1. a \in 1..i /\ a # i + 1
          BY <1>1, <2>3, <3>1
        <5> QED
          BY <2>2, <3>1, <4>1, <4>3, <5>1
      <4> QED
        BY <4>2, <4>3
    <3>2. CASE b # i + 1
      <4>1. n < b /\ b # i
        BY <1>1, <2>3, <3>2
      <4>2. \A c \in 1..N : c < b => u[c].addr <= u[b].addr
        BY <1>2, <4>1
      <4>3. t[b] = u[b]
        BY <2>2, <3>2, <4>1
      <4>4. i < b /\ i + 1 < b
        BY <1>1, <4>1
      <4>5. CASE a = i
        BY <1>4, <2>2, <4>2, <4>3, <4>4, <4>5
      <4>6. CASE a = i + 1
        BY <1>4, <2>2, <4>2, <4>3, <4>4, <4>6
      <4>7. CASE a # i /\ a # i + 1
        BY <2>2, <2>3, <4>2, <4>3, <4>7
      <4> QED
        BY <4>5, <4>6, <4>7
    <3> QED
      BY <3>1, <3>2
  <2>4. i \in 0..i
    BY <1>1
  <2> DEFINE e == Compare(d, i)
  <2>5. e.s = t /\ e.last = i
    BY <2>1
  <2> HIDE DEF e
  <2>6. PassInv(S, s, n, e, i)
    BY <1>2, <2>2, <2>3, <2>4, <2>5 DEF PassInv, N
  <2> QED
    BY <2>6 DEF e
<1>6. CASE ~ (u[i].addr > u[i + 1].addr)
  <2>1. Compare(d, i) = d
    BY <1>6 DEF Compare, u
  <2>2. u[i].addr <= u[i + 1].addr
    BY <1>3, <1>4, <1>6
  <2>3. ASSUME NEW a \in 1..N, NEW b \in 1..N, a < b,
               n < b \/ (l < b /\ b <= i + 1)
        PROVE  u[a].addr <= u[b].addr
    <3>1. CASE b = i + 1
      <4>1. CASE a = i
        BY <2>2, <3>1, <4>1
      <4>2. CASE a # i
        <5>1. a < i /\ l < i
          BY <1>1, <1>2, <2>3, <3>1, <4>2
        <5>2. u[a].addr <= u[i].addr
          BY <1>1, <1>2, <1>4, <5>1
        <5> QED
          BY <1>3, <1>4, <2>2, <3>1, <5>2
      <4> QED
        BY <4>1, <4>2
    <3>2. CASE b # i + 1
      <4>1. n < b \/ (l < b /\ b <= i)
        BY <1>1, <2>3, <3>2
      <4> QED
        BY <1>2, <2>3, <4>1
    <3> QED
      BY <3>1, <3>2
  <2>4. l \in 0..i
    BY <1>1, <1>2
  <2>5. PassInv(S, s, n, d, i)
    BY <1>2, <2>3, <2>4 DEF PassInv, N, u, l
  <2> QED
    BY <2>1, <2>5
<1> QED
  BY <1>5, <1>6 

LEMMA PassEnds ==
  ASSUME NEW S, \A x \in S : x.addr \in Nat, NEW s \in Seq(S), NEW n \in 1..Len(s),
         Rises(s, n)
  PROVE  PassInv(S, s, n, SortPass(s, n), n - 1)
<1> DEFINE N == Len(s)
           Q == {q \in Seq(S) : Len(q) = N}
           T == [s : Q, last : 0..N]
           base == [s |-> s, last |-> 0]
           step == [x \in (1..(n - 1)) \X T |-> Compare(x[2], x[1])]
           after == CHOOSE f : f = [i \in 0..(n - 1) |->
                      IF i = 0 THEN base ELSE Compare(f[i - 1], i)]
<1>1. N \in Nat /\ n \in Nat /\ n - 1 \in Nat /\ n <= N /\ 1 <= n
  BY LenProperties
<1>2. base \in T
  BY <1>1
<1>3. ASSUME NEW i \in 1..(n - 1), NEW d \in T PROVE Compare(d, i) \in T
  <2>1. d.s \in Seq(S) /\ Len(d.s) = N /\ d.last \in 0..N
    OBVIOUS
  <2>2. i \in 1..(Len(d.s) - 1) /\ i \in 0..N
    BY <1>1, <2>1
  <2>3. Exchanged(d.s, i) \in Q
    BY <2>1, <2>2, Swapped
  <2>4. [s |-> Exchanged(d.s, i), last |-> i] \in T
    BY <2>2, <2>3
  <2> QED
    BY <2>4 DEF Compare, Exchanged
<1>4. step \in [(1..(n - 1)) \X T -> T]
  <2> HIDE DEF T
  <2> QED
    BY <1>3
<1> DEFINE K == n - 1
<1>5. PICK f : IsRecursion(f, T, K, base, step)
  <2>1. K \in Nat /\ step \in [(1..K) \X T -> T]
    BY <1>1, <1>4
  <2> HIDE DEF T, base, step, K
  <2> QED
    BY <1>2, <2>1, RecursionExists
<1>5a. /\ f \in [0..(n - 1) -> T]
       /\ f[0] = base
       /\ \A i \in 1..(n - 1) : f[i] = step[<<i, f[i - 1]>>]
  <2> HIDE DEF T, base, step
  <2> QED
    BY <1>5 DEF IsRecursion
<1>6. \A i \in 1..(n - 1) : f[i] = Compare(f[i - 1], i)
  <2> TAKE i \in 1..(n - 1)
  <2>1. i - 1 \in 0..(n - 1)
    BY <1>1
  <2>2. f[i - 1] \in T
    BY <1>5a, <2>1
  <2>3. <<i, f[i - 1]>> \in (1..(n - 1)) \X T
    BY <2>2
  <2> HIDE DEF T
  <2>4. step[<<i, f[i - 1]>>] = Compare(f[i - 1], i)
    BY <2>3
  <2> QED
    BY <1>5a, <2>4
<1> HIDE DEF T, base, step
<1>7. f = [i \in 0..(n - 1) |-> IF i = 0 THEN base ELSE Compare(f[i - 1], i)]
  <2>1. \A i \in 0..(n - 1) : i # 0 => i \in 1..(n - 1)
    BY <1>1
  <2> QED
    BY <1>6, <1>5a, <2>1
<1>8. after = [i \in 0..(n - 1) |->
                 IF i = 0 THEN base ELSE Compare(after[i - 1], i)]
  BY <1>7
<1>9. SortPass(s, n) = after[n - 1]
  BY DEF SortPass, base
<1> HIDE DEF after
<1>10. after[0] = base
  BY <1>1, <1>8
<1>11. \A i \in 1..(n - 1) : after[i] = Compare(after[i - 1], i)
  BY <1>1, <1>8
<1> DEFINE H == {i \in Nat : i <= n - 1 => PassInv(S, s, n, after[i], i)}
<1>12. 0 \in H
  <2>1. base.s = s /\ base.last = 0
    BY DEF base
  <2>2. \A a, b \in 1..N : a < b /\ (n < b \/ (0 < b /\ b <= 0 + 1)) =>
          s[a].addr <= s[b].addr
    <3> SUFFICES ASSUME NEW a \in 1..N, NEW b \in 1..N, a < b,
                        n < b \/ (0 < b /\ b <= 0 + 1)
                 PROVE  s[a].addr <= s[b].addr
      OBVIOUS
    <3>1. n < b
      OBVIOUS
    <3> QED
      BY <3>1 DEF Rises
  <2>3. PassInv(S, s, n, base, 0)
    BY <2>1, <2>2 DEF PassInv
  <2> QED
    BY <1>10, <2>3
<1>13. ASSUME NEW i \in Nat, i \in H PROVE i + 1 \in H
  <2> SUFFICES ASSUME i + 1 <= n - 1
               PROVE  PassInv(S, s, n, after[i + 1], i + 1)
    OBVIOUS
  <2> DEFINE k == i + 1
             d == after[i]
  <2>1. k \in 1..(n - 1) /\ k - 1 = i
    BY <1>1
  <2>2. after[k] = Compare(d, k)
    BY <1>11, <2>1
  <2>3. PassInv(S, s, n, d, i)
    BY <1>1, <1>13
  <2> HIDE DEF k, d, H
  <2>4. PassInv(S, s, n, Compare(d, k), k)
    BY <2>1, <2>3, ComparePasses
  <2> QED
    BY <2>2, <2>4 DEF k
<1> HIDE DEF H
<1>14. \A i \in Nat : i \in H
  BY <1>12, <1>13, Induction
<1>15. PassInv(S, s, n, after[n - 1], n - 1)
  <2>1. n - 1 \in H /\ n - 1 <= n - 1
    BY <1>1, <1>14
  <2> QED
    BY <2>1 DEF H
<1> QED
  BY <1>9, <1>15

\* A pass over the entries that may be out of order leaves fewer of them; it
\* only moves entries.
LEMMA SortPassSorts ==
  ASSUME NEW S, \A x \in S : x.addr \in Nat, NEW s \in Seq(S), NEW n \in 1..Len(s),
         Rises(s, n)
  PROVE  /\ SortPass(s, n).s \in Seq(S) /\ Len(SortPass(s, n).s) = Len(s)
         /\ Members(SortPass(s, n).s) = Members(s)
         /\ AllApart(s) => AllApart(SortPass(s, n).s)
         /\ SortPass(s, n).last \in 0..(n - 1)
         /\ Rises(SortPass(s, n).s, SortPass(s, n).last)
<1> DEFINE d == SortPass(s, n)
           l == d.last
<1>1. PassInv(S, s, n, d, n - 1)
  BY PassEnds
<1> HIDE DEF d
<1>2. Len(s) \in Nat /\ n \in Nat
  BY LenProperties
<1>3. n - 1 + 1 = n
  BY <1>2
<1>4. l \in 0..(n - 1) /\ Len(d.s) = Len(s)
  BY <1>1 DEF PassInv
<1>5. \A a, b \in 1..Len(s) :
        a < b /\ (n < b \/ (l < b /\ b <= n)) => d.s[a].addr <= d.s[b].addr
  BY <1>1, <1>3 DEF PassInv
<1> HIDE DEF l
<1>6. \A a, b \in 1..Len(s) : a < b /\ l < b => d.s[a].addr <= d.s[b].addr
  <2> TAKE a, b \in 1..Len(s)
  <2> HAVE a < b /\ l < b
  <2>1. n < b \/ (l < b /\ b <= n)
    BY <1>2
  <2> QED
    BY <1>5, <2>1
<1>7. Rises(d.s, l)
  BY <1>4, <1>6 DEF Rises
<1> QED
  BY <1>1, <1>4, <1>7 DEF PassInv, d, l

-----------------------------------------------------------------------------
(* The invariant up to the place of the map *)

Pcs == {"flags", "sort_mbr", "sort_mmap", "locate", "avoid", "fill", "kernel",
        "pmm", "module", "pfa", "paging", "done", "panic"}

Areas == [addr : Nat, len : Nat]

size == phys_mem_map_size(boot)

\* The sort only moves the entries of the memory map.
BootInv ==
  /\ pc \in Pcs
  /\ boot \in Machines
  /\ mmap \in Seq(MmapEntries) /\ Len(mmap) = Len(boot.mmap)
  /\ Members(mmap) = Members(boot.mmap) /\ AllApart(mmap)

StructuresInv ==
  pc \notin {"flags", "panic"} =>
    mbr \in Seq(Areas) /\ Members(mbr) = Members(MultibootAreas(boot))

\* What is sorted already.
SortInv ==
  /\ pc = "sort_mbr" => unsorted \in 0..Len(mbr) /\ Rises(mbr, unsorted)
  /\ pc \in {"sort_mmap", "locate", "avoid"} => Rises(mbr, 0)
  /\ pc = "sort_mmap" => unsorted \in 0..Len(mmap) /\ Rises(mmap, unsorted)
  /\ pc \in {"locate", "avoid", "fill"} => Rises(mmap, 0)

\* The address of the map, chosen or tried, is behind the kernel and at most the
\* rest of a page behind the top of what is loaded, so that no sum with it wraps.
Behind ==
  /\ pmm_addr \in Nat /\ pmm_addr > boot.kernel_end
  /\ pmm_addr < Top(boot) + PageSize /\ pmm_addr + size < AddrSpace

\* The structures that the map was moved past stay out of its way, because
\* they are sorted.
TriedInv ==
  /\ pc \in {"flags", "sort_mbr", "sort_mmap"} => seg = 1
  /\ pc \in {"locate", "avoid"} => seg \in Nat \ {0}
  /\ pc = "avoid" =>
       /\ seg \in 1..Len(mmap) /\ Usable(mmap[seg])
       /\ nth \in 1..(Len(mbr) + 1)
       /\ Behind /\ pmm_addr >= mmap[seg].addr
       /\ \A i \in 1..(nth - 1) : Apart(Pmm, mbr[i])

PlacedInv ==
  Located =>
    /\ Behind
    /\ \A i \in 1..Len(mbr) : Apart(Pmm, mbr[i])
    /\ \E i \in 1..Len(mmap) :
         /\ Usable(mmap[i]) /\ Inside(Pmm, Shrunk(mmap[i]))
         /\ mmap[i].addr + Shrunk(mmap[i]).len < AddrSpace

LocationInv == BootInv /\ StructuresInv /\ SortInv /\ TriedInv /\ PlacedInv

-----------------------------------------------------------------------------
(* The machine *)

LEMMA Constants ==
  /\ PageSize \in Nat /\ PageSize > 0 /\ PtPages \in Nat /\ PtPages > 0
  /\ AddrSpace \in Nat /\ LowMem \in Nat /\ VramStart \in Nat
  /\ 0 < LowMem /\ LowMem < AddrSpace /\ VramStart <= LowMem
  /\ LowMem % PageSize = 0 /\ AddrSpace % PageSize = 0
  /\ Sizeof.mbi \in Nat /\ Sizeof.mmap \in Nat /\ Sizeof.mod \in Nat
  /\ Sizeof.pmm \in Nat /\ Sizeof.pmme \in Nat
  /\ Sizeof.pfa \in Nat /\ Sizeof.ptr \in Nat /\ Sizeof.region \in Nat
BY BootAssumption

\* What the bootloader left, field by field.
LEMMA MachineTypes ==
  ASSUME NEW b \in Machines
  PROVE  /\ b.mmap \in Seq(MmapEntries)
         /\ b.mbi \in Nat /\ b.mmap_addr \in Nat /\ b.mods_addr \in Nat
         /\ b.mod_start \in Nat /\ b.mod_end \in Nat /\ b.kernel_end \in Nat
         /\ b.mods_count \in Nat
         /\ MapEntries(b) \in Nat /\ phys_mem_map_size(b) \in Nat
         /\ MultibootAreas(b) \in Seq(Areas)
         /\ b.mod_start <= b.mod_end
<1>1. b \in BootInfo /\ WellLoaded(b)
  BY BootAssumption
<1>2. /\ b.mmap \in Seq(MmapEntries)
      /\ b.mbi \in Nat /\ b.mmap_addr \in Nat /\ b.mods_addr \in Nat
      /\ b.mod_start \in Nat /\ b.mod_end \in Nat /\ b.kernel_end \in Nat
      /\ b.mods_count \in Nat
  BY <1>1 DEF BootInfo
<1>3. Len(b.mmap) \in Nat
  BY <1>2, LenProperties
<1>4. MapEntries(b) \in Nat
  <2> DEFINE n == Len(b.mmap)
             k == IF ModuleLoaded(b) THEN 1 ELSE 0
  <2>1. n \in Nat /\ k \in Nat
    BY <1>3
  <2>2. MapEntries(b) = 3 * (n + 2 + k)
    BY DEF MapEntries
  <2> HIDE DEF n, k
  <2> QED
    BY <2>1, <2>2
<1>5. phys_mem_map_size(b) \in Nat
  BY <1>4, Constants DEF phys_mem_map_size
<1>6. b.mod_start <= b.mod_end
  BY <1>1 DEF WellLoaded
<1>7. MultibootAreas(b) \in Seq(Areas)
  <2>1. Area(b.mbi, Sizeof.mbi) \in Areas
    BY <1>2, Constants DEF Area, Areas
  <2>2. Area(b.mmap_addr, Len(b.mmap) * Sizeof.mmap) \in Areas
    <3> DEFINE l == Len(b.mmap) * Sizeof.mmap
    <3>1. l \in Nat
      <4> DEFINE n == Len(b.mmap)
                 k == Sizeof.mmap
      <4>1. n \in Nat /\ k \in Nat
        BY <1>3, Constants
      <4> HIDE DEF n, k
      <4>2. n * k \in Nat
        BY <4>1
      <4> QED
        BY <4>2 DEF n, k
    <3> HIDE DEF l
    <3>2. Area(b.mmap_addr, l) \in Areas
      BY <1>2, <3>1 DEF Area, Areas
    <3> QED
      BY <3>2 DEF l
  <2>3. Area(b.mods_addr, Sizeof.mod) \in Areas
    BY <1>2, Constants DEF Area, Areas
  <2>4. Module(b) \in Areas
    BY <1>2, <1>6 DEF Module, Area, Areas
  <2> QED
    BY <2>1, <2>2, <2>3, <2>4 DEF MultibootAreas
<1> QED
  BY <1>2, <1>4, <1>5, <1>6, <1>7

\* The entries of the memory map, also after they were sorted.
LEMMA EntryFacts ==
  ASSUME NEW b \in Machines, NEW m \in Members(b.mmap)
  PROVE  /\ m.addr \in Nat /\ m.len \in Nat /\ m.type \in {AVAILABLE, RESERVED}
         /\ m.len > 0
         /\ m.addr < LowMem => m.addr + m.len <= LowMem
         /\ \/ m.addr + m.len <= AddrSpace
            \/ m.addr >= AddrSpace
            \/ m.len >= AddrSpace
         /\ m.type = AVAILABLE /\ m.addr < AddrSpace =>
              /\ m.addr < Top(b)
              /\ m.addr + m.len < AddrSpace \/ m.addr % PageSize = 0
<1>1. PICK i \in 1..Len(b.mmap) : m = b.mmap[i]
  BY DEF Members
<1>2. b.mmap \in Seq(MmapEntries) /\ WellLoaded(b)
  BY BootAssumption, MachineTypes
<1>3. m \in MmapEntries /\ i \in DOMAIN b.mmap
  BY <1>1, <1>2, ElementOfSeq, LenProperties
<1>4. m.addr \in Nat /\ m.len \in Nat /\ m.type \in {AVAILABLE, RESERVED}
  BY <1>3 DEF MmapEntries
<1> QED
  BY <1>1, <1>2, <1>3, <1>4 DEF WellLoaded

LEMMA AreaFacts ==
  ASSUME NEW b \in Machines, NEW a \in Members(MultibootAreas(b))
  PROVE  /\ a.addr \in Nat /\ a.len \in Nat
         /\ a.addr + a.len < Top(b)
         /\ Apart(a, Kernel(b)) /\ Apart(a, Vram)
<1> DEFINE areas == MultibootAreas(b)
<1>1. areas \in Seq(Areas) /\ WellLoaded(b)
  BY BootAssumption, MachineTypes
<1> HIDE DEF areas
<1>2. PICK i \in 1..Len(areas) : a = areas[i]
  BY DEF Members, areas
<1>3. a \in Areas /\ i \in DOMAIN areas
  BY <1>1, <1>2, ElementOfSeq, LenProperties
<1>4. a.addr + a.len < Top(b) /\ Apart(a, Kernel(b)) /\ Apart(a, Vram)
  BY <1>1, <1>2, <1>3 DEF WellLoaded, areas
<1> QED
  BY <1>3, <1>4 DEF Areas

\* page_align() below the top of the address space.
LEMMA PageAlign ==
  ASSUME NEW x \in Nat, x + PageSize <= AddrSpace
  PROVE  /\ page_align(x) \in Nat
         /\ x <= page_align(x) /\ page_align(x) < x + PageSize
         /\ page_align(x) % PageSize = 0
<1>1. CASE x % PageSize = 0
  BY <1>1, Constants DEF page_align
<1>2. CASE x % PageSize # 0
  <2> DEFINE q == x \div PageSize
             r == x % PageSize
             y == (q + 1) * PageSize
  <2>1. q \in Nat /\ r \in Nat /\ r < PageSize /\ x = PageSize * q + r
    BY Constants
  <2>2. y = PageSize * q + PageSize
    BY <2>1, Constants
  <2>3. r > 0
    BY <1>2, <2>1
  <2>4. y \in Nat /\ x <= y /\ y < x + PageSize
    BY <2>1, <2>2, <2>3, Constants
  <2>5. y < AddrSpace
    BY <2>4, Constants
  <2>6. W(y) = y
    BY <2>4, <2>5, Constants DEF W
  <2>7. y % PageSize = 0
    BY <2>1, Constants
  <2>8. page_align(x) = y
    BY <1>2, <2>6 DEF page_align
  <2> QED
    BY <2>4, <2>7, <2>8
<1> QED
  BY <1>1, <1>2

LEMMA NoWrap ==
  ASSUME NEW x \in Nat, x < AddrSpace
  PROVE  W(x) = x
BY Constants DEF W

-----------------------------------------------------------------------------
(* The steps up to the place of the map *)

LEMMA InitLocation == Init => LocationInv
<1> SUFFICES ASSUME Init PROVE LocationInv
  OBVIOUS
<1>1. pc = "flags" /\ boot \in Machines /\ mmap = boot.mmap /\ seg = 1
  BY DEF Init
<1>2. AllApart(mmap)
  <2>1. WellLoaded(boot) /\ boot.mmap \in Seq(MmapEntries)
    BY <1>1, BootAssumption, MachineTypes
  <2>2. DOMAIN boot.mmap = 1..Len(boot.mmap)
    BY <2>1, LenProperties
  <2> QED
    BY <1>1, <2>1, <2>2 DEF WellLoaded, AllApart
<1>3. BootInv
  BY <1>1, <1>2, MachineTypes DEF BootInv, Pcs
<1> QED
  BY <1>1, <1>3 DEF LocationInv, StructuresInv, SortInv, TriedInv, PlacedInv, Located

\* Nothing is to be shown of a boot that has panicked.
LEMMA PanicLocation ==
  ASSUME LocationInv, Panic, UNCHANGED <<boot, mmap>>
  PROVE  LocationInv'
BY DEF LocationInv, BootInv, StructuresInv, SortInv, TriedInv, PlacedInv, Located, Panic,
       Pcs

LEMMA CheckFlagsLocation ==
  ASSUME LocationInv, CheckFlags
  PROVE  LocationInv'
<1>1. CASE Panic
  BY <1>1, PanicLocation DEF CheckFlags
<1>2. CASE ~ Panic
  <2>1. /\ mbr' = MultibootAreas(boot) /\ unsorted' = Len(mbr') /\ pc' = "sort_mbr"
        /\ UNCHANGED <<boot, mmap, seg>> /\ pc = "flags"
    BY <1>2 DEF CheckFlags
  <2>2. boot \in Machines
    BY DEF LocationInv, BootInv
  <2>3. mbr' \in Seq(Areas) /\ Len(mbr') \in Nat
    BY <2>1, <2>2, MachineTypes, LenProperties
  <2>4. Rises(mbr', unsorted')
    BY <2>1, <2>3 DEF Rises
  <2>5. BootInv' /\ StructuresInv'
    BY <2>1, <2>3 DEF LocationInv, BootInv, StructuresInv, Pcs
  <2>6. SortInv' /\ TriedInv' /\ PlacedInv'
    BY <2>1, <2>3, <2>4 DEF LocationInv, SortInv, TriedInv, PlacedInv, Located
  <2> QED
    BY <2>5, <2>6 DEF LocationInv
<1> QED
  BY <1>1, <1>2

LEMMA SortMbrLocation ==
  ASSUME LocationInv, sort_phys_mmap
  PROVE  LocationInv'
<1>1. /\ pc = "sort_mbr" /\ boot \in Machines /\ UNCHANGED <<boot, mmap, seg>>
      /\ mbr \in Seq(Areas) /\ Members(mbr) = Members(MultibootAreas(boot))
      /\ unsorted \in 0..Len(mbr) /\ Rises(mbr, unsorted)
      /\ mmap \in Seq(MmapEntries) /\ seg = 1
  BY DEF LocationInv, BootInv, StructuresInv, SortInv, TriedInv, sort_phys_mmap
<1>2. Len(mbr) \in Nat /\ Len(mmap) \in Nat
  BY <1>1, LenProperties
<1>3. CASE unsorted > 0
  <2>1. mbr' = SortPass(mbr, unsorted).s /\ unsorted' = SortPass(mbr, unsorted).last
        /\ pc' = pc
    BY <1>3 DEF sort_phys_mmap
  <2>2. unsorted \in 1..Len(mbr)
    BY <1>1, <1>2, <1>3
  <2>3. \A x \in Areas : x.addr \in Nat
    BY DEF Areas
  <2>4. /\ mbr' \in Seq(Areas) /\ Len(mbr') = Len(mbr)
        /\ Members(mbr') = Members(mbr)
        /\ unsorted' \in 0..(unsorted - 1)
        /\ Rises(mbr', unsorted')
    BY <1>1, <2>1, <2>2, <2>3, SortPassSorts
  <2>5. unsorted' \in 0..Len(mbr')
    BY <1>2, <2>2, <2>4
  <2>6. BootInv' /\ StructuresInv'
    BY <1>1, <2>1, <2>4 DEF LocationInv, BootInv, StructuresInv
  <2>7. SortInv' /\ TriedInv' /\ PlacedInv'
    BY <1>1, <2>1, <2>4, <2>5 DEF SortInv, TriedInv, PlacedInv, Located
  <2> QED
    BY <2>6, <2>7 DEF LocationInv
<1>4. CASE ~ (unsorted > 0)
  <2>1. unsorted' = Len(mmap) /\ pc' = "sort_mmap" /\ mbr' = mbr
    BY <1>4 DEF sort_phys_mmap
  <2>2. unsorted = 0
    BY <1>1, <1>2, <1>4
  <2>3. Rises(mbr', 0) /\ Rises(mmap', unsorted')
    BY <1>1, <1>2, <2>1, <2>2 DEF Rises
  <2>4. unsorted' \in 0..Len(mmap')
    BY <1>1, <1>2, <2>1
  <2>5. BootInv' /\ StructuresInv'
    BY <1>1, <2>1 DEF LocationInv, BootInv, StructuresInv, Pcs
  <2>6. SortInv' /\ TriedInv' /\ PlacedInv'
    BY <1>1, <2>1, <2>3, <2>4 DEF SortInv, TriedInv, PlacedInv, Located
  <2> QED
    BY <2>5, <2>6 DEF LocationInv
<1> QED
  BY <1>3, <1>4

LEMMA SortMmapLocation ==
  ASSUME LocationInv, sort_multiboot_mmap
  PROVE  LocationInv'
<1>1. /\ pc = "sort_mmap" /\ boot \in Machines /\ UNCHANGED <<boot, mbr, seg>>
      /\ mmap \in Seq(MmapEntries) /\ Len(mmap) = Len(boot.mmap)
      /\ Members(mmap) = Members(boot.mmap) /\ AllApart(mmap)
      /\ unsorted \in 0..Len(mmap) /\ Rises(mmap, unsorted) /\ Rises(mbr, 0)
      /\ seg = 1
  BY DEF LocationInv, BootInv, SortInv, TriedInv, sort_multiboot_mmap
<1>2. Len(mmap) \in Nat
  BY <1>1, LenProperties
<1>3. CASE unsorted > 0
  <2>1. mmap' = SortPass(mmap, unsorted).s /\ unsorted' = SortPass(mmap, unsorted).last
        /\ pc' = pc
    BY <1>3 DEF sort_multiboot_mmap
  <2>2. unsorted \in 1..Len(mmap)
    BY <1>1, <1>2, <1>3
  <2>3. \A x \in MmapEntries : x.addr \in Nat
    BY DEF MmapEntries
  <2>4. /\ mmap' \in Seq(MmapEntries) /\ Len(mmap') = Len(mmap)
        /\ Members(mmap') = Members(mmap) /\ AllApart(mmap')
        /\ unsorted' \in 0..(unsorted - 1)
        /\ Rises(mmap', unsorted')
    BY <1>1, <2>1, <2>2, <2>3, SortPassSorts
  <2>5. unsorted' \in 0..Len(mmap')
    BY <1>2, <2>2, <2>4
  <2>6. BootInv' /\ StructuresInv'
    BY <1>1, <2>1, <2>4 DEF LocationInv, BootInv, StructuresInv
  <2>7. SortInv' /\ TriedInv' /\ PlacedInv'
    BY <1>1, <2>1, <2>4, <2>5 DEF SortInv, TriedInv, PlacedInv, Located
  <2> QED
    BY <2>6, <2>7 DEF LocationInv
<1>4. CASE ~ (unsorted > 0)
  <2>1. pc' = "locate" /\ mmap' = mmap /\ seg' = 1
    BY <1>1, <1>4 DEF sort_multiboot_mmap
  <2>2. unsorted = 0
    BY <1>1, <1>2, <1>4
  <2>3. BootInv' /\ StructuresInv'
    BY <1>1, <2>1 DEF LocationInv, BootInv, StructuresInv, Pcs
  <2>4. SortInv' /\ TriedInv' /\ PlacedInv'
    BY <1>1, <2>1, <2>2 DEF SortInv, TriedInv, PlacedInv, Located
  <2> QED
    BY <2>3, <2>4 DEF LocationInv
<1> QED
  BY <1>3, <1>4

\* A segment of the memory map that may hold the map.
LEMMA UsableFacts ==
  ASSUME LocationInv, NEW i \in 1..Len(mmap)
  PROVE  /\ mmap[i] \in Members(boot.mmap)
         /\ mmap[i].addr \in Nat /\ mmap[i].len \in Nat /\ mmap[i].len > 0
         /\ Usable(mmap[i]) => mmap[i].addr < Top(boot)
         /\ mmap[i].addr < AddrSpace =>
              /\ Shrunk(mmap[i]).addr = mmap[i].addr
              /\ Shrunk(mmap[i]).len \in Nat /\ Shrunk(mmap[i]).len > 0
              /\ Shrunk(mmap[i]).len <= mmap[i].len
              /\ mmap[i].addr + Shrunk(mmap[i]).len <= AddrSpace
              /\ \/ mmap[i].addr + Shrunk(mmap[i]).len = AddrSpace
                 \/ Shrunk(mmap[i]).len = mmap[i].len
              /\ Shrunk(mmap[i]).type = mmap[i].type
<1> DEFINE m == mmap[i]
<1>1. boot \in Machines /\ m \in Members(boot.mmap)
  BY DEF LocationInv, BootInv, Members
<1> HIDE DEF m
<1>2. /\ m.addr \in Nat /\ m.len \in Nat /\ m.type \in {AVAILABLE, RESERVED}
      /\ m.len > 0
      /\ m.addr < LowMem => m.addr + m.len <= LowMem
      /\ \/ m.addr + m.len <= AddrSpace
         \/ m.addr >= AddrSpace
         \/ m.len >= AddrSpace
      /\ m.type = AVAILABLE /\ m.addr < AddrSpace => m.addr < Top(boot)
  BY <1>1, EntryFacts
<1>3. Usable(m) => m.addr < Top(boot)
  BY <1>2 DEF Usable
<1>4. ASSUME m.addr < AddrSpace
      PROVE  /\ Shrunk(m).addr = m.addr
             /\ Shrunk(m).len \in Nat /\ Shrunk(m).len > 0
             /\ Shrunk(m).len <= m.len
             /\ m.addr + Shrunk(m).len <= AddrSpace
             /\ m.addr + Shrunk(m).len = AddrSpace \/ Shrunk(m).len = m.len
             /\ Shrunk(m).type = m.type
  <2> DEFINE u == m.addr
             v == m.len
             l == Shrunk(m).len
  <2>1. Shrunk(m).addr = u /\ Shrunk(m).type = m.type
        /\ l = IF v >= AddrSpace THEN W(AddrSpace - u) ELSE v
    BY DEF Shrunk
  <2> HIDE DEF u, v, l
  <2>2. /\ u \in Nat /\ v \in Nat /\ v > 0 /\ u < AddrSpace
        /\ u < LowMem => u + v <= LowMem
        /\ v >= AddrSpace \/ u + v <= AddrSpace
    BY <1>2, <1>4, Constants DEF u, v
  <2>3. CASE v >= AddrSpace
    <3>1. u > 0
      BY <2>2, <2>3, Constants
    <3>2. AddrSpace - u \in Nat /\ AddrSpace - u < AddrSpace
      BY <2>2, <3>1, Constants
    <3>3. l = AddrSpace - u
      BY <2>1, <2>3, <3>2, NoWrap
    <3>4. l \in Nat /\ l > 0 /\ l <= v /\ u + l = AddrSpace /\ u + l <= AddrSpace
      BY <2>2, <2>3, <3>3, Constants
    <3> QED
      BY <2>1, <3>4 DEF u, v, l
  <2>4. CASE ~ (v >= AddrSpace)
    <3>1. l = v /\ l <= v /\ u + l <= AddrSpace
      BY <2>1, <2>2, <2>4
    <3> QED
      BY <2>1, <2>2, <3>1 DEF u, v, l
  <2> QED
    BY <2>3, <2>4
<1>5. /\ m \in Members(boot.mmap)
      /\ m.addr \in Nat /\ m.len \in Nat /\ m.len > 0
  BY <1>1, <1>2
<1> QED
  BY <1>3, <1>4, <1>5 DEF m

\* The bytes that one page table maps.
TableBytes == PtPages * PageSize

\* Between Top and 4 GiB there is room for the last page table, for the map, for
\* the metadata and for three times what page_align() may add.
LEMMA SizeFacts ==
  ASSUME LocationInv
  PROVE  /\ size \in Nat /\ boot.kernel_end \in Nat
         /\ boot.kernel_end > LowMem
         /\ MetaBound(boot) \in Nat /\ TableBytes \in Nat
         /\ Top(boot) \in Nat
         /\ Top(boot) = AddrSpace - (TableBytes + 3 * PageSize + size + MetaBound(boot))
         /\ Top(boot) <= AddrSpace - PageSize - size
         /\ boot.kernel_end < Top(boot)
         /\ boot.kernel_end < AddrSpace - PageSize - size
<1>1. boot \in Machines
  BY DEF LocationInv, BootInv
<1>2. WellLoaded(boot)
  BY <1>1, BootAssumption
<1> DEFINE z == size
           k == boot.kernel_end
           m == MetaBound(boot)
           t == TableBytes
           top == Top(boot)
<1>3. z \in Nat /\ k \in Nat /\ k > LowMem /\ k < top
  BY <1>1, <1>2, MachineTypes DEF WellLoaded, size, kernel_start
<1>4. t \in Nat /\ (PtPages + 3) * PageSize = t + 3 * PageSize
  BY Constants DEF TableBytes
<1>5. m \in Nat
  <2> DEFINE n == MapEntries(boot)
             g == Sizeof.ptr + Sizeof.region
             f == Sizeof.pfa
             a == AddrSpace \div PageSize
  <2>0. n \in Nat /\ f \in Nat /\ Sizeof.ptr \in Nat /\ Sizeof.region \in Nat
    BY <1>1, MachineTypes, Constants
  <2>1. g \in Nat /\ a \in Nat
    BY <2>0, Constants
  <2>2. m = f + n * g + a
    BY DEF MetaBound
  <2> HIDE DEF n, g, f, a, m
  <2>3. n * g \in Nat
    BY <2>0, <2>1
  <2> QED
    BY <2>0, <2>1, <2>2, <2>3
<1>6. top = AddrSpace - (PtPages + 3) * PageSize - z - m
  BY DEF Top, size
<1> HIDE DEF z, k, m, t, top
<1>7. top = AddrSpace - (t + 3 * PageSize) - z - m
  BY <1>4, <1>6
<1>8. /\ top = AddrSpace - (t + 3 * PageSize + z + m)
      /\ top <= AddrSpace - PageSize - z
      /\ k < AddrSpace - PageSize - z /\ top \in Nat
  BY <1>3, <1>4, <1>5, <1>7, Constants
<1> QED
  BY <1>3, <1>4, <1>5, <1>8 DEF z, k, m, t, top

LEMMA NextSegmentLocation ==
  ASSUME LocationInv, NextSegment
  PROVE  LocationInv'
<1>1. /\ pc = "locate" /\ boot \in Machines /\ UNCHANGED <<boot, mmap, mbr, unsorted>>
      /\ seg \in Nat \ {0}
      /\ mmap \in Seq(MmapEntries) /\ mbr \in Seq(Areas)
  BY DEF LocationInv, BootInv, StructuresInv, TriedInv, NextSegment
<1>2. CASE seg > Len(mmap)
  BY <1>1, <1>2, PanicLocation DEF NextSegment
<1>3. CASE ~ (seg > Len(mmap)) /\ ~ Usable(mmap[seg])
  <2>1. seg' = seg + 1 /\ pc' = pc
    BY <1>3 DEF NextSegment
  <2>2. BootInv' /\ StructuresInv' /\ SortInv'
    BY <1>1, <2>1 DEF LocationInv, BootInv, StructuresInv, SortInv
  <2>3. TriedInv' /\ PlacedInv'
    BY <1>1, <2>1 DEF TriedInv, PlacedInv, Located
  <2> QED
    BY <2>2, <2>3 DEF LocationInv
<1>4. CASE ~ (seg > Len(mmap)) /\ Usable(mmap[seg])
  <2> DEFINE start == page_align(boot.kernel_end + 1)
             m == mmap[seg]
  <2>1. /\ pmm_addr' = IF start < m.addr THEN m.addr ELSE start
        /\ nth' = 1 /\ pc' = "avoid" /\ seg' = seg
    BY <1>4 DEF NextSegment
  <2>2. seg \in 1..Len(mmap)
    BY <1>1, <1>4, LenProperties
  <2>3. m.addr \in Nat /\ m.addr < Top(boot)
    BY <1>4, <2>2, UsableFacts
  <2>4. /\ size \in Nat /\ boot.kernel_end \in Nat /\ Top(boot) \in Nat
        /\ Top(boot) <= AddrSpace - PageSize - size /\ boot.kernel_end < Top(boot)
    BY SizeFacts
  <2> DEFINE top == Top(boot)
  <2> HIDE DEF top, m
  <2>5. /\ top <= AddrSpace - PageSize - size /\ top \in Nat
        /\ boot.kernel_end < top /\ m.addr < top
    BY <2>3, <2>4 DEF top, m
  <2>6. boot.kernel_end + 1 \in Nat /\ boot.kernel_end + 1 + PageSize <= AddrSpace
    <3> HIDE DEF size
    <3> QED
      BY <2>4, <2>5, Constants
  <2>7. start \in Nat /\ boot.kernel_end < start /\ start < boot.kernel_end + 1 + PageSize
    <3> DEFINE x == boot.kernel_end + 1
    <3>1. x \in Nat /\ x + PageSize <= AddrSpace
      BY <2>6
    <3> HIDE DEF x
    <3>2. page_align(x) \in Nat /\ x <= page_align(x) /\ page_align(x) < x + PageSize
      BY <3>1, PageAlign
    <3>3. start = page_align(x)
      BY DEF x
    <3> HIDE DEF start
    <3> QED
      BY <2>4, <3>2, <3>3 DEF x
  <2> HIDE DEF start
  <2>8. /\ pmm_addr' \in Nat /\ pmm_addr' > boot.kernel_end
        /\ pmm_addr' < top + PageSize /\ pmm_addr' + size < AddrSpace /\ pmm_addr' >= m.addr
    <3> HIDE DEF size
    <3>1. CASE start < m.addr
      BY <2>1, <2>3, <2>4, <2>5, <2>7, <3>1, Constants DEF m
    <3>2. CASE ~ (start < m.addr)
      BY <2>1, <2>3, <2>4, <2>5, <2>7, <3>2, Constants DEF m
    <3> QED
      BY <3>1, <3>2
  <2>9. Behind' /\ pmm_addr' >= mmap'[seg'].addr /\ Usable(mmap'[seg'])
    BY <1>1, <1>4, <2>1, <2>8 DEF Behind, size, m, top
  <2>10. BootInv' /\ StructuresInv' /\ SortInv'
    BY <1>1, <2>1 DEF LocationInv, BootInv, StructuresInv, SortInv, Pcs
  <2>11. nth' \in 1..(Len(mbr') + 1) /\ 1..(nth' - 1) = {}
    BY <1>1, <2>1, LenProperties
  <2>12. TriedInv' /\ PlacedInv'
    BY <1>1, <2>1, <2>2, <2>9, <2>11 DEF TriedInv, PlacedInv, Located
  <2> QED
    BY <2>10, <2>12 DEF LocationInv
<1> QED
  BY <1>2, <1>3, <1>4

\* Moving the map behind a structure keeps it off the ones before, which start
\* no later.
LEMMA AvoidLocation ==
  ASSUME LocationInv, AvoidStructure
  PROVE  LocationInv'
<1> DEFINE a == mbr[nth]
           p == pmm_addr
           q == pmm_addr'
           e == a.addr + a.len
           top == Top(boot)
           z == size
           k == boot.kernel_end
           g == mmap[seg].addr
           Clear(x, i) == x + z <= mbr[i].addr \/ mbr[i].addr + mbr[i].len <= x
<1>1. /\ pc = "avoid" /\ boot \in Machines /\ nth <= Len(mbr)
      /\ UNCHANGED <<pc, boot, mmap, mbr, unsorted, seg>>
      /\ seg \in 1..Len(mmap) /\ Usable(mmap[seg]) /\ nth \in 1..(Len(mbr) + 1)
      /\ mmap \in Seq(MmapEntries) /\ mbr \in Seq(Areas) /\ Rises(mbr, 0)
      /\ Members(mbr) = Members(MultibootAreas(boot))
      /\ p \in Nat /\ p > k /\ p < top + PageSize /\ p + z < AddrSpace /\ p >= g
      /\ \A i \in 1..(nth - 1) : Apart(Pmm, mbr[i])
      /\ nth' = nth + 1
      /\ q = MovedPast(p, z, a)
  BY DEF LocationInv, BootInv, StructuresInv, SortInv, TriedInv, Behind, AvoidStructure, size
<1>2. Len(mbr) \in Nat /\ nth \in 1..Len(mbr)
  BY <1>1, LenProperties
<1>3. /\ z \in Nat /\ k \in Nat /\ g \in Nat
      /\ top \in Nat /\ top <= AddrSpace - PageSize - z
  BY <1>1, SizeFacts, UsableFacts
<1>4. \A i \in 1..Len(mbr) :
        mbr[i].addr \in Nat /\ mbr[i].len \in Nat /\ mbr[i].addr + mbr[i].len < top
  <2>1. \A i \in 1..Len(mbr) : mbr[i] \in Members(MultibootAreas(boot))
    <3>1. \A i \in 1..Len(mbr) : mbr[i] \in Members(mbr)
      BY DEF Members
    <3> QED
      BY <1>1, <3>1
  <2> QED
    BY <1>1, <2>1, AreaFacts
<1>5. a.addr \in Nat /\ a.len \in Nat /\ e \in Nat /\ e < top
  BY <1>2, <1>4
<1>5a. \A i \in 1..(nth - 1) : Clear(p, i)
  BY <1>1 DEF Apart, Pmm, Area, size
<1> HIDE DEF a, p, q, e, z, top, k, g
<1>6. W(e) = e /\ W(p + z) = p + z
  <2>1. e < AddrSpace /\ p + z \in Nat
    BY <1>1, <1>3, <1>5, Constants
  <2> QED
    BY <1>1, <1>5, <2>1, NoWrap
<1>7. collides(p, z, a) <=> p < e /\ p + z > a.addr
  BY <1>6 DEF collides, e
<1>8. ASSUME collides(p, z, a)
      PROVE  /\ q \in Nat /\ q > p /\ q < top + PageSize /\ q + z < AddrSpace
             /\ \A i \in 1..nth : Clear(q, i)
  <2>1. p < e /\ p + z > a.addr
    BY <1>7, <1>8
  <2>2. e + PageSize <= AddrSpace
    BY <1>3, <1>5, Constants
  <2>3. q = page_align(e)
    BY <1>1, <1>6, <1>8 DEF MovedPast, e
  <2>4. q \in Nat /\ e <= q /\ q < e + PageSize
    BY <1>5, <2>2, <2>3, PageAlign
  <2>5. q + z < AddrSpace /\ q < top + PageSize
    BY <1>3, <1>5, <2>4, Constants
  <2>6. q > p
    BY <1>1, <1>5, <2>1, <2>4
  <2>7. ASSUME NEW i \in 1..nth PROVE Clear(q, i)
    <3>1. CASE i = nth
      BY <2>4, <3>1 DEF e, a
    <3>2. CASE i # nth
      <4>1. i \in 1..(nth - 1) /\ i \in 1..Len(mbr) /\ i < nth /\ 0 < nth
        BY <1>2, <3>2
      <4>2. mbr[i].addr <= a.addr
        BY <1>1, <1>2, <4>1 DEF Rises, a
      <4>3. p + z <= mbr[i].addr \/ mbr[i].addr + mbr[i].len <= p
        BY <1>5a, <4>1
      <4> DEFINE u == mbr[i].addr
                 v == mbr[i].len
                 w == a.addr
      <4>4. u \in Nat /\ v \in Nat /\ u <= w /\ (p + z <= u \/ u + v <= p) /\ w \in Nat
            /\ p + z > w
        BY <1>4, <1>5, <2>1, <4>1, <4>2, <4>3
      <4> HIDE DEF u, v, w
      <4>5. u + v <= q
        BY <1>1, <1>3, <2>4, <2>6, <4>4
      <4> QED
        BY <4>5 DEF u, v
    <3> QED
      BY <3>1, <3>2
  <2> QED
    BY <2>4, <2>5, <2>6, <2>7
<1>9. ASSUME ~ collides(p, z, a)
      PROVE  q = p /\ \A i \in 1..nth : Clear(q, i)
  <2>1. q = p
    BY <1>1, <1>9 DEF MovedPast
  <2>2. p + z <= a.addr \/ e <= p
    BY <1>1, <1>3, <1>5, <1>7, <1>9
  <2>3. ASSUME NEW i \in 1..nth PROVE Clear(p, i)
    <3>1. CASE i = nth
      BY <2>2, <3>1 DEF e, a
    <3>2. CASE i # nth
      <4>1. i \in 1..(nth - 1)
        BY <1>2, <3>2
      <4> QED
        BY <1>5a, <4>1
    <3> QED
      BY <3>1, <3>2
  <2> QED
    BY <2>1, <2>3
<1>10. /\ q \in Nat /\ q > k /\ q < top + PageSize /\ q + z < AddrSpace /\ q >= g
       /\ \A i \in 1..nth : Clear(q, i)
  <2>1. q \in Nat /\ q >= p /\ q < top + PageSize /\ q + z < AddrSpace /\ \A i \in 1..nth : Clear(q, i)
    <3>1. CASE collides(p, z, a)
      BY <1>1, <1>8, <3>1
    <3>2. CASE ~ collides(p, z, a)
      BY <1>1, <1>9, <3>2
    <3> QED
      BY <3>1, <3>2
  <2>2. q > k /\ q >= g
    BY <1>1, <1>3, <2>1
  <2> QED
    BY <2>1, <2>2
<1>11. nth' - 1 = nth /\ nth' \in 1..(Len(mbr) + 1)
  BY <1>1, <1>2
<1>12. \A i \in 1..(nth' - 1) : Apart(Pmm', mbr'[i])
  BY <1>1, <1>10, <1>11 DEF Apart, Pmm, Area, q, z, size
<1>13. Behind' /\ pmm_addr' >= mmap'[seg'].addr
  BY <1>1, <1>10 DEF Behind, q, z, k, g, top, size
<1>14. TriedInv'
  BY <1>1, <1>11, <1>12, <1>13 DEF TriedInv
<1>15. BootInv' /\ StructuresInv' /\ SortInv' /\ PlacedInv'
  BY <1>1 DEF LocationInv, BootInv, StructuresInv, SortInv, PlacedInv, Located
<1> QED
  BY <1>14, <1>15 DEF LocationInv

\* In the end the map is in the segment: the sums do not wrap.
LEMMA CheckRangeLocation ==
  ASSUME LocationInv, CheckRange
  PROVE  LocationInv'
<1> DEFINE m == mmap[seg]
           p == pmm_addr
           z == size
           l == Shrunk(m).len
           u == m.addr
<1>1. /\ pc = "avoid" /\ boot \in Machines /\ nth > Len(mbr)
      /\ UNCHANGED <<boot, mmap, mbr, unsorted, pmm_addr>>
      /\ seg \in 1..Len(mmap) /\ Usable(m) /\ nth \in 1..(Len(mbr) + 1)
      /\ mmap \in Seq(MmapEntries) /\ mbr \in Seq(Areas)
      /\ Behind /\ p >= u
      /\ \A i \in 1..(nth - 1) : Apart(Pmm, mbr[i])
      /\ Rises(mbr, 0) /\ Rises(mmap, 0)
  BY DEF LocationInv, BootInv, StructuresInv, SortInv, TriedInv, CheckRange
<1>2. Len(mbr) \in Nat /\ nth - 1 = Len(mbr)
  BY <1>1, LenProperties
<1>3. CASE FitsIn(p, Shrunk(m))
  <2>1. pc' = "fill"
    BY <1>3 DEF CheckRange
  <2>2. u < AddrSpace
    BY <1>1 DEF Usable
  <2>3. /\ Shrunk(m).addr = u /\ l \in Nat /\ u \in Nat /\ u + l <= AddrSpace
    BY <1>1, <2>2, UsableFacts
  <2>4. p \in Nat /\ z \in Nat /\ p + z < AddrSpace
    BY <1>1, SizeFacts DEF Behind
  <2>5. W(p + z) <= W(u + l)
    BY <1>3, <2>3 DEF FitsIn, size
  <2> HIDE DEF p, z, l, u
  <2>6. p + z <= u + l /\ u + l < AddrSpace
    <3>1. W(p + z) = p + z
      BY <2>4, NoWrap
    <3>2. CASE u + l < AddrSpace
      BY <2>3, <2>5, <3>1, <3>2, NoWrap
    <3>3. CASE u + l = AddrSpace
      <4>1. W(u + l) = 0
        BY <3>3, Constants DEF W
      <4>2. p > 0
        BY <1>1, SizeFacts DEF Behind, p
      <4> QED
        BY <2>4, <2>5, <3>1, <4>1, <4>2
    <3> QED
      BY <2>3, <3>2, <3>3, Constants
  <2>7. Inside(Pmm, Shrunk(m))
    BY <1>1, <2>3, <2>6 DEF Inside, Pmm, Area, p, z, l, size
  <2>8. Inside(Pmm', Shrunk(mmap'[seg])) /\ mmap'[seg].addr + Shrunk(mmap'[seg]).len < AddrSpace
    BY <1>1, <2>6, <2>7 DEF Pmm, m, u, l
  <2>9. Behind' /\ \A i \in 1..Len(mbr') : Apart(Pmm', mbr'[i])
    BY <1>1, <1>2 DEF Behind, Pmm, size
  <2>10. PlacedInv'
    BY <1>1, <2>8, <2>9 DEF PlacedInv
  <2>11. BootInv' /\ StructuresInv'
    BY <1>1, <2>1 DEF LocationInv, BootInv, StructuresInv, Pcs
  <2>12. SortInv' /\ TriedInv'
    BY <1>1, <2>1 DEF SortInv, TriedInv
  <2> QED
    BY <2>10, <2>11, <2>12 DEF LocationInv
<1>4. CASE ~ FitsIn(p, Shrunk(m))
  <2>1. pc' = "locate" /\ seg' = seg + 1
    BY <1>4 DEF CheckRange
  <2>2. seg' \in Nat \ {0}
    BY <1>1, <2>1
  <2>3. BootInv' /\ StructuresInv'
    BY <1>1, <2>1 DEF LocationInv, BootInv, StructuresInv, Pcs
  <2>4. SortInv' /\ TriedInv' /\ PlacedInv'
    BY <1>1, <2>1, <2>2 DEF SortInv, TriedInv, PlacedInv, Located
  <2> QED
    BY <2>3, <2>4 DEF LocationInv
<1> QED
  BY <1>3, <1>4

\* Once the place is chosen nothing changes it.
LEMMA LaterLocation ==
  ASSUME LocationInv, Located, pc' \in Pcs, Located' \/ pc' = "panic",
         pc' # "fill", UNCHANGED <<boot, mmap, mbr, pmm_addr>>
  PROVE  LocationInv'
<1>1. BootInv' /\ StructuresInv'
  BY DEF LocationInv, BootInv, StructuresInv, Located
<1>2. SortInv' /\ TriedInv'
  BY DEF SortInv, TriedInv, Located
<1>3. PlacedInv'
  BY DEF LocationInv, PlacedInv, Behind, Pmm, size
<1> QED
  BY <1>1, <1>2, <1>3 DEF LocationInv

LEMMA ReserveSteps ==
  ASSUME NEW a, NEW next \in Pcs, pc \in Pcs, reserve_region(a, next)
  PROVE  pc' \in {pc, next, "panic"}
BY DEF reserve_region, Panic

LEMMA NextLocation == LocationInv /\ [Next]_vars => LocationInv'
<1> SUFFICES ASSUME LocationInv, [Next]_vars PROVE LocationInv'
  OBVIOUS
<1>1. CASE CheckFlags
  BY <1>1, CheckFlagsLocation
<1>2. CASE sort_phys_mmap
  BY <1>2, SortMbrLocation
<1>3. CASE sort_multiboot_mmap
  BY <1>3, SortMmapLocation
<1>4. CASE NextSegment
  BY <1>4, NextSegmentLocation
<1>5. CASE AvoidStructure
  BY <1>5, AvoidLocation
<1>6. CASE CheckRange
  BY <1>6, CheckRangeLocation
<1>7. CASE fill_phys_mmap
  BY <1>7, LaterLocation DEF fill_phys_mmap, Located, Pcs
<1>8. CASE ReserveKernel
  <2>1. pc' \in {"kernel", "pmm", "panic"}
    BY <1>8, ReserveSteps DEF ReserveKernel, Pcs
  <2> QED
    BY <1>8, <2>1, LaterLocation DEF ReserveKernel, Located, Pcs
<1>9. CASE ReservePmm
  <2>1. pc' \in {"pmm", "module", "pfa", "panic"}
    <3> DEFINE next == IF ModuleLoaded(boot) THEN "module" ELSE "pfa"
    <3>1. next \in {"module", "pfa"}
      OBVIOUS
    <3>2. next \in Pcs /\ pc \in Pcs /\ pc = "pmm" /\ reserve_region(Pmm, next)
      BY <1>9, <3>1 DEF ReservePmm, Pcs
    <3> HIDE DEF next
    <3>3. pc' \in {pc, next, "panic"}
      BY <3>2, ReserveSteps
    <3> QED
      BY <3>1, <3>2, <3>3
  <2> QED
    BY <1>9, <2>1, LaterLocation DEF ReservePmm, Located, Pcs
<1>10. CASE ReserveModule
  <2>1. pc' \in {"module", "pfa", "panic"}
    BY <1>10, ReserveSteps DEF ReserveModule, Pcs
  <2> QED
    BY <1>10, <2>1, LaterLocation DEF ReserveModule, Located, Pcs
<1>11. CASE pfa_init
  <2>1. pc' \in {"paging", "panic"}
    BY <1>11 DEF pfa_init, Panic
  <2> QED
    BY <1>11, <2>1, LaterLocation DEF pfa_init, Located, Pcs
<1>12. CASE paging_setup
  <2>1. pc' \in {"done", "panic"}
    BY <1>12 DEF paging_setup, Panic
  <2> QED
    BY <1>12, <2>1, LaterLocation DEF paging_setup, Located, Pcs
<1>13. CASE UNCHANGED vars
  BY <1>13 DEF vars, LocationInv, BootInv, StructuresInv, SortInv, TriedInv, PlacedInv,
               Located, Behind, Pmm, size
<1> QED
  BY <1>1, <1>2, <1>3, <1>4, <1>5, <1>6, <1>7, <1>8, <1>9, <1>10, <1>11, <1>12, <1>13
     DEF Next

\* The boot keeps the invariant up to the place of the map, on every machine.
THEOREM Locating == Spec => []LocationInv
BY InitLocation, NextLocation, PTL DEF Spec

\* What the invariant says of the place of the map.
LEMMA SafeInv == LocationInv => MapLocationIsSafe
<1> SUFFICES ASSUME LocationInv, Located
             PROVE  /\ ApartFromAll(Pmm, MultibootAreas(boot))
                    /\ Apart(Pmm, Kernel(boot))
                    /\ \E i \in DOMAIN boot.mmap :
                         /\ boot.mmap[i].type = AVAILABLE
                         /\ Inside(Pmm, Shrunk(boot.mmap[i]))
  BY DEF MapLocationIsSafe
<1>1. /\ boot \in Machines /\ mbr \in Seq(Areas) /\ Members(mmap) = Members(boot.mmap)
      /\ Members(mbr) = Members(MultibootAreas(boot))
      /\ Behind
      /\ \A i \in 1..Len(mbr) : Apart(Pmm, mbr[i])
      /\ \E i \in 1..Len(mmap) : Usable(mmap[i]) /\ Inside(Pmm, Shrunk(mmap[i]))
  BY DEF LocationInv, BootInv, StructuresInv, PlacedInv, Located
<1>2. ApartFromAll(Pmm, MultibootAreas(boot))
  <2> DEFINE areas == MultibootAreas(boot)
  <2>1. DOMAIN areas = 1..Len(areas)
    BY <1>1, MachineTypes, LenProperties
  <2> HIDE DEF areas
  <2>2. \A i \in 1..Len(areas) : areas[i] \in Members(mbr)
    BY <1>1 DEF Members, areas
  <2>3. \A x \in Members(mbr) : Apart(Pmm, x)
    BY <1>1 DEF Members
  <2> QED
    BY <2>1, <2>2, <2>3 DEF ApartFromAll, areas
<1>3. Apart(Pmm, Kernel(boot))
  <2> DEFINE k == boot.kernel_end
             p == pmm_addr
  <2>1. k \in Nat /\ p \in Nat /\ p > k
    BY <1>1, SizeFacts DEF Behind
  <2>2. Kernel(boot).addr + Kernel(boot).len = LowMem + (k - LowMem)
    BY DEF Kernel, Area, kernel_start
  <2>3. Pmm.addr = p
    BY DEF Pmm, Area
  <2> HIDE DEF k, p
  <2>4. LowMem + (k - LowMem) <= p
    BY <2>1, Constants
  <2> QED
    BY <2>2, <2>3, <2>4 DEF Apart
<1>4. PICK i \in 1..Len(mmap) : Usable(mmap[i]) /\ Inside(Pmm, Shrunk(mmap[i]))
  BY <1>1
<1>5. PICK j \in 1..Len(boot.mmap) : boot.mmap[j] = mmap[i]
  <2>1. mmap[i] \in Members(mmap)
    BY DEF Members
  <2> QED
    BY <1>1, <2>1 DEF Members
<1>6. j \in DOMAIN boot.mmap
  BY <1>1, MachineTypes, LenProperties
<1> QED
  BY <1>2, <1>3, <1>4, <1>5, <1>6 DEF Usable

\* find_pmm_location() puts the map into one available region, off the kernel,
\* the multiboot structures and the module.
THEOREM SafePlace == Spec => []MapLocationIsSafe
BY SafeInv, Locating, PTL

-----------------------------------------------------------------------------
(* The map, while areas are reserved in it *)

\* The first k entries of the sorted memory map, as they are put into the map.
ShrunkTo(k) == [i \in 1..k |-> Shrunk(mmap[i])]

LEMMA ShrunkType ==
  ASSUME LocationInv, NEW i \in 1..Len(mmap), mmap[i].addr < AddrSpace
  PROVE  Shrunk(mmap[i]) \in MmapEntries
<1> DEFINE m == mmap[i]
<1>1. Shrunk(m).len \in Nat
  BY UsableFacts
<1>2. m.addr \in Nat /\ m.type \in {AVAILABLE, RESERVED}
  BY EntryFacts, UsableFacts DEF LocationInv, BootInv
<1>3. Shrunk(m) = [addr |-> m.addr, len |-> Shrunk(m).len, type |-> m.type]
  BY DEF Shrunk
<1> HIDE DEF m
<1>4. [addr |-> m.addr, len |-> Shrunk(m).len, type |-> m.type] \in MmapEntries
  BY <1>1, <1>2 DEF MmapEntries
<1>5. Shrunk(m) \in MmapEntries
  BY <1>3, <1>4
<1> QED
  BY <1>5 DEF m

\* The entries below 4 GiB come first.
LEMMA BelowFirst ==
  ASSUME LocationInv, Rises(mmap, 0)
  PROVE  \E K \in 0..Len(mmap) :
           \A k \in 1..Len(mmap) : mmap[k].addr < AddrSpace <=> k <= K
<1> DEFINE n == Len(mmap)
           B == {k \in 1..n : mmap[k].addr < AddrSpace}
<1>1. n \in Nat
  BY LenProperties DEF LocationInv, BootInv
<1>2. \A k \in 1..n : mmap[k].addr \in Nat
  BY UsableFacts
<1>3. CASE B = {}
  <2>1. \A k \in 1..n : ~ (mmap[k].addr < AddrSpace)
    BY <1>3
  <2>2. 0 \in 0..n /\ \A k \in 1..n : ~ (k <= 0)
    BY <1>1
  <2> HIDE DEF B, n
  <2> QED
    BY <2>1, <2>2 DEF n
<1>4. CASE B # {}
  <2>1. B \subseteq 0..n
    BY <1>1
  <2>2. PICK K \in B : \A y \in B : y <= K
    <3> HIDE DEF B
    <3> QED
      BY <1>1, <1>4, <2>1, GreatestNatural
  <2>3. K \in 1..n /\ mmap[K].addr < AddrSpace /\ K \in 0..n
    BY <1>1, <2>2
  <2>4. ASSUME NEW k \in 1..n PROVE mmap[k].addr < AddrSpace <=> k <= K
    <3>1. ASSUME mmap[k].addr < AddrSpace PROVE k <= K
      BY <2>2, <3>1
    <3>2. ASSUME k <= K PROVE mmap[k].addr < AddrSpace
      <4>1. CASE k = K
        BY <2>3, <4>1
      <4>2. CASE k # K
        <5>1. k < K /\ 0 < K
          BY <1>1, <2>3, <3>2, <4>2
        <5>2. mmap[k].addr <= mmap[K].addr
          BY <2>3, <5>1 DEF Rises
        <5> DEFINE u == mmap[k].addr
                   v == mmap[K].addr
        <5>3. u \in Nat /\ v \in Nat /\ u <= v /\ v < AddrSpace
          BY <1>2, <2>3, <5>2
        <5> HIDE DEF u, v
        <5>4. u < AddrSpace
          BY <5>3, Constants
        <5> QED
          BY <5>4 DEF u
      <4> QED
        BY <4>1, <4>2
    <3> QED
      BY <3>1, <3>2
  <2> HIDE DEF B
  <2> QED
    BY <2>3, <2>4
<1> QED
  BY <1>3, <1>4

LEMMA FilledIs ==
  ASSUME LocationInv, NEW K \in 0..Len(mmap),
         \A k \in 1..Len(mmap) : mmap[k].addr < AddrSpace <=> k <= K
  PROVE  Filled = ShrunkTo(K)
<1> DEFINE n == Len(mmap)
           T == Seq(MmapEntries)
           Add(i, q) == IF mmap[i].addr >= AddrSpace THEN q
                        ELSE Append(q, Shrunk(mmap[i]))
           step == [x \in (1..n) \X T |-> Add(x[1], x[2])]
           base == <<>>
           after == CHOOSE f : f = [i \in 0..n |->
                      IF i = 0 THEN <<>> ELSE Add(i, f[i - 1])]
<1>1. n \in Nat /\ K \in Nat /\ K <= n
  BY LenProperties DEF LocationInv, BootInv
<1>2. \A i \in 1..n : mmap[i].addr \in Nat
  BY UsableFacts
<1>3. ASSUME NEW i \in 1..n, NEW q \in T PROVE Add(i, q) \in T
  <2>1. CASE mmap[i].addr >= AddrSpace
    BY <2>1
  <2>2. CASE ~ (mmap[i].addr >= AddrSpace)
    <3> DEFINE u == mmap[i].addr
    <3>1. u \in Nat /\ ~ (u >= AddrSpace)
      BY <1>2, <2>2
    <3> HIDE DEF u
    <3>2. u < AddrSpace
      BY <3>1, Constants
    <3>3. Shrunk(mmap[i]) \in MmapEntries
      BY <3>2, ShrunkType DEF u
    <3> QED
      BY <2>2, <3>3, AppendProperties
  <2> QED
    BY <2>1, <2>2
<1>4. step \in [(1..n) \X T -> T] /\ base \in T
  <2>1. base \in T
    OBVIOUS
  <2> HIDE DEF T, Add, base
  <2> QED
    BY <1>3, <2>1
<1>5. PICK f : IsRecursion(f, T, n, base, step)
  <2> HIDE DEF T, Add, base, step, n
  <2> QED
    BY <1>1, <1>4, RecursionExists
<1>6. \A i \in 1..n : f[i] = Add(i, f[i - 1])
  <2> TAKE i \in 1..n
  <2> HIDE DEF T, Add
  <2>1. i - 1 \in 0..n
    BY <1>1
  <2>2. f[i - 1] \in T
    BY <1>5, <2>1 DEF IsRecursion
  <2>3. <<i, f[i - 1]>> \in (1..n) \X T
    BY <2>2
  <2>4. step[<<i, f[i - 1]>>] = Add(i, f[i - 1])
    BY <2>3
  <2> HIDE DEF step
  <2> QED
    BY <1>5, <2>4 DEF IsRecursion
<1>7. f[0] = <<>> /\ DOMAIN f = 0..n
  <2> HIDE DEF T, step
  <2> QED
    BY <1>5 DEF IsRecursion
<1> HIDE DEF T, step
<1>8. f = [i \in 0..n |-> IF i = 0 THEN <<>> ELSE Add(i, f[i - 1])]
  <2>1. \A i \in 0..n : i # 0 => i \in 1..n
    BY <1>1
  <2>2. \E g : f \in [0..n -> g]
    BY <1>5 DEF IsRecursion
  <2> HIDE DEF Add
  <2> QED
    BY <1>6, <1>7, <2>1, <2>2
<1>9. after = [i \in 0..n |-> IF i = 0 THEN <<>> ELSE Add(i, after[i - 1])]
  <2> HIDE DEF Add
  <2> QED
    BY <1>8
<1>10. Filled = after[n]
  BY DEF Filled
<1> HIDE DEF after
<1>11. after[0] = <<>> /\ \A i \in 1..n : after[i] = Add(i, after[i - 1])
  <2> HIDE DEF Add
  <2> QED
    BY <1>1, <1>9
<1> DEFINE H == {i \in Nat : /\ i <= K => after[i] = ShrunkTo(i)
                             /\ i > K /\ i <= n => after[i] = ShrunkTo(K)}
<1>12. 0 \in H
  <2>1. ShrunkTo(0) = <<>>
    BY DEF ShrunkTo
  <2> QED
    BY <1>1, <1>11, <2>1
<1>13. ASSUME NEW i \in Nat, i \in H PROVE i + 1 \in H
  <2>1. ASSUME i + 1 <= K PROVE after[i + 1] = ShrunkTo(i + 1)
    <3> DEFINE q == ShrunkTo(i)
               e == Shrunk(mmap[i + 1])
    <3>1. i + 1 \in 1..n /\ i <= K /\ i + 1 - 1 = i
      BY <1>1, <2>1
    <3>2. mmap[i + 1].addr < AddrSpace
      BY <2>1, <3>1
    <3>3. ~ (mmap[i + 1].addr >= AddrSpace)
      <4> DEFINE u == mmap[i + 1].addr
      <4>1. u \in Nat /\ u < AddrSpace
        BY <1>2, <3>1, <3>2
      <4> HIDE DEF u
      <4>2. ~ (u >= AddrSpace)
        BY <4>1, Constants
      <4> QED
        BY <4>2 DEF u
    <3>4. after[i + 1] = Append(q, e)
      <4>1. after[i] = q
        BY <1>13, <3>1
      <4>2. after[i + 1] = Add(i + 1, after[i])
        <5> HIDE DEF Add, q, e, H
        <5> QED
          BY <1>11, <3>1
      <4>3. Add(i + 1, after[i]) = Append(after[i], e)
        BY <3>3
      <4> HIDE DEF q, e, Add, H
      <4> QED
        BY <4>1, <4>2, <4>3
    <3>5. \A k \in 1..i : k \in 1..n /\ mmap[k].addr < AddrSpace
      BY <1>1, <3>1
    <3>6. \A k \in 1..i : Shrunk(mmap[k]) \in MmapEntries
      BY <3>5, ShrunkType
    <3>7. q \in Seq(MmapEntries) /\ Len(q) = i
      <4>1. q \in [1..i -> MmapEntries]
        BY <3>6 DEF ShrunkTo
      <4> HIDE DEF q
      <4> QED
        BY <4>1, SeqDef, LenProperties
    <3>8. e \in MmapEntries
      BY <3>1, <3>2, ShrunkType
    <3>9. /\ Append(q, e) \in Seq(MmapEntries) /\ Len(Append(q, e)) = i + 1
          /\ \A k \in 1..i : Append(q, e)[k] = q[k]
          /\ Append(q, e)[i + 1] = e
      <4> HIDE DEF q, e
      <4> QED
        BY <3>7, <3>8, AppendProperties
    <3>10. \A k \in 1..i : q[k] = Shrunk(mmap[k])
      BY DEF ShrunkTo
    <3>11. \A k \in 1..(i + 1) : Append(q, e)[k] = ShrunkTo(i + 1)[k]
      <4> TAKE k \in 1..(i + 1)
      <4>1. ShrunkTo(i + 1)[k] = Shrunk(mmap[k])
        BY DEF ShrunkTo
      <4>2. k \in 1..i \/ k = i + 1
        OBVIOUS
      <4> HIDE DEF q
      <4> QED
        BY <3>9, <3>10, <4>1, <4>2
    <3>12. DOMAIN Append(q, e) = 1..(i + 1) /\ DOMAIN ShrunkTo(i + 1) = 1..(i + 1)
      <4>1. DOMAIN ShrunkTo(i + 1) = 1..(i + 1)
        BY DEF ShrunkTo
      <4> HIDE DEF q, e
      <4> QED
        BY <3>9, <4>1, LenProperties
    <3>13. Append(q, e) = ShrunkTo(i + 1)
      <4>1. Append(q, e) = [k \in 1..(i + 1) |-> Append(q, e)[k]]
        <5> HIDE DEF q, e
        <5>1. Append(q, e) \in [1..(i + 1) -> MmapEntries]
          BY <3>9, LenProperties
        <5> QED
          BY <5>1
      <4>2. ShrunkTo(i + 1) = [k \in 1..(i + 1) |-> ShrunkTo(i + 1)[k]]
        BY DEF ShrunkTo
      <4> HIDE DEF q, e
      <4> QED
        BY <3>11, <4>1, <4>2
    <3> QED
      BY <3>4, <3>13
  <2>2. ASSUME i + 1 > K, i + 1 <= n PROVE after[i + 1] = ShrunkTo(K)
    <3>1. i + 1 \in 1..n /\ ~ (i + 1 <= K) /\ i + 1 - 1 = i
      BY <1>1, <2>2
    <3>2. ~ (mmap[i + 1].addr < AddrSpace)
      BY <3>1
    <3>3. mmap[i + 1].addr >= AddrSpace
      <4> DEFINE u == mmap[i + 1].addr
      <4>1. u \in Nat /\ ~ (u < AddrSpace)
        BY <1>2, <3>1, <3>2
      <4> HIDE DEF u
      <4>2. u >= AddrSpace
        BY <4>1, Constants
      <4> QED
        BY <4>2 DEF u
    <3>4. after[i + 1] = after[i]
      BY <1>11, <3>1, <3>3
    <3>5. after[i] = ShrunkTo(K)
      <4>1. CASE i = K
        BY <1>1, <1>13, <4>1
      <4>2. CASE i # K
        <5>1. i > K /\ i <= n
          BY <1>1, <2>2, <4>2
        <5> QED
          BY <1>13, <5>1
      <4> QED
        BY <4>1, <4>2
    <3> QED
      BY <3>4, <3>5
  <2>3. i + 1 \in Nat
    OBVIOUS
  <2> QED
    BY <2>1, <2>2, <2>3
<1> HIDE DEF H
<1>14. \A i \in Nat : i \in H
  BY <1>12, <1>13, Induction
<1>15. n \in H
  BY <1>1, <1>14
<1>16. after[n] = ShrunkTo(K)
  <2>1. CASE n = K
    <3>1. n <= K
      BY <1>1, <2>1
    <3>2. after[n] = ShrunkTo(n)
      BY <1>15, <3>1 DEF H
    <3> QED
      BY <2>1, <3>2
  <2>2. CASE n # K
    <3>1. n > K /\ n <= n
      BY <1>1, <2>2
    <3> QED
      BY <1>15, <3>1 DEF H
  <2> QED
    BY <2>1, <2>2
<1> QED
  BY <1>10, <1>16

\* Byte x is in entry e; in an entry of the given type of a map.
Covers(e, x) == e.addr <= x /\ x < e.addr + e.len

HasByte(map, type, x) ==
  \E i \in 1..Len(map) : map[i].type = type /\ Covers(map[i], x)

\* A map: entries below 4 GiB, none of them empty, in order and without overlaps.
MapOK(p) ==
  /\ p \in Seq(MmapEntries)
  /\ \A i \in 1..Len(p) : p[i].len > 0 /\ p[i].addr + p[i].len <= AddrSpace
  /\ \A i, j \in 1..Len(p) : i < j => p[i].addr + p[i].len <= p[j].addr

\* Entry e is what splits at the edges of the areas in use left of entry m of
\* the multiboot map.  An entry that reaches 4 GiB is never split.
Edge(c) ==
  \E i \in 1..Len(InUse) : c \in {InUse[i].addr, InUse[i].addr + InUse[i].len}

Piece(e, m) ==
  /\ m.addr < AddrSpace
  /\ Inside(e, Shrunk(m))
  /\ e.addr = m.addr \/ Edge(e.addr)
  /\ e.type = AVAILABLE => m.type = AVAILABLE
  /\ \/ e.addr + e.len = Shrunk(m).addr + Shrunk(m).len
     \/ Edge(e.addr + e.len)
  /\ e.addr + e.len = AddrSpace => e.addr = m.addr

Pieces(p) ==
  \A i \in 1..Len(p) : \E j \in 1..Len(boot.mmap) : Piece(p[i], boot.mmap[j])

\* The entries there may be: two more for each area reserved, and those that
\* the splits for area a have made so far.
Exact(p, a) ==
  \E i \in 1..Len(p) : p[i].type = AVAILABLE /\ p[i].addr = a.addr /\ p[i].len = a.len

Starts(p, a) ==
  \E i \in 1..Len(p) : p[i].type = AVAILABLE /\ p[i].addr = a.addr

Counted(p, a) ==
  Len(p) <= Len(boot.mmap) + 2 * nb_reserved
              + (IF Exact(p, a) THEN 2 ELSE IF Starts(p, a) THEN 1 ELSE 0)

\* The area that is being reserved.
Current == IF pc = "kernel" THEN Kernel(boot) ELSE IF pc = "pmm" THEN Pmm ELSE Module(boot)

Reserving == pc \in {"kernel", "pmm", "module"}

BytesInv(p) ==
  \A x \in 0..(AddrSpace - 1) :
    /\ HasByte(p, AVAILABLE, x) <=> HasByte(boot.mmap, AVAILABLE, x) /\ x \notin Taken
    /\ HasByte(p, RESERVED, x) <=> HasByte(boot.mmap, RESERVED, x) \/ x \in Taken

\* How many areas are reserved; none of them is empty.
ReservedInv ==
  /\ pc \in {"flags", "sort_mbr", "sort_mmap", "locate", "avoid", "fill", "kernel"} =>
       nb_reserved = 0
  /\ pc = "pmm" => nb_reserved = 1
  /\ pc = "module" => nb_reserved = 2 /\ ModuleLoaded(boot)
  /\ pc = "pfa" => nb_reserved = Len(InUse)
  /\ pc \in {"pmm", "module", "pfa"} => \A i \in 1..nb_reserved : InUse[i].len > 0

MapInv ==
  /\ ReservedInv
  /\ Reserving \/ pc = "pfa" => MapOK(pmm) /\ Pieces(pmm) /\ BytesInv(pmm)
  /\ Reserving => Counted(pmm, Current)
  /\ pc = "pfa" => Len(pmm) <= Len(boot.mmap) + 2 * nb_reserved

\* The two halves of an entry, and the map with an entry cut in two.
LeftOf(e, at) == [e EXCEPT !.len = at - e.addr]
RightOf(e, at) == [e EXCEPT !.addr = at, !.len = @ - (at - e.addr)]

CutAt(p, i, at) ==
  SubSeq(p, 1, i - 1) \o <<LeftOf(p[i], at), RightOf(p[i], at)>>
    \o SubSeq(p, i + 1, Len(p))

LEMMA EntryOf ==
  ASSUME NEW p \in Seq(MmapEntries), NEW i \in 1..Len(p)
  PROVE  /\ p[i] \in MmapEntries
         /\ p[i].addr \in Nat /\ p[i].len \in Nat
         /\ p[i].type \in {AVAILABLE, RESERVED}
<1> DEFINE e == p[i]
<1>1. e \in MmapEntries
  BY ElementOfSeq
<1> HIDE DEF e
<1>2. e.addr \in Nat /\ e.len \in Nat /\ e.type \in {AVAILABLE, RESERVED}
  BY <1>1 DEF MmapEntries
<1> QED
  BY <1>1, <1>2 DEF e

LEMMA Halves ==
  ASSUME NEW e \in MmapEntries, NEW at \in Nat, e.addr < at, at < e.addr + e.len
  PROVE  /\ LeftOf(e, at) \in MmapEntries /\ RightOf(e, at) \in MmapEntries
         /\ LeftOf(e, at).addr = e.addr /\ LeftOf(e, at).len > 0
         /\ LeftOf(e, at).addr + LeftOf(e, at).len = at
         /\ RightOf(e, at).addr = at /\ RightOf(e, at).len > 0
         /\ RightOf(e, at).addr + RightOf(e, at).len = e.addr + e.len
         /\ LeftOf(e, at).type = e.type /\ RightOf(e, at).type = e.type
<1> DEFINE u == e.addr
           l == e.len
<1>1. u \in Nat /\ l \in Nat /\ e.type \in {AVAILABLE, RESERVED} /\ u < at /\ at < u + l
  BY DEF MmapEntries
<1>2. /\ LeftOf(e, at) = [addr |-> u, len |-> at - u, type |-> e.type]
      /\ RightOf(e, at) = [addr |-> at, len |-> l - (at - u), type |-> e.type]
  <2>1. e = [addr |-> e.addr, len |-> e.len, type |-> e.type]
    BY DEF MmapEntries
  <2>2. LeftOf(e, at) = [addr |-> u, len |-> at - u, type |-> e.type]
    BY <2>1 DEF LeftOf
  <2>3. RightOf(e, at) = [addr |-> at, len |-> l - (at - u), type |-> e.type]
    <3> DEFINE r == RightOf(e, at)
    <3>1. /\ DOMAIN e = {"addr", "len", "type"}
          /\ r = [f \in DOMAIN e |-> IF f = "len" THEN e.len - (at - e.addr)
                                   ELSE IF f = "addr" THEN at ELSE e[f]]
      BY <2>1 DEF RightOf
    <3> HIDE DEF r
    <3>2. r = [addr |-> at, len |-> e.len - (at - e.addr), type |-> e.type]
      BY <3>1
    <3> QED
      BY <3>2 DEF r
  <2> QED
    BY <2>2, <2>3
<1> HIDE DEF u, l
<1>3. /\ at - u \in Nat /\ at - u > 0 /\ u + (at - u) = at
      /\ l - (at - u) \in Nat /\ l - (at - u) > 0 /\ at + (l - (at - u)) = u + l
  BY <1>1
<1>4. LeftOf(e, at) \in MmapEntries /\ RightOf(e, at) \in MmapEntries
  BY <1>1, <1>2, <1>3 DEF MmapEntries
<1>5. /\ LeftOf(e, at).addr = u /\ LeftOf(e, at).len = at - u
      /\ LeftOf(e, at).type = e.type
      /\ RightOf(e, at).addr = at /\ RightOf(e, at).len = l - (at - u)
      /\ RightOf(e, at).type = e.type
  BY <1>2
<1>6. /\ LeftOf(e, at).len > 0 /\ RightOf(e, at).len > 0
      /\ LeftOf(e, at).addr + LeftOf(e, at).len = at
      /\ RightOf(e, at).addr + RightOf(e, at).len = u + l
  BY <1>3, <1>5
<1> QED
  BY <1>4, <1>5, <1>6 DEF u, l

\* Where the entries are after a split.
LEMMA CutEntries ==
  ASSUME NEW p \in Seq(MmapEntries), NEW i \in 1..Len(p), NEW at \in Nat,
         p[i].addr < at, at < p[i].addr + p[i].len
  PROVE  /\ CutAt(p, i, at) \in Seq(MmapEntries)
         /\ Len(CutAt(p, i, at)) = Len(p) + 1
         /\ \A k \in 1..(i - 1) : CutAt(p, i, at)[k] = p[k]
         /\ CutAt(p, i, at)[i] = LeftOf(p[i], at)
         /\ CutAt(p, i, at)[i + 1] = RightOf(p[i], at)
         /\ \A k \in (i + 2)..(Len(p) + 1) : CutAt(p, i, at)[k] = p[k - 1]
<1> DEFINE n == Len(p)
           s == SubSeq(p, 1, i - 1)
           x == LeftOf(p[i], at)
           y == RightOf(p[i], at)
           m == <<x, y>>
           t == SubSeq(p, i + 1, n)
<1>1. n \in Nat /\ i \in Nat /\ 1 <= i /\ i <= n
  BY LenProperties
<1>2. x \in MmapEntries /\ y \in MmapEntries
  BY EntryOf, Halves
<1> HIDE DEF n, x, y
<1>3. s \in Seq(MmapEntries) /\ Len(s) = i - 1 /\ \A k \in 1..(i - 1) : s[k] = p[k]
  BY <1>1, SubSeqProperties DEF n
<1>4. t \in Seq(MmapEntries) /\ Len(t) = n - i /\ \A k \in 1..(n - i) : t[k] = p[i + k]
  <2>1. SubSeq(p, i + 1, n) \in Seq(MmapEntries)
    BY <1>1 DEF n
  <2>2. Len(t) = n - i
    BY <1>1 DEF n
  <2>3. \A k \in 1..(n - i) : t[k] = p[i + k]
    BY <1>1 DEF n
  <2> QED
    BY <2>1, <2>2, <2>3
<1>5. m \in Seq(MmapEntries) /\ Len(m) = 2 /\ m[1] = x /\ m[2] = y
  BY <1>2
<1>6. CutAt(p, i, at) = (s \o m) \o t
  BY DEF CutAt, n, x, y
<1> HIDE DEF s, m, t
<1> DEFINE sm == s \o m
<1>7. /\ sm \in Seq(MmapEntries) /\ Len(sm) = i + 1
      /\ \A k \in 1..(i - 1) : sm[k] = s[k]
      /\ sm[i] = x /\ sm[i + 1] = y
  <2>1. sm \in Seq(MmapEntries) /\ Len(sm) = Len(s) + Len(m)
    BY <1>3, <1>5, ConcatProperties
  <2>2. \A k \in 1..(Len(s) + Len(m)) :
          sm[k] = IF k <= Len(s) THEN s[k] ELSE m[k - Len(s)]
    BY <1>3, <1>5, ConcatProperties
  <2>3. \A k \in 1..(i + 1) : sm[k] = IF k <= i - 1 THEN s[k] ELSE m[k - (i - 1)]
    <3>1. Len(s) + Len(m) = i + 1 /\ Len(s) = i - 1
      BY <1>1, <1>3, <1>5
    <3> HIDE DEF sm, s, m
    <3> QED
      BY <2>2, <3>1
  <2> HIDE DEF sm
  <2>4. /\ i \in 1..(i + 1) /\ ~ (i <= i - 1) /\ i - (i - 1) = 1
        /\ i + 1 \in 1..(i + 1) /\ ~ (i + 1 <= i - 1) /\ i + 1 - (i - 1) = 2
    BY <1>1
  <2>5. sm[i] = m[1] /\ sm[i + 1] = m[2]
    BY <2>3, <2>4
  <2>6. \A k \in 1..(i - 1) : k \in 1..(i + 1) /\ k <= i - 1
    BY <1>1
  <2> QED
    BY <1>1, <1>3, <1>5, <2>1, <2>3, <2>5, <2>6
<1> HIDE DEF sm
<1> DEFINE q == sm \o t
<1>8. /\ q \in Seq(MmapEntries) /\ Len(q) = n + 1
      /\ \A k \in 1..(n + 1) : q[k] = IF k <= i + 1 THEN sm[k] ELSE t[k - (i + 1)]
  <2>1. /\ q \in Seq(MmapEntries) /\ Len(q) = Len(sm) + Len(t)
        /\ \A k \in 1..(Len(sm) + Len(t)) :
             q[k] = IF k <= Len(sm) THEN sm[k] ELSE t[k - Len(sm)]
    BY <1>4, <1>7, ConcatProperties
  <2>2. Len(sm) + Len(t) = n + 1
    BY <1>1, <1>4, <1>7
  <2> HIDE DEF q
  <2> QED
    BY <1>7, <2>1, <2>2
<1>9. q = CutAt(p, i, at)
  BY <1>6 DEF q, sm
<1> HIDE DEF q
<1>10. \A k \in 1..(i - 1) : q[k] = p[k]
  <2> TAKE k \in 1..(i - 1)
  <2>1. k \in 1..(n + 1) /\ k <= i + 1
    BY <1>1
  <2> QED
    BY <1>3, <1>7, <1>8, <2>1
<1>11. q[i] = x /\ q[i + 1] = y
  <2>1. i \in 1..(n + 1) /\ i <= i + 1 /\ i + 1 \in 1..(n + 1) /\ i + 1 <= i + 1
    BY <1>1
  <2> QED
    BY <1>7, <1>8, <2>1
<1>12. \A k \in (i + 2)..(n + 1) : q[k] = p[k - 1]
  <2> TAKE k \in (i + 2)..(n + 1)
  <2>1. /\ k \in 1..(n + 1) /\ ~ (k <= i + 1) /\ k - (i + 1) \in 1..(n - i)
        /\ i + (k - (i + 1)) = k - 1
    BY <1>1
  <2> QED
    BY <1>4, <1>8, <2>1
<1> QED
  BY <1>8, <1>9, <1>10, <1>11, <1>12 DEF n, x, y

\* The entry that entry k comes from when entry i was cut in two.
Origin(i, k) == IF k <= i THEN k ELSE k - 1

LEMMA CutOrigins ==
  ASSUME NEW p, MapOK(p), NEW i \in 1..Len(p), NEW at \in Nat,
         p[i].addr < at, at < p[i].addr + p[i].len,
         NEW k \in 1..(Len(p) + 1)
  PROVE  /\ Origin(i, k) \in 1..Len(p)
         /\ CutAt(p, i, at)[k] \in MmapEntries
         /\ CutAt(p, i, at)[k].type = p[Origin(i, k)].type
         /\ CutAt(p, i, at)[k].len > 0
         /\ p[Origin(i, k)].addr <= CutAt(p, i, at)[k].addr
         /\ CutAt(p, i, at)[k].addr + CutAt(p, i, at)[k].len
              <= p[Origin(i, k)].addr + p[Origin(i, k)].len
         /\ k \notin {i, i + 1} => CutAt(p, i, at)[k] = p[Origin(i, k)]
<1> DEFINE q == CutAt(p, i, at)
           n == Len(p)
           o == Origin(i, k)
           u == p[i].addr
           l == p[i].len
<1>1. p \in Seq(MmapEntries) /\ \A j \in 1..n : p[j].len > 0
  BY DEF MapOK
<1>2. n \in Nat /\ u \in Nat /\ l \in Nat
  BY <1>1, LenProperties, EntryOf
<1>3. /\ q \in Seq(MmapEntries) /\ Len(q) = n + 1
      /\ \A j \in 1..(i - 1) : q[j] = p[j]
      /\ q[i] = LeftOf(p[i], at)
      /\ q[i + 1] = RightOf(p[i], at)
      /\ \A j \in (i + 2)..(n + 1) : q[j] = p[j - 1]
  BY <1>1, CutEntries
<1>4. o = IF k <= i THEN k ELSE k - 1
  BY DEF Origin
<1> HIDE DEF q, n, o
<1>5. o \in 1..n
  BY <1>2, <1>4 DEF n
<1>6. q[k] \in MmapEntries
  BY <1>3, ElementOfSeq DEF n
<1>7. CASE k \in {i, i + 1}
  <2>1. o = i
    BY <1>2, <1>4, <1>7 DEF n
  <2>2. /\ LeftOf(p[i], at).addr = u /\ LeftOf(p[i], at).len > 0
        /\ LeftOf(p[i], at).addr + LeftOf(p[i], at).len = at
        /\ RightOf(p[i], at).addr = at /\ RightOf(p[i], at).len > 0
        /\ RightOf(p[i], at).addr + RightOf(p[i], at).len = u + l
        /\ LeftOf(p[i], at).type = p[i].type /\ RightOf(p[i], at).type = p[i].type
    BY <1>1, EntryOf, Halves
  <2>3. u < at /\ at < u + l
    OBVIOUS
  <2> HIDE DEF u, l
  <2>4. u <= u /\ u <= at /\ at <= u + l /\ u + l <= u + l
    BY <1>2, <2>3
  <2>5. CASE k = i
    BY <1>3, <1>5, <1>6, <1>7, <2>1, <2>2, <2>4, <2>5 DEF u, l, q, n, o
  <2>6. CASE k = i + 1
    BY <1>3, <1>5, <1>6, <1>7, <2>1, <2>2, <2>4, <2>6 DEF u, l, q, n, o
  <2> QED
    BY <1>7, <2>5, <2>6
<1>8. CASE k \notin {i, i + 1}
  <2>1. q[k] = p[o]
    <3>1. CASE k <= i
      <4>1. k \in 1..(i - 1) /\ o = k
        BY <1>2, <1>4, <1>8, <3>1 DEF n
      <4> QED
        BY <1>3, <4>1
    <3>2. CASE ~ (k <= i)
      <4>1. k \in (i + 2)..(n + 1) /\ o = k - 1
        BY <1>2, <1>4, <1>8, <3>2 DEF n
      <4> QED
        BY <1>3, <4>1
    <3> QED
      BY <3>1, <3>2
  <2>2. p[o].addr \in Nat /\ p[o].len \in Nat /\ p[o].len > 0
    BY <1>1, <1>5, EntryOf DEF n
  <2> DEFINE a == p[o].addr
             b == p[o].len
  <2>3. a \in Nat /\ b \in Nat
    BY <2>2
  <2> HIDE DEF a, b
  <2>4. a <= a /\ a + b <= a + b
    BY <2>3
  <2> QED
    BY <1>5, <1>6, <2>1, <2>2, <2>4 DEF a, b, q, n, o
<1> QED
  BY <1>7, <1>8

\* A split keeps the map in order...
LEMMA CutMap ==
  ASSUME NEW p, MapOK(p), NEW i \in 1..Len(p), NEW at \in Nat,
         p[i].addr < at, at < p[i].addr + p[i].len
  PROVE  MapOK(CutAt(p, i, at))
<1> DEFINE q == CutAt(p, i, at)
           n == Len(p)
<1>1. /\ p \in Seq(MmapEntries)
      /\ \A j \in 1..n : p[j].len > 0 /\ p[j].addr + p[j].len <= AddrSpace
      /\ \A j, k \in 1..n : j < k => p[j].addr + p[j].len <= p[k].addr
  BY DEF MapOK
<1>2. n \in Nat
  BY <1>1, LenProperties
<1>3. q \in Seq(MmapEntries) /\ Len(q) = n + 1
      /\ q[i] = LeftOf(p[i], at) /\ q[i + 1] = RightOf(p[i], at)
  BY <1>1, CutEntries
<1>4. \A k \in 1..(n + 1) :
        /\ Origin(i, k) \in 1..n
        /\ q[k].addr \in Nat /\ q[k].len \in Nat /\ q[k].len > 0
        /\ p[Origin(i, k)].addr <= q[k].addr
        /\ q[k].addr + q[k].len <= p[Origin(i, k)].addr + p[Origin(i, k)].len
  BY <1>1, CutOrigins DEF MmapEntries
<1>5. \A j \in 1..n : p[j].addr \in Nat /\ p[j].len \in Nat
  BY <1>1, EntryOf
<1> HIDE DEF q, n
<1>6. ASSUME NEW k \in 1..(n + 1) PROVE q[k].len > 0 /\ q[k].addr + q[k].len <= AddrSpace
  <2> DEFINE o == Origin(i, k)
             a == q[k].addr
             b == q[k].len
             c == p[o].addr
             d == p[o].len
  <2>1. o \in 1..n
    BY <1>4
  <2>2. a \in Nat /\ b \in Nat /\ a + b <= c + d /\ b > 0
    BY <1>4
  <2>3. c \in Nat /\ d \in Nat /\ c + d <= AddrSpace
    BY <1>1, <1>5, <2>1
  <2> HIDE DEF a, b, c, d
  <2>4. a + b <= AddrSpace
    BY <2>2, <2>3, Constants
  <2> QED
    BY <2>2, <2>4 DEF a, b
<1>7. ASSUME NEW j \in 1..(n + 1), NEW k \in 1..(n + 1), j < k
      PROVE  q[j].addr + q[j].len <= q[k].addr
  <2> DEFINE oj == Origin(i, j)
             ok == Origin(i, k)
  <2>1. oj \in 1..n /\ ok \in 1..n
    BY <1>4
  <2>2. CASE oj < ok
    <3> DEFINE a == q[j].addr + q[j].len
               b == p[oj].addr + p[oj].len
               c == p[ok].addr
               d == q[k].addr
    <3>1. a \in Nat /\ b \in Nat /\ c \in Nat /\ d \in Nat
      <4>1. q[j].addr \in Nat /\ q[j].len \in Nat /\ q[k].addr \in Nat
        BY <1>4
      <4>2. p[oj].addr \in Nat /\ p[oj].len \in Nat /\ p[ok].addr \in Nat
        BY <1>5, <2>1
      <4> DEFINE r == q[j].addr
                 s == q[j].len
                 t == p[oj].addr
                 v == p[oj].len
      <4>3. r \in Nat /\ s \in Nat /\ t \in Nat /\ v \in Nat
        BY <4>1, <4>2
      <4> HIDE DEF r, s, t, v
      <4>4. r + s \in Nat /\ t + v \in Nat
        BY <4>3
      <4> QED
        BY <4>1, <4>2, <4>4 DEF r, s, t, v
    <3>2. a <= b /\ b <= c /\ c <= d
      BY <1>1, <1>4, <2>1, <2>2
    <3> HIDE DEF a, b, c, d
    <3>3. a <= d
      BY <3>1, <3>2
    <3> QED
      BY <3>3 DEF a, d
  <2>3. CASE ~ (oj < ok)
    <3>1. j = i /\ k = i + 1
      BY <1>2, <1>7, <2>3 DEF Origin, n
    <3>2. /\ LeftOf(p[i], at).addr + LeftOf(p[i], at).len = at
          /\ RightOf(p[i], at).addr = at
      BY <1>1, EntryOf, Halves
    <3>3. q[j].addr + q[j].len = at /\ q[k].addr = at /\ at <= at
      BY <1>3, <3>1, <3>2
    <3> QED
      BY <3>3
  <2> QED
    BY <2>2, <2>3
<1> QED
  BY <1>2, <1>3, <1>6, <1>7 DEF MapOK, q

\* ...and every byte where it is.
LEMMA CutBytes ==
  ASSUME NEW p, MapOK(p), NEW i \in 1..Len(p), NEW at \in Nat,
         p[i].addr < at, at < p[i].addr + p[i].len,
         NEW type, NEW x \in Nat
  PROVE  HasByte(CutAt(p, i, at), type, x) <=> HasByte(p, type, x)
<1> DEFINE q == CutAt(p, i, at)
           n == Len(p)
<1>1. p \in Seq(MmapEntries)
  BY DEF MapOK
<1>2. n \in Nat
  BY <1>1, LenProperties
<1>3. /\ q \in Seq(MmapEntries) /\ Len(q) = n + 1
      /\ \A j \in 1..(i - 1) : q[j] = p[j]
      /\ q[i] = LeftOf(p[i], at)
      /\ q[i + 1] = RightOf(p[i], at)
      /\ \A j \in (i + 2)..(n + 1) : q[j] = p[j - 1]
  BY <1>1, CutEntries
<1>4. \A k \in 1..(n + 1) :
        /\ Origin(i, k) \in 1..n
        /\ q[k].addr \in Nat /\ q[k].len \in Nat
        /\ q[k].type = p[Origin(i, k)].type
        /\ p[Origin(i, k)].addr <= q[k].addr
        /\ q[k].addr + q[k].len <= p[Origin(i, k)].addr + p[Origin(i, k)].len
  BY <1>1, CutOrigins DEF MmapEntries
<1>5. \A j \in 1..n : p[j].addr \in Nat /\ p[j].len \in Nat
  BY <1>1, EntryOf
<1> HIDE DEF q, n
<1>6. ASSUME HasByte(q, type, x) PROVE HasByte(p, type, x)
  <2>1. PICK k \in 1..(n + 1) : q[k].type = type /\ Covers(q[k], x)
    BY <1>3, <1>6 DEF HasByte
  <2> DEFINE o == Origin(i, k)
             a == q[k].addr
             b == q[k].len
             c == p[o].addr
             d == p[o].len
  <2>2. o \in 1..n /\ p[o].type = type
    BY <1>4, <2>1
  <2>3. /\ a \in Nat /\ b \in Nat /\ c \in Nat /\ d \in Nat
        /\ c <= a /\ a + b <= c + d /\ a <= x /\ x < a + b
    BY <1>4, <1>5, <2>1, <2>2 DEF Covers
  <2> HIDE DEF a, b, c, d
  <2>4. c <= x /\ x < c + d
    BY <2>3
  <2> QED
    BY <2>2, <2>4 DEF Covers, HasByte, c, d, n
<1>7. ASSUME HasByte(p, type, x) PROVE HasByte(q, type, x)
  <2>1. PICK j \in 1..n : p[j].type = type /\ Covers(p[j], x)
    BY <1>7 DEF HasByte, n
  <2>2. CASE j < i
    <3>1. j \in 1..(i - 1) /\ j \in 1..(n + 1)
      BY <1>2, <2>2 DEF n
    <3> QED
      BY <1>3, <2>1, <3>1 DEF HasByte
  <2>3. CASE j > i
    <3>1. j + 1 \in (i + 2)..(n + 1) /\ j + 1 \in 1..(n + 1) /\ j + 1 - 1 = j
      BY <1>2, <2>3 DEF n
    <3>2. q[j + 1] = p[j]
      BY <1>3, <3>1
    <3> QED
      BY <1>3, <2>1, <3>1, <3>2 DEF HasByte
  <2>4. CASE j = i
    <3>1. /\ LeftOf(p[i], at).addr = p[i].addr
          /\ LeftOf(p[i], at).addr + LeftOf(p[i], at).len = at
          /\ RightOf(p[i], at).addr = at
          /\ RightOf(p[i], at).addr + RightOf(p[i], at).len = p[i].addr + p[i].len
          /\ LeftOf(p[i], at).type = p[i].type /\ RightOf(p[i], at).type = p[i].type
      BY <1>1, EntryOf, Halves
    <3>2. p[i].addr <= x /\ x < p[i].addr + p[i].len
      BY <2>1, <2>4 DEF Covers
    <3>3. i \in 1..(n + 1) /\ i + 1 \in 1..(n + 1)
      BY <1>2 DEF n
    <3>4. CASE x < at
      <4>1. Covers(q[i], x) /\ q[i].type = type
        BY <1>3, <2>1, <2>4, <3>1, <3>2, <3>4 DEF Covers
      <4> QED
        BY <1>3, <3>3, <4>1 DEF HasByte
    <3>5. CASE ~ (x < at)
      <4>1. at <= x
        BY <3>5
      <4>2. Covers(q[i + 1], x) /\ q[i + 1].type = type
        BY <1>3, <2>1, <2>4, <3>1, <3>2, <4>1 DEF Covers
      <4> QED
        BY <1>3, <3>3, <4>2 DEF HasByte
    <3> QED
      BY <3>4, <3>5
  <2>5. j < i \/ j > i \/ j = i
    BY <1>2 DEF n
  <2> QED
    BY <2>2, <2>3, <2>4, <2>5
<1> QED
  BY <1>6, <1>7 DEF q

\* The entries of the map that the bootloader left, cut off at 4 GiB.
LEMMA BootEntry ==
  ASSUME LocationInv, NEW j \in 1..Len(boot.mmap)
  PROVE  /\ \E i \in 1..Len(mmap) : mmap[i] = boot.mmap[j]
         /\ boot.mmap[j].addr \in Nat /\ boot.mmap[j].len \in Nat
         /\ boot.mmap[j].len > 0
         /\ boot.mmap[j].addr < LowMem =>
              boot.mmap[j].addr + boot.mmap[j].len <= LowMem
         /\ boot.mmap[j].addr < AddrSpace =>
              /\ Shrunk(boot.mmap[j]).addr = boot.mmap[j].addr
              /\ Shrunk(boot.mmap[j]).len \in Nat /\ Shrunk(boot.mmap[j]).len > 0
              /\ Shrunk(boot.mmap[j]).len <= boot.mmap[j].len
              /\ boot.mmap[j].addr + Shrunk(boot.mmap[j]).len <= AddrSpace
              /\ \/ boot.mmap[j].addr + Shrunk(boot.mmap[j]).len = AddrSpace
                 \/ Shrunk(boot.mmap[j]).len = boot.mmap[j].len
              /\ Shrunk(boot.mmap[j]).type = boot.mmap[j].type
<1>1. boot.mmap[j] \in Members(mmap) /\ boot \in Machines
  BY DEF Members, LocationInv, BootInv
<1>2. PICK i \in 1..Len(mmap) : mmap[i] = boot.mmap[j]
  BY <1>1 DEF Members
<1>3. boot.mmap[j].addr < LowMem => boot.mmap[j].addr + boot.mmap[j].len <= LowMem
  <2>1. boot.mmap[j] \in Members(boot.mmap)
    BY DEF Members
  <2> QED
    BY <1>1, <2>1, EntryFacts
<1> QED
  BY <1>2, <1>3, UsableFacts

\* A split at the edge of an area in use, of an entry that ends below 4 GiB.
LEMMA CutPieces ==
  ASSUME LocationInv, NEW p, MapOK(p), Pieces(p), NEW i \in 1..Len(p), NEW at \in Nat,
         p[i].addr < at, at < p[i].addr + p[i].len,
         Edge(at), p[i].addr + p[i].len < AddrSpace
  PROVE  Pieces(CutAt(p, i, at))
<1> DEFINE q == CutAt(p, i, at)
           n == Len(p)
<1>1. p \in Seq(MmapEntries)
  BY DEF MapOK
<1>2. n \in Nat
  BY <1>1, LenProperties
<1>3. /\ q \in Seq(MmapEntries) /\ Len(q) = n + 1
      /\ q[i] = LeftOf(p[i], at)
      /\ q[i + 1] = RightOf(p[i], at)
  BY <1>1, CutEntries
<1>4. \A k \in 1..(n + 1) :
        /\ Origin(i, k) \in 1..n
        /\ k \notin {i, i + 1} => q[k] = p[Origin(i, k)]
  BY <1>1, CutOrigins
<1> HIDE DEF q, n
<1>5. ASSUME NEW k \in 1..(n + 1)
      PROVE  \E j \in 1..Len(boot.mmap) : Piece(q[k], boot.mmap[j])
  <2>1. CASE k \notin {i, i + 1}
    BY <1>4, <2>1 DEF Pieces, n
  <2>2. CASE k \in {i, i + 1}
    <3>1. PICK j \in 1..Len(boot.mmap) : Piece(p[i], boot.mmap[j])
      BY DEF Pieces
    <3> DEFINE m == boot.mmap[j]
               u == p[i].addr
               l == p[i].len
               c == Shrunk(m).addr
               d == Shrunk(m).addr + Shrunk(m).len
    <3>2. u \in Nat /\ l \in Nat /\ u < at /\ at < u + l /\ u + l < AddrSpace
      BY <1>1, EntryOf
    <3>3. /\ LeftOf(p[i], at).addr = u
          /\ LeftOf(p[i], at).addr + LeftOf(p[i], at).len = at
          /\ RightOf(p[i], at).addr = at
          /\ RightOf(p[i], at).addr + RightOf(p[i], at).len = u + l
          /\ LeftOf(p[i], at).type = p[i].type /\ RightOf(p[i], at).type = p[i].type
      BY <1>1, EntryOf, Halves
    <3>4. /\ m.addr < AddrSpace /\ c <= u /\ u + l <= d
          /\ u = m.addr \/ Edge(u)
          /\ p[i].type = AVAILABLE => m.type = AVAILABLE
          /\ u + l = d \/ Edge(u + l)
      BY <3>1 DEF Piece, Inside
    <3>5. c \in Nat /\ d \in Nat
      <4>1. m.addr \in Nat /\ Shrunk(m).addr = m.addr /\ Shrunk(m).len \in Nat
        BY <3>4, BootEntry
      <4> HIDE DEF m
      <4> QED
        BY <4>1
    <3> HIDE DEF u, l, c, d, m
    <3>6. c <= at /\ at <= d /\ at # AddrSpace /\ u + l # AddrSpace
      BY <3>2, <3>4, <3>5, Constants
    <3>7. CASE k = i
      <4>1. Piece(q[k], m)
        BY <1>3, <3>3, <3>4, <3>6, <3>7 DEF Piece, Inside, c, d
      <4> QED
        BY <4>1 DEF m
    <3>8. CASE k = i + 1
      <4>1. Piece(q[k], m)
        BY <1>3, <3>3, <3>4, <3>6, <3>8 DEF Piece, Inside, c, d
      <4> QED
        BY <4>1 DEF m
    <3> QED
      BY <2>2, <3>7, <3>8
  <2> QED
    BY <2>1, <2>2
<1> QED
  BY <1>3, <1>5 DEF Pieces, q

-----------------------------------------------------------------------------
(* How many entries the splits make *)

\* Entries that hold the same byte are one.
LEMMA OneHolder ==
  ASSUME NEW p, MapOK(p), NEW i \in 1..Len(p), NEW j \in 1..Len(p), NEW x \in Nat,
         Covers(p[i], x), Covers(p[j], x)
  PROVE  i = j
<1> DEFINE a == p[i].addr
           b == p[i].len
           c == p[j].addr
           d == p[j].len
<1>1. p \in Seq(MmapEntries) /\ i < j => a + b <= c
  BY DEF MapOK
<1>2. p \in Seq(MmapEntries) /\ j < i => c + d <= a
  BY DEF MapOK
<1>3. p \in Seq(MmapEntries) /\ Len(p) \in Nat
  BY LenProperties DEF MapOK
<1>4. a \in Nat /\ b \in Nat /\ c \in Nat /\ d \in Nat
  BY <1>3, EntryOf
<1>5. a <= x /\ x < a + b /\ c <= x /\ x < c + d
  BY DEF Covers
<1> HIDE DEF a, b, c, d
<1>6. ~ (i < j) /\ ~ (j < i)
  BY <1>1, <1>2, <1>3, <1>4, <1>5
<1> QED
  BY <1>3, <1>6

\* The split before the area: no entry began there, now one does.
LEMMA CountBefore ==
  ASSUME NEW p, MapOK(p), NEW i \in 1..Len(p), NEW a, a.addr \in Nat,
         p[i].type = AVAILABLE,
         p[i].addr < a.addr, a.addr < p[i].addr + p[i].len
  PROVE  /\ ~Starts(p, a) /\ ~Exact(p, a)
         /\ Starts(CutAt(p, i, a.addr), a)
<1> DEFINE at == a.addr
           q == CutAt(p, i, at)
<1>1. p \in Seq(MmapEntries) /\ Len(p) \in Nat
  BY LenProperties DEF MapOK
<1>2. ~Starts(p, a)
  <2> SUFFICES ASSUME NEW j \in 1..Len(p), p[j].addr = at PROVE FALSE
    BY DEF Starts
  <2> DEFINE u == p[i].addr
             l == p[j].len
  <2>1. u \in Nat /\ l \in Nat /\ l > 0 /\ u < at
    BY <1>1, EntryOf DEF MapOK
  <2> HIDE DEF u, l, at
  <2>2. u <= at /\ at <= at /\ at < at + l
    BY <2>1 DEF at
  <2>3. Covers(p[i], at) /\ Covers(p[j], at)
    BY <2>2 DEF Covers, u, l, at
  <2>4. i = j
    BY <2>3, OneHolder DEF at
  <2>5. u = at
    BY <2>4 DEF u
  <2> QED
    BY <2>1, <2>5
<1>3. ~Exact(p, a)
  BY <1>2 DEF Exact, Starts
<1>4. Len(q) = Len(p) + 1 /\ q[i + 1] = RightOf(p[i], at)
  BY <1>1, CutEntries
<1>5. RightOf(p[i], at).addr = at /\ RightOf(p[i], at).type = AVAILABLE
  BY <1>1, EntryOf, Halves
<1>6. i + 1 \in 1..(Len(p) + 1)
  BY <1>1
<1>7. Starts(q, a)
  <2> HIDE DEF q
  <2> QED
    BY <1>4, <1>5, <1>6 DEF Starts
<1> QED
  BY <1>2, <1>3, <1>7

\* The split behind the area: an entry began there, now one is the area.
LEMMA CountBehind ==
  ASSUME NEW p, MapOK(p), NEW i \in 1..Len(p), NEW a, a.addr \in Nat, a.len \in Nat,
         p[i].type = AVAILABLE, p[i].len # a.len,
         p[i].addr = a.addr, a.addr < a.addr + a.len,
         a.addr + a.len < p[i].addr + p[i].len
  PROVE  /\ ~Exact(p, a)
         /\ Exact(CutAt(p, i, a.addr + a.len), a)
<1> DEFINE at == a.addr + a.len
           q == CutAt(p, i, at)
<1>1. p \in Seq(MmapEntries) /\ Len(p) \in Nat /\ at \in Nat /\ p[i].addr < at
  BY LenProperties DEF MapOK
<1>2. ~Exact(p, a)
  <2> SUFFICES ASSUME NEW j \in 1..Len(p), p[j].addr = a.addr, p[j].len = a.len PROVE FALSE
    BY DEF Exact
  <2> DEFINE u == a.addr
             l == p[j].len
             k == p[i].len
  <2>1. u \in Nat /\ l \in Nat /\ l > 0 /\ k \in Nat /\ k > 0
    BY <1>1, EntryOf DEF MapOK
  <2> HIDE DEF u, l, k
  <2>2. u <= u /\ u < u + l /\ u < u + k
    BY <2>1
  <2>3. Covers(p[i], u) /\ Covers(p[j], u)
    BY <2>2 DEF Covers, u, l, k
  <2>4. i = j
    BY <2>1, <2>3, OneHolder
  <2> QED
    BY <2>4
<1>3. Len(q) = Len(p) + 1 /\ q[i] = LeftOf(p[i], at)
  BY <1>1, CutEntries
<1>4. /\ LeftOf(p[i], at).addr = a.addr /\ LeftOf(p[i], at).type = AVAILABLE
      /\ LeftOf(p[i], at) \in MmapEntries
      /\ LeftOf(p[i], at).addr + LeftOf(p[i], at).len = at
  BY <1>1, EntryOf, Halves
<1>5. LeftOf(p[i], at).len = a.len
  <2> DEFINE u == a.addr
             l == a.len
             k == LeftOf(p[i], at).len
  <2>1. u \in Nat /\ l \in Nat /\ k \in Nat /\ u + k = u + l
    BY <1>4 DEF MmapEntries
  <2> HIDE DEF u, l, k
  <2>2. k = l
    BY <2>1
  <2> QED
    BY <2>2 DEF k, l
<1>6. i \in 1..(Len(p) + 1)
  BY <1>1
<1>7. Exact(q, a)
  <2> HIDE DEF q, at
  <2> QED
    BY <1>3, <1>4, <1>5, <1>6 DEF Exact
<1> QED
  BY <1>2, <1>7

-----------------------------------------------------------------------------
(* Marking an entry *)

MarkAt(p, i) == [p EXCEPT ![i].type = RESERVED]

LEMMA MarkEntries ==
  ASSUME NEW p \in Seq(MmapEntries), NEW i \in 1..Len(p)
  PROVE  /\ MarkAt(p, i) \in Seq(MmapEntries) /\ Len(MarkAt(p, i)) = Len(p)
         /\ \A k \in 1..Len(p) :
              /\ MarkAt(p, i)[k].addr = p[k].addr /\ MarkAt(p, i)[k].len = p[k].len
              /\ MarkAt(p, i)[k].type = IF k = i THEN RESERVED ELSE p[k].type
<1> DEFINE e == [p[i] EXCEPT !.type = RESERVED]
<1>1. p[i] \in MmapEntries
  BY ElementOfSeq
<1>2. p[i] = [addr |-> p[i].addr, len |-> p[i].len, type |-> p[i].type]
  BY <1>1 DEF MmapEntries
<1>3. e = [addr |-> p[i].addr, len |-> p[i].len, type |-> RESERVED]
  BY <1>2
<1>4. MarkAt(p, i) = [p EXCEPT ![i] = e]
  BY DEF MarkAt
<1> HIDE DEF e
<1>5. p[i].addr \in Nat /\ p[i].len \in Nat
  BY EntryOf
<1>6. e \in MmapEntries
  BY <1>3, <1>5 DEF MmapEntries
<1>7. MarkAt(p, i) \in Seq(MmapEntries) /\ Len(MarkAt(p, i)) = Len(p)
      /\ \A k \in 1..Len(p) : MarkAt(p, i)[k] = IF k = i THEN e ELSE p[k]
  BY <1>4, <1>6, ExceptSeq
<1> QED
  BY <1>3, <1>7

LEMMA MarkMap ==
  ASSUME NEW p, MapOK(p), NEW i \in 1..Len(p)
  PROVE  MapOK(MarkAt(p, i))
BY MarkEntries DEF MapOK

LEMMA MarkPieces ==
  ASSUME NEW p, MapOK(p), Pieces(p), NEW i \in 1..Len(p)
  PROVE  Pieces(MarkAt(p, i))
<1> DEFINE q == MarkAt(p, i)
<1>1. /\ Len(q) = Len(p)
      /\ \A k \in 1..Len(p) :
           /\ q[k].addr = p[k].addr /\ q[k].len = p[k].len
           /\ q[k].type = IF k = i THEN RESERVED ELSE p[k].type
  BY MarkEntries DEF MapOK
<1> HIDE DEF q
<1>2. ASSUME NEW k \in 1..Len(p)
      PROVE  \E j \in 1..Len(boot.mmap) : Piece(q[k], boot.mmap[j])
  <2>1. PICK j \in 1..Len(boot.mmap) : Piece(p[k], boot.mmap[j])
    BY DEF Pieces
  <2>2. q[k].type = AVAILABLE => p[k].type = AVAILABLE
    BY <1>1 DEF AVAILABLE, RESERVED
  <2>3. Piece(q[k], boot.mmap[j])
    BY <1>1, <2>1, <2>2 DEF Piece, Inside
  <2> QED
    BY <2>3
<1> QED
  BY <1>1, <1>2 DEF Pieces, q

LEMMA MarkBytes ==
  ASSUME NEW p, MapOK(p), NEW i \in 1..Len(p), p[i].type = AVAILABLE, NEW x \in Nat
  PROVE  /\ HasByte(MarkAt(p, i), AVAILABLE, x) <=>
              HasByte(p, AVAILABLE, x) /\ ~Covers(p[i], x)
         /\ HasByte(MarkAt(p, i), RESERVED, x) <=>
              HasByte(p, RESERVED, x) \/ Covers(p[i], x)
<1> DEFINE q == MarkAt(p, i)
<1>1. /\ Len(q) = Len(p)
      /\ \A k \in 1..Len(p) :
           /\ q[k].addr = p[k].addr /\ q[k].len = p[k].len
           /\ q[k].type = IF k = i THEN RESERVED ELSE p[k].type
  BY MarkEntries DEF MapOK
<1>2. \A k \in 1..Len(p) : Covers(q[k], x) <=> Covers(p[k], x)
  BY <1>1 DEF Covers
<1>3. \A k \in 1..Len(p) : Covers(p[k], x) /\ Covers(p[i], x) => k = i
  BY OneHolder
<1>4. AVAILABLE # RESERVED
  BY DEF AVAILABLE, RESERVED
<1> HIDE DEF q
<1>5. HasByte(q, AVAILABLE, x) <=> HasByte(p, AVAILABLE, x) /\ ~Covers(p[i], x)
  <2>1. HasByte(q, AVAILABLE, x) =>
          \E k \in 1..Len(p) : k # i /\ p[k].type = AVAILABLE /\ Covers(p[k], x)
    BY <1>1, <1>2, <1>4 DEF HasByte
  <2>2. HasByte(q, AVAILABLE, x) => HasByte(p, AVAILABLE, x) /\ ~Covers(p[i], x)
    BY <1>3, <2>1 DEF HasByte
  <2>3. ASSUME HasByte(p, AVAILABLE, x), ~Covers(p[i], x) PROVE HasByte(q, AVAILABLE, x)
    <3>1. PICK k \in 1..Len(p) : p[k].type = AVAILABLE /\ Covers(p[k], x)
      BY <2>3 DEF HasByte
    <3>2. k # i
      BY <2>3, <3>1
    <3>3. q[k].type = AVAILABLE /\ Covers(q[k], x) /\ k \in 1..Len(q)
      BY <1>1, <1>2, <3>1, <3>2
    <3> QED
      BY <3>3 DEF HasByte
  <2> QED
    BY <2>2, <2>3
<1>6. HasByte(q, RESERVED, x) <=> HasByte(p, RESERVED, x) \/ Covers(p[i], x)
  <2>1. HasByte(q, RESERVED, x) => HasByte(p, RESERVED, x) \/ Covers(p[i], x)
    BY <1>1, <1>2 DEF HasByte
  <2>2. ASSUME Covers(p[i], x) PROVE HasByte(q, RESERVED, x)
    <3>1. i \in 1..Len(q) /\ q[i].type = RESERVED /\ Covers(q[i], x)
      BY <1>1, <1>2, <2>2
    <3> QED
      BY <3>1 DEF HasByte
  <2>3. ASSUME HasByte(p, RESERVED, x) PROVE HasByte(q, RESERVED, x)
    <3>1. PICK k \in 1..Len(p) : p[k].type = RESERVED /\ Covers(p[k], x)
      BY <2>3 DEF HasByte
    <3>2. k \in 1..Len(q) /\ q[k].type = RESERVED /\ Covers(q[k], x)
      BY <1>1, <1>2, <3>1
    <3> QED
      BY <3>2 DEF HasByte
  <2> QED
    BY <2>1, <2>2, <2>3
<1> QED
  BY <1>5, <1>6 DEF q

-----------------------------------------------------------------------------
(* One round of reserve_region() *)

\* The round has split an entry: nothing else changes.
HasSplit(a) ==
  /\ UNCHANGED <<pc, nb_reserved>>
  /\ MapOK(pmm') /\ Pieces(pmm') /\ Counted(pmm', a)
  /\ \A x \in Nat : \A type : HasByte(pmm', type, x) <=> HasByte(pmm, type, x)

\* The round has reserved the area: its bytes, no others, change their type.
HasReserved(a, next) ==
  /\ pc' = next /\ nb_reserved' = nb_reserved + 1 /\ a.len > 0
  /\ MapOK(pmm') /\ Pieces(pmm')
  /\ Len(pmm') <= Len(boot.mmap) + 2 * (nb_reserved + 1)
  /\ \A x \in Nat :
       /\ HasByte(pmm', AVAILABLE, x) <=> HasByte(pmm, AVAILABLE, x) /\ x \notin Bytes(a)
       /\ HasByte(pmm', RESERVED, x) <=> HasByte(pmm, RESERVED, x) \/ x \in Bytes(a)

\* The first available entry that holds an area, and that no sum with it wraps.
LEMMA HolderFacts ==
  ASSUME MapOK(pmm), NEW a, a.addr \in Nat, a.len \in Nat, a.addr + a.len < AddrSpace,
         Holders(a) # {}
  PROVE  /\ Min(Holders(a)) \in 1..Len(pmm)
         /\ pmm[Min(Holders(a))].type = AVAILABLE
         /\ pmm[Min(Holders(a))].addr <= a.addr
         /\ W(a.addr + a.len) = a.addr + a.len
         /\ a.addr + a.len > 0 =>
              /\ pmm[Min(Holders(a))].addr + pmm[Min(Holders(a))].len < AddrSpace
              /\ W(pmm[Min(Holders(a))].addr + pmm[Min(Holders(a))].len)
                   = pmm[Min(Holders(a))].addr + pmm[Min(Holders(a))].len
              /\ a.addr + a.len <= pmm[Min(Holders(a))].addr + pmm[Min(Holders(a))].len
<1> DEFINE H == Holders(a)
           i == Min(H)
           u == pmm[i].addr
           l == pmm[i].len
           c == a.addr
           d == a.len
<1>1. pmm \in Seq(MmapEntries) /\ DOMAIN pmm = 1..Len(pmm)
  BY LenProperties DEF MapOK
<1>2. H \subseteq 1..Len(pmm)
  BY <1>1 DEF Holders
<1>3. H \subseteq Nat
  BY <1>2
<1>4. i \in H
  <2> HIDE DEF H
  <2>1. PICK x \in H : \A y \in H : x <= y
    BY <1>3, LeastNatural DEF H
  <2> QED
    BY <2>1 DEF Min
<1>5. i \in 1..Len(pmm)
  BY <1>2, <1>4
<1>6. /\ pmm[i].type = AVAILABLE
      /\ c >= u /\ W(c + d) <= W(u + l)
  BY <1>4 DEF Holders
<1>7. u \in Nat /\ l \in Nat /\ u + l <= AddrSpace /\ l > 0
  BY <1>1, <1>5, EntryOf DEF MapOK
<1>8. c \in Nat /\ d \in Nat /\ c + d < AddrSpace
  OBVIOUS
<1> HIDE DEF H, i, u, l, c, d
<1>9. W(c + d) = c + d /\ c + d \in Nat
  BY <1>8, NoWrap
<1>10. u <= c
  BY <1>6, <1>7, <1>8
<1>11. ASSUME c + d > 0 PROVE u + l < AddrSpace
  <2> SUFFICES ASSUME u + l = AddrSpace PROVE FALSE
    BY <1>7, Constants
  <2>1. W(u + l) = 0
    BY Constants DEF W
  <2> QED
    BY <1>6, <1>9, <1>11, <2>1
<1>12. ASSUME c + d > 0 PROVE W(u + l) = u + l /\ c + d <= u + l
  <2>1. W(u + l) = u + l
    BY <1>7, <1>11, <1>12, NoWrap
  <2> QED
    BY <1>6, <1>9, <2>1
<1> QED
  BY <1>5, <1>6, <1>9, <1>10, <1>11, <1>12 DEF H, i, u, l, c, d

LEMMA ReserveMap ==
  ASSUME LocationInv, MapOK(pmm), Pieces(pmm), nb_reserved \in Nat,
         NEW a, a.addr \in Nat, a.len \in Nat, a.addr + a.len < AddrSpace,
         Edge(a.addr), Edge(a.addr + a.len), Counted(pmm, a),
         NEW next, reserve_region(a, next)
  PROVE  pc' = "panic" \/ HasSplit(a) \/ HasReserved(a, next)
<1> SUFFICES ASSUME pc' # "panic" PROVE HasSplit(a) \/ HasReserved(a, next)
  OBVIOUS
<1>1. Holders(a) # {}
  BY DEF reserve_region, Panic
<1> DEFINE i == Min(Holders(a))
           at == IF a.addr > pmm[i].addr THEN a.addr ELSE W(a.addr + a.len)
           u == pmm[i].addr
           l == pmm[i].len
           c == a.addr
           d == a.len
           n == Len(pmm)
           B == Len(boot.mmap)
<1>2. \/ /\ l = d
         /\ pmm' = [pmm EXCEPT ![i].type = RESERVED]
         /\ nb_reserved' = nb_reserved + 1 /\ pc' = next
      \/ /\ l # d /\ Splittable(i, at)
         /\ pmm' = split_region(i, at) /\ UNCHANGED <<pc, nb_reserved>>
  BY <1>1 DEF reserve_region, Panic
<1>3. /\ i \in 1..n /\ pmm[i].type = AVAILABLE
      /\ u <= c
      /\ W(c + d) = c + d
      /\ c + d > 0 => u + l < AddrSpace /\ W(u + l) = u + l /\ c + d <= u + l
  BY <1>1, HolderFacts
<1>4. pmm \in Seq(MmapEntries) /\ u \in Nat /\ l \in Nat /\ l > 0 /\ n \in Nat
  BY <1>3, EntryOf, LenProperties DEF MapOK
<1>5. c \in Nat /\ d \in Nat /\ c + d < AddrSpace /\ c + d \in Nat
  OBVIOUS
<1>6. B \in Nat
  BY MachineTypes, LenProperties DEF LocationInv, BootInv
<1>7. n <= B + 2 * nb_reserved
           + (IF Exact(pmm, a) THEN 2 ELSE IF Starts(pmm, a) THEN 1 ELSE 0)
  BY DEF Counted
<1>8. at = IF c > u THEN c ELSE c + d
  BY <1>3
<1> HIDE DEF i, at, u, l, c, d, n, B
<1>9. CASE l = d
  <2>1. pmm' = MarkAt(pmm, i) /\ nb_reserved' = nb_reserved + 1 /\ pc' = next
    BY <1>2, <1>9 DEF MarkAt
  <2>2. d > 0 /\ u = c
    BY <1>3, <1>4, <1>5, <1>9
  <2>3. Exact(pmm, a)
    BY <1>3, <1>9, <2>2 DEF Exact, u, l, c, d, n
  <2>4. n <= B + 2 * (nb_reserved + 1)
    BY <1>4, <1>6, <1>7, <2>3
  <2>5. Len(pmm') <= B + 2 * (nb_reserved + 1)
    BY <1>3, <1>4, <2>1, <2>4, MarkEntries DEF n
  <2>6. MapOK(pmm') /\ Pieces(pmm')
    BY <1>3, <2>1, MarkMap, MarkPieces DEF n
  <2>7. \A x \in Nat : Covers(pmm[i], x) <=> x \in Bytes(a)
    <3> TAKE x \in Nat
    <3>1. Covers(pmm[i], x) <=> c <= x /\ x < c + d
      BY <1>9, <2>2 DEF Covers, u, l
    <3>2. x \in Bytes(a) <=> x \in c..(c + d - 1)
      BY DEF Bytes, c, d
    <3>3. x \in c..(c + d - 1) <=> c <= x /\ x < c + d
      BY <1>5
    <3> QED
      BY <3>1, <3>2, <3>3
  <2>8. \A x \in Nat :
          /\ HasByte(pmm', AVAILABLE, x) <=>
               HasByte(pmm, AVAILABLE, x) /\ ~Covers(pmm[i], x)
          /\ HasByte(pmm', RESERVED, x) <=> HasByte(pmm, RESERVED, x) \/ Covers(pmm[i], x)
    BY <1>3, <2>1, MarkBytes DEF n
  <2>9. \A x \in Nat :
          /\ HasByte(pmm', AVAILABLE, x) <=> HasByte(pmm, AVAILABLE, x) /\ x \notin Bytes(a)
          /\ HasByte(pmm', RESERVED, x) <=> HasByte(pmm, RESERVED, x) \/ x \in Bytes(a)
    BY <2>7, <2>8
  <2>10. a.len > 0
    BY <2>2 DEF d
  <2> QED
    BY <2>1, <2>5, <2>6, <2>9, <2>10 DEF HasReserved, B
<1>10. CASE l # d
  <2>1. /\ u < at /\ at < W(u + l)
        /\ pmm' = split_region(i, at) /\ UNCHANGED <<pc, nb_reserved>>
    BY <1>2, <1>10 DEF Splittable, u, l
  <2>2. c + d > 0
    <3>1. CASE c > u
      BY <1>4, <1>5, <3>1
    <3>2. CASE ~ (c > u)
      BY <1>4, <1>5, <1>8, <2>1, <3>2
    <3> QED
      BY <3>1, <3>2
  <2>3. u + l < AddrSpace /\ W(u + l) = u + l /\ c + d <= u + l
    BY <1>3, <2>2
  <2>4. at \in Nat /\ u < at /\ at < u + l
    BY <1>5, <1>8, <2>1, <2>3
  <2>5. pmm' = CutAt(pmm, i, at)
    BY <2>1 DEF split_region, CutAt, LeftOf, RightOf
  <2>6. MapOK(pmm')
    BY <1>3, <2>4, <2>5, CutMap DEF u, l, n
  <2>7. \A x \in Nat : \A type : HasByte(pmm', type, x) <=> HasByte(pmm, type, x)
    BY <1>3, <2>4, <2>5, CutBytes DEF u, l, n
  <2>8. Edge(at)
    BY <1>8 DEF c, d
  <2>9. Pieces(pmm')
    BY <1>3, <2>3, <2>4, <2>5, <2>8, CutPieces DEF u, l, n
  <2>10. Len(pmm') = n + 1
    BY <1>3, <1>4, <2>4, <2>5, CutEntries DEF u, l, n
  <2>11. Counted(pmm', a)
    <3> DEFINE q == CutAt(pmm, i, at)
    <3>1. CASE c > u
      <4>1. at = c /\ u < c /\ c < u + l
        BY <1>5, <1>8, <2>4, <3>1
      <4>2. ~Starts(pmm, a) /\ ~Exact(pmm, a) /\ Starts(CutAt(pmm, i, a.addr), a)
        BY <1>3, <4>1, CountBefore DEF u, l, c, n
      <4>3. Starts(pmm', a)
        BY <2>5, <4>1, <4>2 DEF c
      <4>4. n <= B + 2 * nb_reserved
        BY <1>4, <1>6, <1>7, <4>2
      <4>5. n + 1 <= B + 2 * nb_reserved + 1 /\ n + 1 <= B + 2 * nb_reserved + 2
        BY <1>4, <1>6, <4>4
      <4> QED
        BY <2>10, <4>3, <4>5 DEF Counted, B
    <3>2. CASE ~ (c > u)
      <4>1. u = c /\ at = c + d
        BY <1>3, <1>4, <1>5, <1>8, <3>2
      <4>2. c < c + d /\ c + d < u + l
        BY <2>4, <4>1
      <4>3. ~Exact(pmm, a) /\ Exact(CutAt(pmm, i, a.addr + a.len), a)
        BY <1>3, <1>10, <4>1, <4>2, CountBehind DEF u, l, c, d, n
      <4>4. Exact(pmm', a)
        BY <2>5, <4>1, <4>3 DEF c, d
      <4>5. n <= B + 2 * nb_reserved + 1
        BY <1>4, <1>6, <1>7, <4>3
      <4>6. n + 1 <= B + 2 * nb_reserved + 2
        BY <1>4, <1>6, <4>5
      <4> QED
        BY <2>10, <4>4, <4>6 DEF Counted, B
    <3> QED
      BY <3>1, <3>2
  <2> QED
    BY <2>1, <2>6, <2>7, <2>9, <2>11 DEF HasSplit
<1> QED
  BY <1>9, <1>10

-----------------------------------------------------------------------------
(* The map that fill_phys_mmap() leaves *)

LEMMA FillMap ==
  ASSUME LocationInv, pc = "fill", fill_phys_mmap
  PROVE  /\ MapOK(pmm') /\ Pieces(pmm')
         /\ Len(pmm') <= Len(boot.mmap)
         /\ \A x \in 0..(AddrSpace - 1) : \A type :
              HasByte(pmm', type, x) <=> HasByte(boot.mmap, type, x)
<1>1. /\ Rises(mmap, 0) /\ AllApart(mmap) /\ boot \in Machines
      /\ mmap \in Seq(MmapEntries) /\ Len(mmap) = Len(boot.mmap)
      /\ Members(mmap) = Members(boot.mmap) /\ pmm' = Filled
  BY DEF LocationInv, SortInv, BootInv, fill_phys_mmap
<1> DEFINE n == Len(mmap)
<1>2. n \in Nat
  BY <1>1, LenProperties
<1>3. PICK K \in 0..n : \A k \in 1..n : mmap[k].addr < AddrSpace <=> k <= K
  BY <1>1, BelowFirst
<1> DEFINE q == ShrunkTo(K)
<1>4. pmm' = q
  BY <1>1, <1>3, FilledIs
<1>5. \A k \in 1..K : k \in 1..n /\ mmap[k].addr < AddrSpace
  BY <1>2, <1>3
<1>6. \A k \in 1..K : q[k] = Shrunk(mmap[k])
  BY DEF ShrunkTo
<1>7. q \in Seq(MmapEntries) /\ Len(q) = K
  <2>1. \A k \in 1..K : Shrunk(mmap[k]) \in MmapEntries
    BY <1>5, ShrunkType
  <2>2. q \in [1..K -> MmapEntries]
    BY <2>1 DEF ShrunkTo
  <2> HIDE DEF q
  <2>3. K \in Nat
    BY <1>2
  <2> QED
    BY <2>2, <2>3, SeqDef, LenProperties
<1> HIDE DEF q
<1>8. \A k \in 1..K :
        /\ mmap[k].addr \in Nat /\ mmap[k].len \in Nat /\ mmap[k].len > 0
        /\ q[k].addr = mmap[k].addr /\ q[k].type = mmap[k].type
        /\ q[k].len \in Nat /\ q[k].len > 0 /\ q[k].len <= mmap[k].len
        /\ q[k].addr + q[k].len <= AddrSpace
        /\ q[k].addr + q[k].len = AddrSpace \/ q[k].len = mmap[k].len
  BY <1>5, <1>6, UsableFacts
<1>9. MapOK(q)
  <2>1. ASSUME NEW i \in 1..K, NEW j \in 1..K, i < j
        PROVE  q[i].addr + q[i].len <= q[j].addr
    <3> DEFINE a == mmap[i].addr
               b == mmap[i].len
               c == mmap[j].addr
               d == mmap[j].len
               e == q[i].len
    <3>1. i \in 1..n /\ j \in 1..n /\ 0 < j /\ i # j
      BY <1>2, <2>1
    <3>2. a <= c
      BY <1>1, <2>1, <3>1 DEF Rises
    <3>3. a + b <= c \/ c + d <= a
      BY <1>1, <3>1 DEF AllApart, Apart
    <3>4. a \in Nat /\ b \in Nat /\ c \in Nat /\ d \in Nat /\ d > 0 /\ e \in Nat /\ e <= b
      BY <1>8
    <3> HIDE DEF a, b, c, d, e
    <3>5. a + e <= c
      BY <3>2, <3>3, <3>4
    <3> QED
      BY <1>8, <3>5 DEF a, c, e
  <2> QED
    BY <1>7, <1>8, <2>1 DEF MapOK
<1>10. Pieces(q)
  <2> SUFFICES ASSUME NEW k \in 1..K
               PROVE  \E j \in 1..Len(boot.mmap) : Piece(q[k], boot.mmap[j])
    BY <1>7 DEF Pieces
  <2>1. mmap[k] \in Members(boot.mmap)
    BY <1>1, <1>5 DEF Members
  <2>2. PICK j \in 1..Len(boot.mmap) : boot.mmap[j] = mmap[k]
    BY <2>1 DEF Members
  <2> DEFINE m == mmap[k]
             u == q[k].addr
             v == q[k].len
  <2>3. /\ m.addr < AddrSpace /\ Shrunk(m).addr = u /\ Shrunk(m).len = v
        /\ u \in Nat /\ v \in Nat /\ u = m.addr /\ q[k].type = m.type
    BY <1>5, <1>6, <1>8
  <2> HIDE DEF m, u, v
  <2>4. u <= u /\ u + v <= u + v
    BY <2>3
  <2>5. Piece(q[k], m)
    BY <2>3, <2>4 DEF Piece, Inside, u, v
  <2> QED
    BY <2>2, <2>5 DEF m
<1>11. ASSUME NEW x \in 0..(AddrSpace - 1), NEW type
       PROVE  HasByte(q, type, x) <=> HasByte(boot.mmap, type, x)
  <2>0. x \in Nat /\ x < AddrSpace
    BY Constants
  <2>1. ASSUME HasByte(q, type, x) PROVE HasByte(boot.mmap, type, x)
    <3>1. PICK k \in 1..K : q[k].type = type /\ Covers(q[k], x)
      BY <1>7, <2>1 DEF HasByte
    <3> DEFINE a == mmap[k].addr
               b == mmap[k].len
               e == q[k].len
    <3>2. a \in Nat /\ b \in Nat /\ e \in Nat /\ e <= b /\ a <= x /\ x < a + e
      BY <1>8, <3>1 DEF Covers
    <3> HIDE DEF a, b, e
    <3>3. a <= x /\ x < a + b
      BY <2>0, <3>2
    <3>4. mmap[k] \in Members(boot.mmap)
      BY <1>1, <1>5 DEF Members
    <3>5. PICK j \in 1..Len(boot.mmap) : boot.mmap[j] = mmap[k]
      BY <3>4 DEF Members
    <3>6. boot.mmap[j].type = type /\ Covers(boot.mmap[j], x)
      BY <1>8, <3>1, <3>3, <3>5 DEF Covers, a, b
    <3> QED
      BY <3>6 DEF HasByte
  <2>2. ASSUME HasByte(boot.mmap, type, x) PROVE HasByte(q, type, x)
    <3>1. PICK j \in 1..Len(boot.mmap) : boot.mmap[j].type = type /\ Covers(boot.mmap[j], x)
      BY <2>2 DEF HasByte
    <3>2. PICK k \in 1..n : mmap[k] = boot.mmap[j]
      BY BootEntry
    <3> DEFINE a == mmap[k].addr
               b == mmap[k].len
               e == q[k].len
    <3>3. a \in Nat /\ b \in Nat /\ a <= x /\ x < a + b /\ mmap[k].type = type
      BY <3>1, <3>2, UsableFacts DEF Covers
    <3>4. k \in 1..K
      <4> HIDE DEF a, b
      <4>1. a < AddrSpace
        BY <2>0, <3>3, Constants
      <4>2. k <= K
        BY <1>3, <4>1 DEF a
      <4> QED
        BY <1>2, <4>2
    <3>5. e \in Nat /\ (a + e = AddrSpace \/ e = b) /\ q[k].addr = a /\ q[k].type = type
      BY <1>8, <3>3, <3>4
    <3> HIDE DEF a, b, e
    <3>6. x < a + e
      BY <2>0, <3>3, <3>5
    <3>7. Covers(q[k], x)
      BY <3>3, <3>5, <3>6 DEF Covers, e
    <3> QED
      BY <1>7, <3>4, <3>5, <3>7 DEF HasByte
  <2> QED
    BY <2>1, <2>2
<1>12. Len(q) <= Len(boot.mmap)
  BY <1>1, <1>2, <1>7
<1> QED
  BY <1>4, <1>9, <1>10, <1>11, <1>12

-----------------------------------------------------------------------------
(* The areas in use *)

LEMMA InUseIs ==
  /\ Len(InUse) = IF ModuleLoaded(boot) THEN 3 ELSE 2
  /\ InUse[1] = Kernel(boot) /\ InUse[2] = Pmm
  /\ ModuleLoaded(boot) => InUse[3] = Module(boot)
<1> DEFINE a == Kernel(boot)
           b == Pmm
           c == Module(boot)
<1>1. CASE ModuleLoaded(boot)
  <2>1. InUse = <<a, b>> \o <<c>>
    BY <1>1 DEF InUse
  <2> HIDE DEF a, b, c
  <2>2. Len(InUse) = 3 /\ InUse[1] = a /\ InUse[2] = b /\ InUse[3] = c
    BY <2>1
  <2> QED
    BY <1>1, <2>2 DEF a, b, c
<1>2. CASE ~ModuleLoaded(boot)
  <2>1. InUse = <<a, b>> \o <<>>
    BY <1>2 DEF InUse
  <2> HIDE DEF a, b
  <2>2. Len(InUse) = 2 /\ InUse[1] = a /\ InUse[2] = b
    BY <2>1
  <2> QED
    BY <1>2, <2>2 DEF a, b
<1> QED
  BY <1>1, <1>2

LEMMA AreaTaken ==
  ASSUME NEW i \in 1..Len(InUse)
  PROVE  (<<Kernel(boot), Pmm, Module(boot)>>)[i] = InUse[i]
<1>1. i \in 1..2 \/ (i = 3 /\ ModuleLoaded(boot))
  <2>1. CASE ModuleLoaded(boot)
    BY <2>1, InUseIs
  <2>2. CASE ~ModuleLoaded(boot)
    BY <2>2, InUseIs
  <2> QED
    BY <2>1, <2>2
<1>2. i = 1 \/ i = 2 \/ (i = 3 /\ ModuleLoaded(boot))
  BY <1>1
<1> QED
  BY <1>2, InUseIs

LEMMA ModuleIsAnArea ==
  ASSUME LocationInv, ModuleLoaded(boot)
  PROVE  Module(boot) \in Members(MultibootAreas(boot))
<1> DEFINE areas == MultibootAreas(boot)
           a == Area(boot.mbi, Sizeof.mbi)
           b == Area(boot.mmap_addr, Len(boot.mmap) * Sizeof.mmap)
           c == Area(boot.mods_addr, Sizeof.mod)
           d == Module(boot)
<1>1. areas = <<a, b>> \o <<c, d>>
  BY DEF MultibootAreas
<1> HIDE DEF areas, a, b, c, d
<1>2. Len(areas) = 4 /\ areas[4] = d
  BY <1>1
<1>3. d \in Members(areas)
  BY <1>2 DEF Members
<1> QED
  BY <1>3 DEF d, areas

\* Each area in use ends below 4 GiB, and little behind the top.
LEMMA InUseFacts ==
  ASSUME LocationInv, Located, NEW i \in 1..Len(InUse)
  PROVE  /\ InUse[i].addr \in Nat /\ InUse[i].len \in Nat
         /\ InUse[i].addr + InUse[i].len < AddrSpace
         /\ InUse[i].addr + InUse[i].len < Top(boot) + PageSize + size
         /\ Edge(InUse[i].addr) /\ Edge(InUse[i].addr + InUse[i].len)
<1>1. boot \in Machines /\ Behind
  BY DEF LocationInv, BootInv, PlacedInv
<1> DEFINE k == boot.kernel_end
           p == pmm_addr
           z == size
           top == Top(boot)
           L == top + PageSize + z
<1>2. /\ k \in Nat /\ z \in Nat /\ k > LowMem /\ k < AddrSpace - PageSize - z
      /\ p \in Nat /\ p + z < AddrSpace /\ p < top + PageSize /\ k < top
      /\ top \in Nat /\ top <= AddrSpace - PageSize - z
  BY <1>1, SizeFacts DEF Behind
<1>3. /\ Kernel(boot).addr = LowMem /\ Kernel(boot).len = k - LowMem
      /\ Pmm.addr = p /\ Pmm.len = z
  BY DEF Kernel, Pmm, Area, kernel_start, size
<1> HIDE DEF k, p, z, top
<1>4. /\ LowMem \in Nat /\ k - LowMem \in Nat /\ LowMem + (k - LowMem) < AddrSpace
      /\ LowMem + (k - LowMem) < L /\ p + z < L
  BY <1>2, Constants
<1>5. ASSUME ModuleLoaded(boot)
      PROVE  /\ Module(boot).addr \in Nat /\ Module(boot).len \in Nat
             /\ Module(boot).addr + Module(boot).len < AddrSpace
             /\ Module(boot).addr + Module(boot).len < L
  <2> DEFINE d == Module(boot)
             x == d.addr
             y == d.len
  <2>1. x \in Nat /\ y \in Nat /\ x + y < top
    BY <1>1, <1>5, ModuleIsAnArea, AreaFacts DEF top
  <2> HIDE DEF x, y
  <2>2. x + y < AddrSpace /\ x + y < L
    BY <1>2, <2>1, Constants
  <2> QED
    BY <2>1, <2>2 DEF x, y
<1> HIDE DEF L
<1>6. /\ InUse[i].addr \in Nat /\ InUse[i].len \in Nat
      /\ InUse[i].addr + InUse[i].len < AddrSpace
      /\ InUse[i].addr + InUse[i].len < L
  <2>1. i = 1 \/ i = 2 \/ (i = 3 /\ ModuleLoaded(boot))
    <3>1. CASE ModuleLoaded(boot)
      BY <3>1, InUseIs
    <3>2. CASE ~ModuleLoaded(boot)
      BY <3>2, InUseIs
    <3> QED
      BY <3>1, <3>2
  <2>2. CASE i = 1
    BY <1>3, <1>4, <2>2, InUseIs
  <2>3. CASE i = 2
    BY <1>2, <1>3, <1>4, <2>3, InUseIs
  <2>4. CASE i = 3 /\ ModuleLoaded(boot)
    BY <1>5, <2>4, InUseIs
  <2> QED
    BY <2>1, <2>2, <2>3, <2>4
<1>7. Edge(InUse[i].addr) /\ Edge(InUse[i].addr + InUse[i].len)
  BY DEF Edge
<1> QED
  BY <1>6, <1>7 DEF L, top, z

-----------------------------------------------------------------------------
(* The steps of the reservations *)

\* The areas stay where they are.
LEMMA SameAreas ==
  ASSUME UNCHANGED <<boot, pmm_addr>>
  PROVE  /\ InUse' = InUse
         /\ Pieces(pmm') => Pieces(pmm)'
         /\ Kernel(boot)' = Kernel(boot) /\ Pmm' = Pmm /\ Module(boot)' = Module(boot)
         /\ ModuleLoaded(boot)' = ModuleLoaded(boot)
<1>1. boot' = boot /\ pmm_addr' = pmm_addr
  OBVIOUS
<1>2. Pmm' = Pmm
  BY <1>1 DEF Pmm
<1>3. InUse' = InUse
  BY <1>1, <1>2 DEF InUse
<1>4. Pieces(pmm') => Pieces(pmm)'
  BY <1>1, <1>3 DEF Pieces, Piece, Edge
<1> QED
  BY <1>1, <1>2, <1>3, <1>4

LEMMA CurrentIs ==
  ASSUME LocationInv, MapInv, Reserving
  PROVE  /\ nb_reserved \in 0..2
         /\ nb_reserved + 1 \in 1..Len(InUse)
         /\ Current = InUse[nb_reserved + 1]
         /\ Current = (<<Kernel(boot), Pmm, Module(boot)>>)[nb_reserved + 1]
<1>1. ReservedInv
  BY DEF MapInv
<1>2. CASE pc = "kernel"
  <2>1. nb_reserved = 0 /\ Current = Kernel(boot)
    BY <1>1, <1>2 DEF ReservedInv, Current
  <2>2. 1 \in 1..Len(InUse)
    BY InUseIs
  <2> QED
    BY <2>1, <2>2, InUseIs
<1>3. CASE pc = "pmm"
  <2>1. nb_reserved = 1 /\ Current = Pmm
    BY <1>1, <1>3 DEF ReservedInv, Current
  <2>2. 2 \in 1..Len(InUse)
    BY InUseIs
  <2> QED
    BY <2>1, <2>2, InUseIs
<1>4. CASE pc = "module"
  <2>1. nb_reserved = 2 /\ Current = Module(boot) /\ ModuleLoaded(boot)
    BY <1>1, <1>4 DEF ReservedInv, Current
  <2>2. 3 \in 1..Len(InUse)
    BY <2>1, InUseIs
  <2> QED
    BY <2>1, <2>2, InUseIs
<1> QED
  BY <1>2, <1>3, <1>4 DEF Reserving

\* The bytes taken when one more area is.
LEMMA TakenGrows ==
  ASSUME nb_reserved \in 0..2, UNCHANGED <<boot, pmm_addr>>
  PROVE  /\ nb_reserved' = nb_reserved => Taken' = Taken
         /\ nb_reserved' = nb_reserved + 1 =>
              Taken' = Taken \cup
                Bytes((<<Kernel(boot), Pmm, Module(boot)>>)[nb_reserved + 1])
<1> DEFINE ar == <<Kernel(boot), Pmm, Module(boot)>>
           A(i) == Bytes(ar[i])
<1>1. (<<Kernel(boot), Pmm, Module(boot)>>)' = ar
  BY SameAreas
<1>2. Taken = UNION {A(i) : i \in 1..nb_reserved}
  BY DEF Taken
<1>3. Taken' = UNION {A(i) : i \in 1..nb_reserved'}
  BY <1>1 DEF Taken, Bytes
<1>4. nb_reserved' = nb_reserved => Taken' = Taken
  BY <1>2, <1>3
<1>5. ASSUME nb_reserved' = nb_reserved + 1
      PROVE  Taken' = Taken \cup A(nb_reserved + 1)
  <2>1. 1..nb_reserved' = (1..nb_reserved) \cup {nb_reserved + 1}
    BY <1>5
  <2> HIDE DEF A
  <2> QED
    BY <1>2, <1>3, <2>1
<1> QED
  BY <1>4, <1>5

LEMMA ReserveStep ==
  ASSUME LocationInv, MapInv, Reserving, UNCHANGED <<boot, pmm_addr>>,
         NEW next, reserve_region(Current, next),
         pc = "kernel" => next = "pmm",
         pc = "pmm" => next = IF ModuleLoaded(boot) THEN "module" ELSE "pfa",
         pc = "module" => next = "pfa"
  PROVE  MapInv'
<1> DEFINE a == Current
           r == nb_reserved
<1>1. /\ MapOK(pmm) /\ Pieces(pmm) /\ BytesInv(pmm) /\ Counted(pmm, a) /\ ReservedInv
  BY DEF MapInv
<1>2. r \in 0..2 /\ r + 1 \in 1..Len(InUse) /\ a = InUse[r + 1]
      /\ a = (<<Kernel(boot), Pmm, Module(boot)>>)[r + 1]
  BY CurrentIs
<1>3. Located
  BY DEF Reserving, Located
<1>4. /\ a.addr \in Nat /\ a.len \in Nat /\ a.addr + a.len < AddrSpace
      /\ Edge(a.addr) /\ Edge(a.addr + a.len)
  BY <1>2, <1>3, InUseFacts
<1> HIDE DEF a
<1>5. reserve_region(a, next)
  BY DEF a
<1>6. pc' = "panic" \/ HasSplit(a) \/ HasReserved(a, next)
  BY <1>1, <1>2, <1>4, <1>5, ReserveMap
<1>7. InUse' = InUse /\ boot' = boot /\ ModuleLoaded(boot)' = ModuleLoaded(boot)
  BY SameAreas
<1>8. CASE pc' = "panic"
  BY <1>8 DEF MapInv, ReservedInv, Reserving
<1>9. CASE HasSplit(a)
  <2>1. /\ pc' = pc /\ nb_reserved' = r
        /\ MapOK(pmm') /\ Pieces(pmm') /\ Counted(pmm', a)
        /\ \A x \in Nat : \A type : HasByte(pmm', type, x) <=> HasByte(pmm, type, x)
    BY <1>9 DEF HasSplit
  <2>2. ReservedInv'
    BY <1>1, <1>7, <2>1 DEF ReservedInv
  <2>3. Taken' = Taken
    BY <1>2, <2>1, TakenGrows
  <2>4. BytesInv(pmm)'
    <3>1. \A x \in 0..(AddrSpace - 1) : x \in Nat
      BY Constants
    <3> QED
      BY <1>1, <1>7, <2>1, <2>3, <3>1 DEF BytesInv
  <2>5. Pieces(pmm)' /\ MapOK(pmm)'
    BY <2>1, SameAreas
  <2>6. Current' = Current
    BY <2>1, SameAreas DEF Current
  <2>7. Counted(pmm, Current)'
    BY <1>7, <2>1, <2>6 DEF Counted, a
  <2>8. pc' # "pfa"
    BY <2>1 DEF Reserving
  <2> QED
    BY <2>2, <2>4, <2>5, <2>7, <2>8 DEF MapInv
<1>10. CASE HasReserved(a, next)
  <2>1. /\ pc' = next /\ nb_reserved' = r + 1 /\ a.len > 0
        /\ MapOK(pmm') /\ Pieces(pmm')
        /\ Len(pmm') <= Len(boot.mmap) + 2 * (r + 1)
        /\ \A x \in Nat :
             /\ HasByte(pmm', AVAILABLE, x) <=>
                  HasByte(pmm, AVAILABLE, x) /\ x \notin Bytes(a)
             /\ HasByte(pmm', RESERVED, x) <=> HasByte(pmm, RESERVED, x) \/ x \in Bytes(a)
    BY <1>10 DEF HasReserved
  <2>2. ReservedInv'
    <3>1. \A i \in 1..(r + 1) : InUse[i].len > 0
      <4>1. \A i \in 1..r : InUse[i].len > 0
        <5>1. CASE pc = "kernel"
          <6>1. r = 0
            BY <1>1, <5>1 DEF ReservedInv
          <6> QED
            BY <6>1
        <5>2. CASE pc # "kernel"
          BY <1>1, <5>2 DEF ReservedInv, Reserving
        <5> QED
          BY <5>1, <5>2
      <4>2. \A i \in 1..(r + 1) : i \in 1..r \/ i = r + 1
        BY <1>2
      <4> QED
        BY <1>2, <2>1, <4>1, <4>2
    <3>2. CASE pc = "kernel"
      <4>1. pc' = "pmm" /\ r = 0
        BY <1>1, <2>1, <3>2 DEF ReservedInv
      <4> QED
        BY <1>7, <2>1, <3>1, <4>1 DEF ReservedInv
    <3>3. CASE pc = "pmm"
      <4>1. r = 1 /\ r + 1 = 2
        BY <1>1, <3>3 DEF ReservedInv
      <4>2. CASE ModuleLoaded(boot)
        <5>1. pc' = "module"
          BY <2>1, <3>3, <4>2
        <5> QED
          BY <1>7, <2>1, <3>1, <4>1, <4>2, <5>1 DEF ReservedInv
      <4>3. CASE ~ModuleLoaded(boot)
        <5>1. pc' = "pfa" /\ Len(InUse) = 2
          BY <2>1, <3>3, <4>3, InUseIs
        <5> QED
          BY <1>7, <2>1, <3>1, <4>1, <5>1 DEF ReservedInv
      <4> QED
        BY <4>2, <4>3
    <3>4. CASE pc = "module"
      <4>1. r + 1 = 3 /\ pc' = "pfa" /\ ModuleLoaded(boot)
        BY <1>1, <2>1, <3>4 DEF ReservedInv
      <4>2. Len(InUse) = 3
        BY <4>1, InUseIs
      <4> QED
        BY <1>7, <2>1, <3>1, <4>1, <4>2 DEF ReservedInv
    <3> QED
      BY <3>2, <3>3, <3>4 DEF Reserving
  <2>3. Taken' = Taken \cup Bytes(a)
    BY <1>2, <2>1, TakenGrows
  <2>4. BytesInv(pmm)'
    <3>1. \A x \in 0..(AddrSpace - 1) : x \in Nat
      BY Constants
    <3> SUFFICES ASSUME NEW x \in 0..(AddrSpace - 1)
                 PROVE  /\ HasByte(pmm', AVAILABLE, x) <=>
                             HasByte(boot.mmap, AVAILABLE, x) /\ x \notin Taken'
                        /\ HasByte(pmm', RESERVED, x) <=>
                             HasByte(boot.mmap, RESERVED, x) \/ x \in Taken'
      BY <1>7 DEF BytesInv
    <3>2. /\ HasByte(pmm, AVAILABLE, x) <=>
               HasByte(boot.mmap, AVAILABLE, x) /\ x \notin Taken
          /\ HasByte(pmm, RESERVED, x) <=> HasByte(boot.mmap, RESERVED, x) \/ x \in Taken
      BY <1>1 DEF BytesInv
    <3>3. /\ HasByte(pmm', AVAILABLE, x) <=>
               HasByte(pmm, AVAILABLE, x) /\ x \notin Bytes(a)
          /\ HasByte(pmm', RESERVED, x) <=> HasByte(pmm, RESERVED, x) \/ x \in Bytes(a)
      BY <2>1, <3>1
    <3> QED
      BY <2>3, <3>2, <3>3
  <2>5. Pieces(pmm)' /\ MapOK(pmm)'
    BY <2>1, SameAreas
  <2>6. Counted(pmm, Current)' /\ (Len(pmm) <= Len(boot.mmap) + 2 * nb_reserved)'
    <3> DEFINE n == Len(pmm')
               B == Len(boot.mmap)
               k == IF Exact(pmm, Current)' THEN 2 ELSE IF Starts(pmm, Current)' THEN 1 ELSE 0
    <3>1. n \in Nat /\ B \in Nat
      BY <2>1, MachineTypes, LenProperties DEF LocationInv, BootInv, MapOK
    <3>2. k \in 0..2
      OBVIOUS
    <3>3. Counted(pmm, Current)' <=> n <= B + 2 * nb_reserved' + k
      BY <1>7 DEF Counted
    <3>4. n <= B + 2 * (r + 1)
      BY <2>1
    <3> HIDE DEF n, B, k
    <3>5. n <= B + 2 * nb_reserved' + k /\ n <= B + 2 * nb_reserved'
      BY <1>2, <2>1, <3>1, <3>2, <3>4
    <3> QED
      BY <1>7, <3>3, <3>5 DEF n, B
  <2> QED
    BY <2>2, <2>4, <2>5, <2>6 DEF MapInv
<1> QED
  BY <1>6, <1>8, <1>9, <1>10

LEMMA InitMap == Init => MapInv
BY DEF Init, MapInv, ReservedInv, Reserving

\* Before the map is filled nothing is said of it but that nothing is reserved.
LEMMA EarlyMap ==
  ASSUME MapInv, nb_reserved' = nb_reserved,
         pc \in {"flags", "sort_mbr", "sort_mmap", "locate", "avoid"},
         pc' \in {"flags", "sort_mbr", "sort_mmap", "locate", "avoid", "fill", "panic"}
  PROVE  MapInv'
BY DEF MapInv, ReservedInv, Reserving

LEMMA FillStep ==
  ASSUME LocationInv, MapInv, fill_phys_mmap
  PROVE  MapInv'
<1>1. /\ pc = "fill" /\ pc' = "kernel" /\ UNCHANGED <<boot, pmm_addr, nb_reserved>>
  BY DEF fill_phys_mmap
<1>2. nb_reserved = 0 /\ nb_reserved' = 0
  BY <1>1 DEF MapInv, ReservedInv
<1>3. /\ MapOK(pmm') /\ Pieces(pmm')
      /\ Len(pmm') <= Len(boot.mmap)
      /\ \A x \in 0..(AddrSpace - 1) : \A type :
           HasByte(pmm', type, x) <=> HasByte(boot.mmap, type, x)
  BY <1>1, FillMap
<1>4. Taken' = {}
  BY <1>2 DEF Taken
<1>5. BytesInv(pmm)'
  BY <1>1, <1>3, <1>4 DEF BytesInv
<1>6. Pieces(pmm)' /\ MapOK(pmm)'
  BY <1>1, <1>3, SameAreas
<1>7. Counted(pmm, Current)'
  <2> DEFINE n == Len(pmm')
             B == Len(boot.mmap)
             k == IF Exact(pmm, Current)' THEN 2 ELSE IF Starts(pmm, Current)' THEN 1 ELSE 0
  <2>1. n \in Nat /\ B \in Nat
    BY <1>3, MachineTypes, LenProperties DEF LocationInv, BootInv, MapOK
  <2>2. k \in 0..2 /\ n <= B
    BY <1>3
  <2>3. Counted(pmm, Current)' <=> n <= B + 2 * nb_reserved' + k
    BY <1>1 DEF Counted
  <2> HIDE DEF n, B, k
  <2>4. n <= B + 2 * nb_reserved' + k
    BY <1>2, <2>1, <2>2
  <2> QED
    BY <2>3, <2>4
<1> QED
  BY <1>1, <1>2, <1>5, <1>6, <1>7 DEF MapInv, ReservedInv

LEMMA NextMap == LocationInv /\ MapInv /\ [Next]_vars => MapInv'
<1> SUFFICES ASSUME LocationInv, MapInv, [Next]_vars PROVE MapInv'
  OBVIOUS
<1>1. CASE CheckFlags
  BY <1>1, EarlyMap DEF CheckFlags, Panic
<1>2. CASE sort_phys_mmap
  BY <1>2, EarlyMap DEF sort_phys_mmap
<1>3. CASE sort_multiboot_mmap
  BY <1>3, EarlyMap DEF sort_multiboot_mmap
<1>4. CASE NextSegment
  BY <1>4, EarlyMap DEF NextSegment, Panic
<1>5. CASE AvoidStructure
  BY <1>5, EarlyMap DEF AvoidStructure
<1>6. CASE CheckRange
  BY <1>6, EarlyMap DEF CheckRange
<1>7. CASE fill_phys_mmap
  BY <1>7, FillStep
<1>8. CASE ReserveKernel
  <2>1. /\ pc = "kernel" /\ Current = Kernel(boot) /\ Reserving
        /\ UNCHANGED <<boot, pmm_addr>>
    BY <1>8 DEF ReserveKernel, Current, Reserving
  <2>2. reserve_region(Current, "pmm")
    BY <1>8, <2>1 DEF ReserveKernel
  <2> QED
    BY <2>1, <2>2, ReserveStep
<1>9. CASE ReservePmm
  <2> DEFINE next == IF ModuleLoaded(boot) THEN "module" ELSE "pfa"
  <2>1. /\ pc = "pmm" /\ Current = Pmm /\ Reserving
        /\ UNCHANGED <<boot, pmm_addr>>
    BY <1>9 DEF ReservePmm, Current, Reserving
  <2>2. reserve_region(Current, next)
    BY <1>9, <2>1 DEF ReservePmm
  <2>3. /\ pc = "kernel" => next = "pmm"
        /\ pc = "pmm" => next = IF ModuleLoaded(boot) THEN "module" ELSE "pfa"
        /\ pc = "module" => next = "pfa"
    BY <2>1
  <2> HIDE DEF next
  <2> QED
    BY <2>1, <2>2, <2>3, ReserveStep
<1>10. CASE ReserveModule
  <2>1. /\ pc = "module" /\ Current = Module(boot) /\ Reserving
        /\ UNCHANGED <<boot, pmm_addr>>
    BY <1>10 DEF ReserveModule, Current, Reserving
  <2>2. reserve_region(Current, "pfa")
    BY <1>10, <2>1 DEF ReserveModule
  <2> QED
    BY <2>1, <2>2, ReserveStep
<1>11. CASE pfa_init
  BY <1>11 DEF pfa_init, Panic, MapInv, ReservedInv, Reserving
<1>12. CASE paging_setup
  BY <1>12 DEF paging_setup, Panic, MapInv, ReservedInv, Reserving
<1>13. CASE UNCHANGED vars
  <2>1. /\ boot' = boot /\ pc' = pc /\ pmm_addr' = pmm_addr /\ pmm' = pmm
        /\ nb_reserved' = nb_reserved /\ UNCHANGED <<boot, pmm_addr>>
    BY <1>13 DEF vars
  <2>2. InUse' = InUse /\ Current' = Current /\ Taken' = Taken
    <3>1. InUse' = InUse /\ Pmm' = Pmm
      BY <2>1, SameAreas
    <3> QED
      BY <2>1, <3>1 DEF Current, Taken
  <2> QED
    BY <2>1, <2>2 DEF MapInv, ReservedInv, Reserving, BytesInv, Counted, Pieces, Piece, Edge
<1> QED
  BY <1>1, <1>2, <1>3, <1>4, <1>5, <1>6, <1>7, <1>8, <1>9, <1>10, <1>11, <1>12, <1>13
     DEF Next

\* The map is in order and exact at every step of the reservations, whatever the
\* bootloader left.
THEOREM Mapping == Spec => []MapInv
BY Locating, InitMap, NextMap, PTL DEF Spec

\* The bytes of a type, as the property has them.
LEMMA TypeBytesIs ==
  ASSUME NEW map \in Seq(MmapEntries), NEW type
  PROVE  TypeBytes(map, type) = {x \in 0..(AddrSpace - 1) : HasByte(map, type, x)}
<1>1. DOMAIN map = 1..Len(map)
  BY LenProperties
<1>2. ASSUME NEW i \in 1..Len(map), NEW x \in 0..(AddrSpace - 1)
      PROVE  x \in Bytes(map[i]) <=> Covers(map[i], x)
  <2> DEFINE u == map[i].addr
             l == map[i].len
  <2>1. u \in Nat /\ l \in Nat /\ x \in Nat
    BY EntryOf, Constants
  <2>2. /\ x \in Bytes(map[i]) <=> x \in u..(u + l - 1)
        /\ Covers(map[i], x) <=> u <= x /\ x < u + l
    BY DEF Bytes, Covers
  <2> HIDE DEF u, l
  <2>3. x \in u..(u + l - 1) <=> u <= x /\ x < u + l
    BY <2>1
  <2> QED
    BY <2>2, <2>3
<1>3. ASSUME NEW x \in 0..(AddrSpace - 1)
      PROVE  x \in TypeBytes(map, type) <=> HasByte(map, type, x)
  <2>1. x \in TypeBytes(map, type) <=>
          \E i \in 1..Len(map) : map[i].type = type /\ x \in Bytes(map[i])
    BY <1>1 DEF TypeBytes
  <2> QED
    BY <1>2, <2>1 DEF HasByte
<1>4. TypeBytes(map, type) \subseteq 0..(AddrSpace - 1)
  BY DEF TypeBytes
<1> QED
  BY <1>3, <1>4

LEMMA ExactInv == LocationInv /\ MapInv => MapIsExact
<1> SUFFICES ASSUME LocationInv, MapInv, Reserving \/ pc = "pfa"
             PROVE  /\ Len(pmm) <= MapEntries(boot)
                    /\ \A i \in 1..(Len(pmm) - 1) :
                         pmm[i].addr + pmm[i].len <= pmm[i + 1].addr
                    /\ TypeBytes(pmm, AVAILABLE) = TypeBytes(boot.mmap, AVAILABLE) \ Taken
                    /\ TypeBytes(pmm, RESERVED) = TypeBytes(boot.mmap, RESERVED) \cup Taken
  BY DEF MapIsExact, Reserving
<1>1. MapOK(pmm) /\ BytesInv(pmm) /\ boot \in Machines
  BY DEF MapInv, LocationInv, BootInv
<1>2. pmm \in Seq(MmapEntries) /\ Len(pmm) \in Nat
  BY <1>1, LenProperties DEF MapOK
<1>3. boot.mmap \in Seq(MmapEntries) /\ Len(boot.mmap) \in Nat
  BY <1>1, MachineTypes, LenProperties
<1>4. \A i \in 1..(Len(pmm) - 1) : pmm[i].addr + pmm[i].len <= pmm[i + 1].addr
  <2> TAKE i \in 1..(Len(pmm) - 1)
  <2>1. i \in 1..Len(pmm) /\ i + 1 \in 1..Len(pmm) /\ i < i + 1
    BY <1>2
  <2> QED
    BY <1>1, <2>1 DEF MapOK
<1>5. Len(pmm) <= MapEntries(boot)
  <2> DEFINE n == Len(pmm)
             B == Len(boot.mmap)
             k == IF ModuleLoaded(boot) THEN 1 ELSE 0
             j == IF Exact(pmm, Current) THEN 2 ELSE IF Starts(pmm, Current) THEN 1 ELSE 0
  <2>1. MapEntries(boot) = 3 * (B + 2 + k) /\ k \in 0..1 /\ j \in 0..2
    BY DEF MapEntries
  <2>4. n \in Nat /\ B \in Nat
    BY <1>2, <1>3
  <2>2. CASE Reserving
    <3>1. n <= B + 2 * nb_reserved + j
      BY <2>2 DEF MapInv, Counted
    <3>2. nb_reserved \in 0..2
      BY <2>2, CurrentIs
    <3> HIDE DEF n, B, k, j
    <3>3. n <= B + 6
      BY <2>1, <2>4, <3>1, <3>2
    <3>4. B + 6 <= 3 * (B + 2 + k)
      BY <2>1, <2>4
    <3>5. n <= 3 * (B + 2 + k)
      BY <2>1, <2>4, <3>3, <3>4
    <3> QED
      BY <2>1, <3>5 DEF n
  <2>3. CASE pc = "pfa"
    <3>1. n <= B + 2 * nb_reserved /\ nb_reserved = Len(InUse)
      BY <2>3 DEF MapInv, ReservedInv
    <3>2. nb_reserved \in 2..3
      BY <3>1, InUseIs
    <3> HIDE DEF n, B, k, j
    <3>3. n <= B + 6
      BY <2>4, <3>1, <3>2
    <3>4. B + 6 <= 3 * (B + 2 + k)
      BY <2>1, <2>4
    <3>5. n <= 3 * (B + 2 + k)
      BY <2>1, <2>4, <3>3, <3>4
    <3> QED
      BY <2>1, <3>5 DEF n
  <2> QED
    BY <2>2, <2>3
<1>6. Taken \subseteq 0..(AddrSpace - 1)
  <2> SUFFICES ASSUME NEW x \in Taken PROVE x \in 0..(AddrSpace - 1)
    OBVIOUS
  <2>1. PICK i \in 1..nb_reserved :
          x \in Bytes((<<Kernel(boot), Pmm, Module(boot)>>)[i])
    BY DEF Taken
  <2>2. i \in 1..Len(InUse) /\ Located
    <3>1. CASE Reserving
      BY <3>1, CurrentIs, InUseIs DEF Reserving, Located
    <3>2. CASE pc = "pfa"
      BY <3>2 DEF Located, MapInv, ReservedInv
    <3> QED
      BY <3>1, <3>2
  <2>3. (<<Kernel(boot), Pmm, Module(boot)>>)[i] = InUse[i]
    BY <2>2, AreaTaken
  <2> DEFINE u == InUse[i].addr
             l == InUse[i].len
  <2>4. x \in u..(u + l - 1)
    BY <2>1, <2>3 DEF Bytes
  <2>5. u \in Nat /\ l \in Nat /\ u + l < AddrSpace
    BY <2>2, InUseFacts
  <2> HIDE DEF u, l
  <2> QED
    BY <2>4, <2>5, Constants
<1>7. /\ TypeBytes(pmm, AVAILABLE) = TypeBytes(boot.mmap, AVAILABLE) \ Taken
      /\ TypeBytes(pmm, RESERVED) = TypeBytes(boot.mmap, RESERVED) \cup Taken
  <2> DEFINE All == 0..(AddrSpace - 1)
  <2>1. \A type : /\ TypeBytes(pmm, type) = {x \in All : HasByte(pmm, type, x)}
                  /\ TypeBytes(boot.mmap, type) = {x \in All : HasByte(boot.mmap, type, x)}
    BY <1>2, <1>3, TypeBytesIs
  <2>2. \A x \in All :
          /\ HasByte(pmm, AVAILABLE, x) <=>
               HasByte(boot.mmap, AVAILABLE, x) /\ x \notin Taken
          /\ HasByte(pmm, RESERVED, x) <=> HasByte(boot.mmap, RESERVED, x) \/ x \in Taken
    BY <1>1 DEF BytesInv
  <2> HIDE DEF All
  <2>3. Taken \subseteq All
    BY <1>6 DEF All
  <2> QED
    BY <2>1, <2>2, <2>3
<1> QED
  BY <1>4, <1>5, <1>7

\* While the areas are reserved the map stays sorted, without overlaps and exact,
\* and it never outgrows the room that phys_mem_map_size() computed.
THEOREM ExactMap == Spec => []MapIsExact
BY ExactInv, Locating, Mapping, PTL

-----------------------------------------------------------------------------
(* Pages *)

\* The address of page i.
AddrOf(i) == PageSize * i

LEMMA Pages ==
  ASSUME NEW i \in Nat, NEW j \in Nat
  PROVE  /\ AddrOf(i) \in Nat
         /\ i < j => AddrOf(i) + PageSize <= AddrOf(j)
         /\ i <= j => AddrOf(i) <= AddrOf(j)
         /\ AddrOf(i) < AddrOf(j) => i < j
         /\ AddrOf(i) <= AddrOf(j) => i <= j
         /\ AddrOf(i + j) = AddrOf(i) + AddrOf(j)
         /\ AddrOf(i + 1) = AddrOf(i) + PageSize
         /\ AddrOf(0) = 0
<1> DEFINE p == PageSize
<1>1. p \in Nat /\ p > 0
  BY Constants
<1> HIDE DEF p
<1>2. p * i \in Nat /\ p * j \in Nat
  BY <1>1
<1>3. ASSUME NEW a \in Nat, NEW b \in Nat, a < b PROVE p * a + p <= p * b
  <2>1. PICK d \in Nat : b = a + 1 + d
    <3>1. b - (a + 1) \in Nat /\ b = a + 1 + (b - (a + 1))
      BY <1>3
    <3> QED
      BY <3>1
  <2>2. p * b = p * a + p + p * d
    BY <1>1, <2>1
  <2>3. p * d \in Nat /\ p * a \in Nat /\ p * b \in Nat
    BY <1>1
  <2> QED
    BY <1>1, <2>2, <2>3
<1>4. i < j => p * i + p <= p * j
  BY <1>3
<1>5. j < i => p * j + p <= p * i
  BY <1>3
<1>6. i = j => p * i = p * j
  OBVIOUS
<1>7. /\ i <= j => p * i <= p * j
      /\ p * i < p * j => i < j
      /\ p * i <= p * j => i <= j
  BY <1>1, <1>2, <1>4, <1>5, <1>6
<1>8. p * (i + j) = p * i + p * j /\ p * (i + 1) = p * i + p /\ p * 0 = 0
  BY <1>1
<1> QED
  BY <1>2, <1>4, <1>7, <1>8 DEF AddrOf, p

LEMMA PageNumber ==
  ASSUME NEW x \in Nat
  PROVE  /\ x \div PageSize \in Nat
         /\ AddrOf(x \div PageSize) <= x
         /\ x < AddrOf(x \div PageSize) + PageSize
         /\ x % PageSize = 0 => x = AddrOf(x \div PageSize)
BY Constants DEF AddrOf

LEMMA PageNumberIs ==
  ASSUME NEW x \in Nat, NEW q \in Nat, AddrOf(q) <= x, x < AddrOf(q) + PageSize
  PROVE  x \div PageSize = q
<1> DEFINE k == x \div PageSize
           a == AddrOf(q)
           b == AddrOf(k)
<1>1. k \in Nat /\ b <= x /\ x < b + PageSize
  BY PageNumber
<1> HIDE DEF k
<1>2. a \in Nat /\ b \in Nat
  BY <1>1, Pages
<1>3. k < q => b + PageSize <= a
  BY <1>1, Pages
<1>4. q < k => a + PageSize <= b
  BY <1>1, Pages
<1> HIDE DEF a, b
<1>5. ~ (k < q) /\ ~ (q < k)
  BY <1>1, <1>2, <1>3, <1>4, Constants DEF a
<1> QED
  BY <1>1, <1>5 DEF k

LEMMA AddrOfPage ==
  ASSUME NEW q \in Nat
  PROVE  AddrOf(q) \div PageSize = q /\ AddrOf(q) % PageSize = 0
<1>1. AddrOf(q) \in Nat
  BY Pages
<1>2. AddrOf(q) <= AddrOf(q) /\ AddrOf(q) < AddrOf(q) + PageSize
  BY <1>1, Constants
<1>3. AddrOf(q) \div PageSize = q
  BY <1>1, <1>2, PageNumberIs
<1>4. AddrOf(q) % PageSize = 0
  BY Constants DEF AddrOf
<1> QED
  BY <1>3, <1>4

LEMMA DivSum ==
  ASSUME NEW a \in Nat, NEW b \in Nat, NEW c \in Nat, a + b <= c
  PROVE  a \div PageSize + b \div PageSize <= c \div PageSize
<1> DEFINE x == a \div PageSize
           y == b \div PageSize
           z == c \div PageSize
<1>1. /\ x \in Nat /\ AddrOf(x) <= a
      /\ y \in Nat /\ AddrOf(y) <= b
      /\ z \in Nat /\ c < AddrOf(z) + PageSize
  BY PageNumber
<1> HIDE DEF x, y, z
<1>2. AddrOf(x + y) = AddrOf(x) + AddrOf(y) /\ AddrOf(z + 1) = AddrOf(z) + PageSize
  BY <1>1, Pages
<1>3. AddrOf(x) \in Nat /\ AddrOf(y) \in Nat /\ AddrOf(z) \in Nat
  BY <1>1, Pages
<1>4. AddrOf(x + y) < AddrOf(z + 1)
  <2> DEFINE u == AddrOf(x)
             v == AddrOf(y)
             w == AddrOf(z)
  <2>1. u \in Nat /\ v \in Nat /\ w \in Nat /\ u <= a /\ v <= b /\ c < w + PageSize
    BY <1>1, <1>3
  <2> HIDE DEF u, v, w
  <2>2. u + v < w + PageSize
    BY <2>1, Constants
  <2> QED
    BY <1>2, <2>2 DEF u, v, w
<1>5. x + y < z + 1
  <2>1. x + y \in Nat /\ z + 1 \in Nat
    BY <1>1
  <2> QED
    BY <1>4, <2>1, Pages
<1>6. x + y <= z
  BY <1>1, <1>5
<1> QED
  BY <1>6 DEF x, y, z

-----------------------------------------------------------------------------
(* The valid regions *)

\* page_align() of an address that it does not wrap.
LEMMA AlignUp ==
  ASSUME NEW x \in Nat, x < AddrSpace, page_align(x) >= x
  PROVE  /\ page_align(x) \in Nat
         /\ x <= page_align(x) /\ page_align(x) < x + PageSize
         /\ page_align(x) % PageSize = 0
<1>1. CASE x + PageSize <= AddrSpace
  BY <1>1, PageAlign
<1>2. CASE ~ (x + PageSize <= AddrSpace)
  <2>1. CASE x % PageSize = 0
    BY <2>1, Constants DEF page_align
  <2>2. CASE x % PageSize # 0
    <3> DEFINE q == x \div PageSize
               k == AddrSpace \div PageSize
    <3>1. /\ q \in Nat /\ AddrOf(q) <= x /\ x < AddrOf(q) + PageSize
          /\ k \in Nat /\ AddrSpace = AddrOf(k)
      BY Constants, PageNumber
    <3>2. page_align(x) = W((q + 1) * PageSize)
      BY <2>2 DEF page_align
    <3> HIDE DEF q, k
    <3>3. (q + 1) * PageSize = AddrOf(q + 1)
      BY <3>1, Constants DEF AddrOf
    <3> DEFINE u == AddrOf(q)
               v == AddrOf(k)
    <3>4. u \in Nat /\ v \in Nat /\ AddrOf(q + 1) = u + PageSize
      BY <3>1, Pages
    <3>5. u < v
      BY <1>2, <3>1, <3>4, Constants
    <3>6. q < k
      BY <3>1, <3>5, Pages
    <3>7. q + 1 <= k /\ q + 1 \in Nat
      BY <3>1, <3>6
    <3>8. AddrOf(q + 1) <= AddrOf(k)
      BY <3>1, <3>7, Pages
    <3>9. u + PageSize = AddrSpace
      <4>1. q + 1 < k => u + PageSize + PageSize <= v
        BY <3>1, <3>4, <3>7, Pages
      <4>2. x < u + PageSize /\ v = AddrSpace
        BY <3>1
      <4> HIDE DEF u, v
      <4>3. ~ (q + 1 < k)
        BY <1>2, <3>4, <4>1, <4>2, Constants
      <4>4. q + 1 = k
        BY <3>1, <3>7, <4>3
      <4> QED
        BY <3>4, <4>2, <4>4 DEF v
    <3>10. page_align(x) = 0
      BY <3>2, <3>3, <3>4, <3>9, Constants DEF W
    <3>11. x = 0
      BY <3>10
    <3> QED
      BY <2>2, <3>11, Constants
  <2> QED
    BY <2>1, <2>2
<1> QED
  BY <1>1, <1>2

\* The first whole page of an entry of the map.
FirstPage(i) == page_align(pmm[i].addr) \div PageSize

LEMMA ValidFacts ==
  ASSUME MapOK(pmm), NEW i \in Valid
  PROVE  /\ i \in 1..Len(pmm) /\ pmm[i].type = AVAILABLE /\ pmm[i].addr >= LowMem
         /\ FirstPage(i) \in Nat /\ page_align(pmm[i].addr) = AddrOf(FirstPage(i))
         /\ pmm[i].addr <= AddrOf(FirstPage(i))
         /\ AlignedLen(pmm[i]) = pmm[i].addr + pmm[i].len - AddrOf(FirstPage(i))
         /\ AlignedLen(pmm[i]) \in Nat
         /\ EntryPages(i) \in Nat /\ EntryPages(i) > 0
         /\ AddrOf(FirstPage(i) + EntryPages(i)) <= pmm[i].addr + pmm[i].len
         /\ pmm[i].addr + pmm[i].len < AddrOf(FirstPage(i) + EntryPages(i)) + PageSize
<1> DEFINE e == pmm[i]
           u == e.addr
           l == e.len
           p == page_align(u)
           f == FirstPage(i)
           n == EntryPages(i)
           L == AlignedLen(e)
<1>1. pmm \in Seq(MmapEntries) /\ i \in 1..Len(pmm) /\ is_valid_region(e)
  BY LenProperties DEF MapOK, Valid
<1>2. u \in Nat /\ l \in Nat /\ l > 0 /\ u + l <= AddrSpace
  BY <1>1, EntryOf DEF MapOK
<1>3. /\ e.type = AVAILABLE /\ u >= LowMem
      /\ u % PageSize = 0 \/ (p >= u /\ p < W(u + l))
      /\ L \div PageSize > 0
  BY <1>1 DEF is_valid_region
<1>4. n = L \div PageSize /\ f = p \div PageSize /\ L = W(l - (p - u))
  BY DEF EntryPages, FirstPage, AlignedLen
<1> HIDE DEF e, u, l, p, f, n, L
<1>5. u < AddrSpace
  BY <1>2, Constants
<1>6. p >= u
  <2>1. u % PageSize = 0 => p = u
    BY DEF page_align, p
  <2> QED
    BY <1>2, <1>3, <2>1
<1>7. p \in Nat /\ u <= p /\ p < u + PageSize /\ p % PageSize = 0
  BY <1>2, <1>5, <1>6, AlignUp DEF p
<1>8. p < u + l
  <2>1. CASE u % PageSize = 0
    <3>1. p = u
      BY <2>1 DEF page_align, p
    <3> QED
      BY <1>2, <3>1
  <2>2. CASE u % PageSize # 0
    <3>1. p < W(u + l)
      BY <1>3, <2>2
    <3>2. W(u + l) = u + l \/ W(u + l) = 0
      <4>1. CASE u + l = AddrSpace
        BY <4>1, Constants DEF W
      <4>2. CASE u + l # AddrSpace
        <5>1. u + l \in Nat /\ u + l < AddrSpace
          BY <1>2, <4>2, Constants
        <5> QED
          BY <5>1, NoWrap
      <4> QED
        BY <4>1, <4>2
    <3> QED
      BY <1>7, <3>1, <3>2
  <2> QED
    BY <2>1, <2>2
<1>9. L = u + l - p /\ L \in Nat
  <2>1. l - (p - u) \in Nat /\ l - (p - u) < AddrSpace /\ l - (p - u) = u + l - p
    BY <1>2, <1>3, <1>7, <1>8, Constants
  <2> QED
    BY <1>4, <2>1, NoWrap
<1>10. f \in Nat /\ p = AddrOf(f)
  BY <1>4, <1>7, PageNumber
<1>11. n \in Nat /\ AddrOf(n) <= L /\ L < AddrOf(n) + PageSize /\ n > 0
  BY <1>3, <1>4, <1>9, PageNumber
<1>12. AddrOf(f + n) = AddrOf(f) + AddrOf(n) /\ AddrOf(n) \in Nat /\ AddrOf(f) \in Nat
  BY <1>10, <1>11, Pages
<1>13. AddrOf(f + n) <= u + l /\ u + l < AddrOf(f + n) + PageSize
  <2> DEFINE x == AddrOf(f)
             y == AddrOf(n)
  <2>1. x \in Nat /\ y \in Nat /\ AddrOf(f + n) = x + y /\ p = x /\ y <= L
        /\ L < y + PageSize
    BY <1>10, <1>11, <1>12
  <2> HIDE DEF x, y
  <2>2. x + y <= u + l /\ u + l < x + y + PageSize
    BY <1>2, <1>7, <1>9, <2>1, Constants
  <2> QED
    BY <2>1, <2>2
<1>14. L = u + l - AddrOf(f) /\ u <= AddrOf(f)
  BY <1>7, <1>9, <1>10
<1>15. p = page_align(pmm[i].addr)
  BY DEF p, u, e
<1> QED
  BY <1>1, <1>3, <1>9, <1>10, <1>11, <1>13, <1>14, <1>15 DEF e, u, l, f, n, L

\* An available entry behind low memory that holds a whole page is valid, unless
\* it is not aligned and reaches 4 GiB.
LEMMA HoldsAPage ==
  ASSUME MapOK(pmm), NEW i \in 1..Len(pmm), NEW x \in Nat,
         pmm[i].type = AVAILABLE, pmm[i].addr >= LowMem,
         pmm[i].addr <= AddrOf(x), AddrOf(x) + PageSize <= pmm[i].addr + pmm[i].len,
         pmm[i].addr + pmm[i].len < AddrSpace \/ pmm[i].addr % PageSize = 0
  PROVE  i \in Valid /\ FirstPage(i) <= x /\ x < FirstPage(i) + EntryPages(i)
<1> DEFINE e == pmm[i]
           u == e.addr
           l == e.len
           p == page_align(u)
           L == AlignedLen(e)
           y == AddrOf(x)
<1>1. pmm \in Seq(MmapEntries) /\ DOMAIN pmm = 1..Len(pmm)
  BY LenProperties DEF MapOK
<1>2. /\ u \in Nat /\ l \in Nat /\ u + l <= AddrSpace
      /\ u >= LowMem /\ u <= y /\ y + PageSize <= u + l
      /\ u + l < AddrSpace \/ u % PageSize = 0
  BY <1>1, EntryOf DEF MapOK
<1>3. y \in Nat
  BY Pages
<1>4. L = W(l - (p - u))
  BY DEF AlignedLen
<1> HIDE DEF u, l, p, L, y
<1>5. u + PageSize <= AddrSpace
  BY <1>2, <1>3, Constants
<1>6. p \in Nat /\ u <= p /\ p < u + PageSize /\ p % PageSize = 0
  BY <1>2, <1>5, PageAlign DEF p
<1> DEFINE f == p \div PageSize
<1>7. f \in Nat /\ p = AddrOf(f)
  BY <1>6, PageNumber
<1> HIDE DEF f
<1>8. f <= x
  <2>1. AddrOf(f) < y + PageSize
    BY <1>2, <1>3, <1>6, <1>7, Constants
  <2>2. AddrOf(f) < AddrOf(x + 1)
    BY <2>1, Pages DEF y
  <2>3. f < x + 1
    <3>1. x + 1 \in Nat
      OBVIOUS
    <3> QED
      BY <1>7, <2>2, <3>1, Pages
  <2> QED
    BY <1>7, <2>3
<1>9. p <= y
  BY <1>7, <1>8, Pages DEF y
<1>10. L = u + l - p /\ L \in Nat /\ L >= PageSize
  <2>1. /\ l - (p - u) \in Nat /\ l - (p - u) < AddrSpace
        /\ l - (p - u) = u + l - p /\ u + l - p >= PageSize
    BY <1>2, <1>3, <1>6, <1>9, Constants
  <2> QED
    BY <1>4, <2>1, NoWrap
<1>11. L \div PageSize > 0
  <2> DEFINE n == L \div PageSize
  <2>1. n \in Nat /\ L < AddrOf(n) + PageSize
    BY <1>10, PageNumber
  <2> HIDE DEF n
  <2>2. n # 0
    <3> SUFFICES ASSUME n = 0 PROVE FALSE
      OBVIOUS
    <3>1. AddrOf(n) = 0
      BY Constants DEF AddrOf
    <3> QED
      BY <1>10, <2>1, <3>1, Constants
  <2>3. n > 0
    BY <2>1, <2>2
  <2> QED
    BY <2>3 DEF n
<1>12. u % PageSize = 0 \/ (p >= u /\ p < W(u + l))
  <2>1. CASE u + l < AddrSpace
    <3>1. W(u + l) = u + l
      BY <1>2, <2>1, NoWrap
    <3>2. p < u + l
      BY <1>2, <1>3, <1>6, <1>9, Constants
    <3> QED
      BY <1>2, <1>6, <3>1, <3>2
  <2> QED
    BY <1>2, <2>1
<1>13. i \in Valid
  BY <1>1, <1>2, <1>11, <1>12 DEF Valid, is_valid_region, u, l, p, L, e
<1>14. FirstPage(i) = f
  BY DEF FirstPage, f, p, u, e
<1>15. x < f + EntryPages(i)
  <2> DEFINE n == EntryPages(i)
             z == AddrOf(f + n)
  <2>1. /\ n \in Nat /\ u + l < AddrOf(f + n) + PageSize
    BY <1>13, <1>14, ValidFacts DEF u, l, e
  <2> HIDE DEF n
  <2>2. AddrOf(f + n) \in Nat /\ f + n \in Nat
    <3>1. f + n \in Nat
      BY <1>7, <2>1
    <3> QED
      BY <3>1, Pages
  <2>3. y < z
    <3> HIDE DEF z
    <3> QED
      BY <1>2, <1>3, <2>1, <2>2, Constants DEF z
  <2>4. x < f + n
    BY <2>2, <2>3, Pages DEF y
  <2> QED
    BY <2>4 DEF n
<1> QED
  BY <1>8, <1>13, <1>14, <1>15

-----------------------------------------------------------------------------
(* The free pages of the machine, and the map *)

LEMMA PageAreaIs ==
  ASSUME NEW x \in Nat
  PROVE  PageArea(x).addr = AddrOf(x) /\ PageArea(x).len = PageSize
BY Constants DEF PageArea, Area, AddrOf

\* When all areas are reserved.
LEMMA AllTaken ==
  ASSUME LocationInv, MapInv, pc = "pfa"
  PROVE  /\ \A y : y \in Taken <=> \E k \in 1..Len(InUse) : y \in Bytes(InUse[k])
         /\ \A k \in 1..Len(InUse) :
              /\ InUse[k].addr \in Nat /\ InUse[k].len \in Nat /\ InUse[k].len > 0
              /\ InUse[k].addr + InUse[k].len < AddrSpace
<1>1. nb_reserved = Len(InUse) /\ \A k \in 1..nb_reserved : InUse[k].len > 0
  BY DEF MapInv, ReservedInv
<1>2. Located
  BY DEF Located
<1>3. \A k \in 1..Len(InUse) :
        /\ InUse[k].addr \in Nat /\ InUse[k].len \in Nat
        /\ InUse[k].addr + InUse[k].len < AddrSpace
  BY <1>2, InUseFacts
<1>4. ASSUME NEW y
      PROVE  y \in Taken <=> \E k \in 1..Len(InUse) : y \in Bytes(InUse[k])
  <2>1. y \in Taken <=>
          \E k \in 1..Len(InUse) : y \in Bytes((<<Kernel(boot), Pmm, Module(boot)>>)[k])
    BY <1>1 DEF Taken
  <2> QED
    BY <2>1, AreaTaken
<1> QED
  BY <1>1, <1>3, <1>4

\* A page that is free of the areas in use is in one entry of the map...
LEMMA FreeIsValid ==
  ASSUME LocationInv, MapInv, pc = "pfa",
         NEW j \in 1..Len(boot.mmap), boot.mmap[j].type = AVAILABLE,
         NEW x \in Nat, LowMem <= AddrOf(x), AddrOf(x) + PageSize <= AddrSpace,
         boot.mmap[j].addr <= AddrOf(x),
         AddrOf(x) + PageSize <= boot.mmap[j].addr + boot.mmap[j].len,
         \A k \in 1..Len(InUse) :
           \/ AddrOf(x) + PageSize <= InUse[k].addr
           \/ InUse[k].addr + InUse[k].len <= AddrOf(x)
  PROVE  \E i \in Valid : FirstPage(i) <= x /\ x < FirstPage(i) + EntryPages(i)
<1> DEFINE m == boot.mmap[j]
           y == AddrOf(x)
           c == m.addr
           d == m.len
           s == Shrunk(m).len
<1>1. /\ MapOK(pmm) /\ Pieces(pmm) /\ BytesInv(pmm) /\ boot \in Machines
      /\ pmm \in Seq(MmapEntries)
  BY DEF MapInv, LocationInv, BootInv, MapOK
<1>2. y \in Nat /\ y < AddrSpace /\ y < y + PageSize
  <2>1. y \in Nat /\ y + PageSize <= AddrSpace
    BY Pages
  <2>2. PageSize \in Nat /\ PageSize > 0 /\ AddrSpace \in Nat
    BY Constants
  <2> HIDE DEF y
  <2> QED
    BY <2>1, <2>2
<1>3. /\ c \in Nat /\ d \in Nat /\ d > 0 /\ (c < LowMem => c + d <= LowMem)
      /\ c <= y /\ y + PageSize <= c + d
  BY BootEntry
<1>4. c < AddrSpace
  <2> HIDE DEF c, d, y
  <2> QED
    BY <1>2, <1>3, Constants
<1>5. /\ s \in Nat /\ s <= d /\ c + s <= AddrSpace /\ (c + s = AddrSpace \/ s = d)
      /\ Shrunk(m).addr = c
  BY <1>4, BootEntry
<1>6. (c + d < AddrSpace \/ c % PageSize = 0)
  <2>1. m \in Members(boot.mmap)
    BY DEF Members
  <2> QED
    BY <1>1, <1>4, <2>1, EntryFacts
<1>7. LowMem <= y /\ y + PageSize <= AddrSpace
  OBVIOUS
<1> HIDE DEF m, y, c, d, s
<1>8. y + PageSize <= c + s
  BY <1>2, <1>3, <1>5, <1>7, Constants
<1>9. HasByte(boot.mmap, AVAILABLE, y)
  <2>1. y < c + d
    BY <1>2, <1>3, Constants
  <2> QED
    BY <1>3, <2>1 DEF HasByte, Covers, c, d, m
<1>10. y \notin Taken
  <2> SUFFICES ASSUME y \in Taken PROVE FALSE
    OBVIOUS
  <2>1. PICK k \in 1..Len(InUse) : y \in Bytes(InUse[k])
    BY AllTaken
  <2> DEFINE a == InUse[k].addr
             b == InUse[k].len
  <2>2. a \in Nat /\ b \in Nat /\ y \in a..(a + b - 1) /\ (y + PageSize <= a \/ a + b <= y)
    BY <2>1, AllTaken DEF Bytes, y
  <2> HIDE DEF a, b
  <2> QED
    BY <1>2, <2>2, Constants
<1>11. PICK i \in 1..Len(pmm) : pmm[i].type = AVAILABLE /\ Covers(pmm[i], y)
  <2>1. y \in 0..(AddrSpace - 1)
    BY <1>2, Constants
  <2>2. HasByte(pmm, AVAILABLE, y)
    BY <1>1, <1>9, <1>10, <2>1 DEF BytesInv
  <2> QED
    BY <2>2 DEF HasByte
<1> DEFINE u == pmm[i].addr
           l == pmm[i].len
<1>12. u \in Nat /\ l \in Nat /\ l > 0 /\ u + l <= AddrSpace /\ u <= y /\ y < u + l
  BY <1>1, <1>11, EntryOf DEF MapOK, Covers
<1>13. PICK k \in 1..Len(boot.mmap) : Piece(pmm[i], boot.mmap[k])
  BY <1>1 DEF Pieces
<1> HIDE DEF u, l
<1>14. k = j
  <2> DEFINE g == boot.mmap[k].addr
             h == boot.mmap[k].len
             t == Shrunk(boot.mmap[k]).len
  <2>1. boot.mmap[k].addr < AddrSpace
    BY <1>13 DEF Piece
  <2>2. /\ g \in Nat /\ h \in Nat /\ t \in Nat /\ t <= h
        /\ Shrunk(boot.mmap[k]).addr = g
    BY <2>1, BootEntry
  <2>3. g <= u /\ u + l <= g + t
    BY <1>13, <2>2 DEF Piece, Inside, u, l
  <2>4. k = j \/ g + h <= c \/ c + d <= g
    <3>1. WellLoaded(boot) /\ DOMAIN boot.mmap = 1..Len(boot.mmap)
      BY <1>1, BootAssumption, MachineTypes, LenProperties
    <3>2. k = j \/ Apart(boot.mmap[k], boot.mmap[j])
      BY <3>1 DEF WellLoaded
    <3> QED
      BY <3>2 DEF Apart, c, d, m
  <2> HIDE DEF g, h, t
  <2>5. ~ (g + h <= c) /\ ~ (c + d <= g)
    <3>1. ~ (g + h <= c)
      BY <1>2, <1>3, <1>12, <2>2, <2>3
    <3>2. ~ (c + d <= g)
      <4>1. PageSize \in Nat /\ PageSize > 0
        BY Constants
      <4> QED
        BY <1>2, <1>3, <1>12, <2>2, <2>3, <4>1
    <3> QED
      BY <3>1, <3>2
  <2> QED
    BY <2>4, <2>5
<1>15. /\ c <= u /\ u + l <= c + s
       /\ u + l = c + s \/ Edge(u + l)
       /\ u + l = AddrSpace => u = c
  BY <1>5, <1>13, <1>14 DEF Piece, Inside, u, l, c, s, m
<1>16. y + PageSize <= u + l
  <2> SUFFICES ASSUME ~ (y + PageSize <= u + l) PROVE FALSE
    OBVIOUS
  <2>1. u + l # c + s
    BY <1>8
  <2>2. PICK q \in 1..Len(InUse) : u + l \in {InUse[q].addr, InUse[q].addr + InUse[q].len}
    BY <1>15, <2>1 DEF Edge
  <2> DEFINE a == InUse[q].addr
             b == InUse[q].len
  <2>3. /\ a \in Nat /\ b \in Nat /\ b > 0 /\ (y + PageSize <= a \/ a + b <= y)
        /\ u + l = a \/ u + l = a + b
    BY <2>2, AllTaken DEF y
  <2> HIDE DEF a, b
  <2>4. PageSize \in Nat /\ PageSize > 0
    BY Constants
  <2> QED
    BY <1>2, <1>12, <2>3, <2>4
<1>17. u >= LowMem
  BY <1>2, <1>3, <1>7, <1>12, <1>15, Constants
<1>18. u + l < AddrSpace \/ u % PageSize = 0
  <2>1. CASE u + l = AddrSpace
    <3>1. u = c /\ ~ (c + d < AddrSpace)
      BY <1>3, <1>5, <1>12, <1>15, <2>1, Constants
    <3> QED
      BY <1>6, <3>1
  <2>2. CASE u + l # AddrSpace
    BY <1>12, <2>2, Constants
  <2> QED
    BY <2>1, <2>2
<1>19. i \in Valid /\ FirstPage(i) <= x /\ x < FirstPage(i) + EntryPages(i)
  BY <1>1, <1>11, <1>12, <1>16, <1>17, <1>18, HoldsAPage DEF u, l, y
<1> QED
  BY <1>19

\* ...and a page of a valid entry is free.
LEMMA ValidIsFree ==
  ASSUME LocationInv, MapInv, pc = "pfa", NEW i \in Valid, NEW x \in Nat,
         FirstPage(i) <= x, x < FirstPage(i) + EntryPages(i)
  PROVE  /\ LowMem <= AddrOf(x) /\ AddrOf(x) + PageSize <= AddrSpace
         /\ \A k \in 1..Len(InUse) :
              \/ AddrOf(x) + PageSize <= InUse[k].addr
              \/ InUse[k].addr + InUse[k].len <= AddrOf(x)
         /\ \E j \in 1..Len(boot.mmap) :
              /\ boot.mmap[j].type = AVAILABLE
              /\ boot.mmap[j].addr <= AddrOf(x)
              /\ AddrOf(x) + PageSize <= boot.mmap[j].addr + boot.mmap[j].len
         /\ pmm[i].addr <= AddrOf(x)
         /\ AddrOf(x) + PageSize <= pmm[i].addr + pmm[i].len
<1> DEFINE y == AddrOf(x)
           u == pmm[i].addr
           l == pmm[i].len
           f == FirstPage(i)
           n == EntryPages(i)
<1>1. /\ MapOK(pmm) /\ Pieces(pmm) /\ BytesInv(pmm) /\ boot \in Machines
      /\ pmm \in Seq(MmapEntries)
  BY DEF MapInv, LocationInv, BootInv, MapOK
<1>2. /\ i \in 1..Len(pmm) /\ pmm[i].type = AVAILABLE /\ u >= LowMem
      /\ f \in Nat /\ n \in Nat /\ u <= AddrOf(f) /\ AddrOf(f + n) <= u + l
  BY <1>1, ValidFacts
<1>3. u \in Nat /\ l \in Nat /\ u + l <= AddrSpace
  BY <1>1, <1>2, EntryOf DEF MapOK
<1>4. f <= x /\ x < f + n
  OBVIOUS
<1> HIDE DEF f, n
<1>5. AddrOf(f) <= y /\ y + PageSize <= AddrOf(f + n) /\ y \in Nat /\ AddrOf(f) \in Nat
      /\ AddrOf(f + n) \in Nat
  <2>1. f + n \in Nat
    BY <1>2
  <2> QED
    BY <1>2, <1>4, <2>1, Pages
<1>6. u <= y /\ y + PageSize <= u + l
  <2> DEFINE v == AddrOf(f)
             w == AddrOf(f + n)
  <2>1. /\ v \in Nat /\ w \in Nat /\ y \in Nat /\ v <= y /\ y + PageSize <= w
        /\ u <= v /\ w <= u + l
    BY <1>2, <1>5
  <2> HIDE DEF v, w, y, u, l
  <2> QED
    BY <1>3, <2>1, Constants
<1> HIDE DEF y, u, l
<1>7. y \in Nat /\ LowMem <= y /\ y + PageSize <= AddrSpace
  BY <1>2, <1>3, <1>5, <1>6, Constants
<1>8. ASSUME NEW k \in 1..Len(InUse)
      PROVE  y + PageSize <= InUse[k].addr \/ InUse[k].addr + InUse[k].len <= y
  <2> DEFINE a == InUse[k].addr
             b == InUse[k].len
  <2> SUFFICES ASSUME ~ (y + PageSize <= a), ~ (a + b <= y) PROVE FALSE
    OBVIOUS
  <2>1. a \in Nat /\ b \in Nat /\ b > 0 /\ a + b < AddrSpace
    BY AllTaken
  <2> HIDE DEF a, b
  <2> DEFINE z == IF y < a THEN a ELSE y
  <2>2. /\ z \in Nat /\ u <= z /\ z < u + l /\ z \in 0..(AddrSpace - 1)
        /\ z \in a..(a + b - 1)
    BY <1>3, <1>6, <1>7, <2>1, Constants
  <2> HIDE DEF z
  <2>3. HasByte(pmm, AVAILABLE, z)
    BY <1>2, <2>2 DEF HasByte, Covers, u, l
  <2>4. z \notin Taken
    BY <1>1, <2>2, <2>3 DEF BytesInv
  <2>5. z \in Bytes(InUse[k])
    BY <2>2 DEF Bytes, a, b
  <2> QED
    BY <2>4, <2>5, AllTaken
<1>9. \E j \in 1..Len(boot.mmap) :
        /\ boot.mmap[j].type = AVAILABLE
        /\ boot.mmap[j].addr <= y /\ y + PageSize <= boot.mmap[j].addr + boot.mmap[j].len
  <2>1. PICK j \in 1..Len(boot.mmap) : Piece(pmm[i], boot.mmap[j])
    BY <1>1, <1>2 DEF Pieces
  <2> DEFINE m == boot.mmap[j]
             c == m.addr
             d == m.len
             s == Shrunk(m).len
  <2>2. m.addr < AddrSpace /\ m.type = AVAILABLE
    BY <1>2, <2>1 DEF Piece
  <2>3. c \in Nat /\ d \in Nat /\ s \in Nat /\ s <= d /\ Shrunk(m).addr = c
    BY <2>2, BootEntry
  <2>4. c <= u /\ u + l <= c + s
    BY <2>1, <2>3 DEF Piece, Inside, u, l
  <2> HIDE DEF m, c, d, s
  <2>5. c <= y /\ y + PageSize <= c + d
    BY <1>3, <1>6, <1>7, <2>3, <2>4, Constants
  <2> QED
    BY <2>2, <2>5 DEF c, d, m
<1> QED
  BY <1>6, <1>7, <1>8, <1>9 DEF y, u, l

LEMMA FreePagesAre ==
  ASSUME LocationInv, MapInv, pc = "pfa", NEW x
  PROVE  x \in FreePages <=>
           \E i \in Valid : x \in FirstPage(i)..(FirstPage(i) + EntryPages(i) - 1)
<1> DEFINE lo == LowMem \div PageSize
           hi == AddrSpace \div PageSize
<1>1. lo \in Nat /\ hi \in Nat /\ LowMem = AddrOf(lo) /\ AddrSpace = AddrOf(hi)
  BY Constants, PageNumber
<1>2. boot \in Machines /\ DOMAIN boot.mmap = 1..Len(boot.mmap)
  BY MachineTypes, LenProperties DEF LocationInv, BootInv
<1>3. DOMAIN InUse = 1..Len(InUse)
  BY LenProperties DEF InUse
<1>4. MapOK(pmm)
  BY DEF MapInv
<1>5. ASSUME x \in FreePages
      PROVE  \E i \in Valid : x \in FirstPage(i)..(FirstPage(i) + EntryPages(i) - 1)
  <2>1. PICK j \in 1..Len(boot.mmap) : x \in FreePagesOf(boot.mmap[j])
    BY <1>2, <1>5 DEF FreePages
  <2>2. /\ x \in lo..(hi - 1) /\ boot.mmap[j].type = AVAILABLE
        /\ Inside(PageArea(x), boot.mmap[j]) /\ ApartFromAll(PageArea(x), InUse)
    BY <2>1 DEF FreePagesOf
  <2> HIDE DEF lo, hi
  <2>3. x \in Nat /\ lo <= x /\ x < hi
    BY <1>1, <2>2
  <2>4. LowMem <= AddrOf(x) /\ AddrOf(x) + PageSize <= AddrSpace
    BY <1>1, <2>3, Pages
  <2>5. /\ boot.mmap[j].addr <= AddrOf(x)
        /\ AddrOf(x) + PageSize <= boot.mmap[j].addr + boot.mmap[j].len
    BY <2>2, <2>3, PageAreaIs DEF Inside
  <2>6. \A k \in 1..Len(InUse) :
           \/ AddrOf(x) + PageSize <= InUse[k].addr
           \/ InUse[k].addr + InUse[k].len <= AddrOf(x)
    BY <1>3, <2>2, <2>3, PageAreaIs DEF ApartFromAll, Apart
  <2>7. PICK i \in Valid : FirstPage(i) <= x /\ x < FirstPage(i) + EntryPages(i)
    BY <2>2, <2>3, <2>4, <2>5, <2>6, FreeIsValid
  <2> DEFINE f == FirstPage(i)
             n == EntryPages(i)
  <2>8. f \in Nat /\ n \in Nat /\ f <= x /\ x < f + n
    BY <1>4, <2>7, ValidFacts
  <2> HIDE DEF f, n
  <2>9. x \in f..(f + n - 1)
    BY <2>3, <2>8
  <2> QED
    BY <2>9 DEF f, n
<1>6. ASSUME NEW i \in Valid, x \in FirstPage(i)..(FirstPage(i) + EntryPages(i) - 1)
      PROVE  x \in FreePages
  <2> DEFINE f == FirstPage(i)
             n == EntryPages(i)
  <2>1. f \in Nat /\ n \in Nat /\ x \in f..(f + n - 1)
    BY <1>4, <1>6, ValidFacts
  <2> HIDE DEF f, n
  <2>2. x \in Nat /\ f <= x /\ x < f + n
    BY <2>1
  <2>3. /\ LowMem <= AddrOf(x) /\ AddrOf(x) + PageSize <= AddrSpace
        /\ \A k \in 1..Len(InUse) :
             \/ AddrOf(x) + PageSize <= InUse[k].addr
             \/ InUse[k].addr + InUse[k].len <= AddrOf(x)
        /\ \E j \in 1..Len(boot.mmap) :
             /\ boot.mmap[j].type = AVAILABLE
             /\ boot.mmap[j].addr <= AddrOf(x)
             /\ AddrOf(x) + PageSize <= boot.mmap[j].addr + boot.mmap[j].len
    BY <2>2, ValidIsFree DEF f, n
  <2>4. x \in lo..(hi - 1)
    <3> HIDE DEF lo, hi
    <3>1. lo <= x
      BY <1>1, <2>2, <2>3, Pages
    <3>2. x < hi
      <4> DEFINE a == AddrOf(x)
                 b == AddrOf(hi)
      <4>1. a \in Nat /\ b \in Nat /\ a + PageSize <= b
        BY <1>1, <2>2, <2>3, Pages
      <4> HIDE DEF a, b
      <4>2. a < b
        BY <4>1, Constants
      <4> QED
        BY <1>1, <2>2, <4>2, Pages DEF a, b
    <3> QED
      BY <1>1, <2>2, <3>1, <3>2
  <2>5. ApartFromAll(PageArea(x), InUse)
    BY <1>3, <2>2, <2>3, PageAreaIs DEF ApartFromAll, Apart
  <2>6. PICK j \in 1..Len(boot.mmap) :
             /\ boot.mmap[j].type = AVAILABLE
             /\ boot.mmap[j].addr <= AddrOf(x)
             /\ AddrOf(x) + PageSize <= boot.mmap[j].addr + boot.mmap[j].len
    BY <2>3
  <2>7. Inside(PageArea(x), boot.mmap[j])
    BY <2>2, <2>6, PageAreaIs DEF Inside
  <2>8. x \in FreePagesOf(boot.mmap[j])
    BY <2>4, <2>5, <2>6, <2>7 DEF FreePagesOf
  <2> QED
    BY <1>2, <2>8 DEF FreePages
<1> QED
  BY <1>5, <1>6

-----------------------------------------------------------------------------
(* The loops of pfa_init() *)

Regions == [first_page : Nat, nb_pages : Nat, end : Nat]

\* The first page of the region of entry i, by number.
RegionFirst(i, host, z) == FirstPage(i) + (IF i = host THEN z \div PageSize ELSE 0)

LEMMA RegionFacts ==
  ASSUME MapOK(pmm), NEW z \in Nat, z % PageSize = 0, NEW h \in Hosts(z), NEW i \in Valid
  PROVE  /\ RegionOf(i, h, z).nb_pages \in Nat
         /\ RegionOf(i, h, z).nb_pages <= EntryPages(i)
         /\ RegionFirst(i, h, z) \in Nat
         /\ RegionOf(i, h, z).first_page = AddrOf(RegionFirst(i, h, z))
         /\ RegionFirst(i, h, z) + RegionOf(i, h, z).nb_pages
              = FirstPage(i) + EntryPages(i)
<1> DEFINE f == FirstPage(i)
           n == EntryPages(i)
           q == z \div PageSize
           p == page_align(pmm[i].addr)
           meta == IF i = h THEN z ELSE 0
           k == IF i = h THEN q ELSE 0
<1>1. f \in Nat /\ n \in Nat /\ p = AddrOf(f)
  BY ValidFacts
<1>2. q \in Nat /\ z = AddrOf(q)
  BY PageNumber
<1>3. /\ RegionOf(i, h, z).first_page = p + meta
      /\ RegionOf(i, h, z).nb_pages = n - meta \div PageSize
      /\ RegionFirst(i, h, z) = f + k
  BY DEF RegionOf, RegionFirst
<1>4. meta \div PageSize = k /\ meta = AddrOf(k) /\ k \in Nat
  <2>1. CASE i = h
    BY <1>2, <2>1
  <2>2. CASE i # h
    <3>1. AddrOf(0) = 0 /\ AddrOf(0) \div PageSize = 0
      BY Pages, AddrOfPage
    <3> QED
      BY <2>2, <3>1
  <2> QED
    BY <2>1, <2>2
<1>5. k <= n
  <2>1. CASE i = h
    <3> DEFINE L == AlignedLen(pmm[i])
    <3>1. L >= z /\ L \in Nat /\ n = L \div PageSize
      BY <2>1, ValidFacts DEF Hosts, EntryPages
    <3> HIDE DEF L
    <3>2. 0 + z <= L
      BY <3>1
    <3>3. 0 \div PageSize + z \div PageSize <= L \div PageSize
      BY <3>1, <3>2, DivSum
    <3>4. 0 \div PageSize = 0
      BY Constants
    <3> HIDE DEF q, n
    <3>5. q <= n
      BY <1>1, <1>2, <3>1, <3>3, <3>4 DEF q
    <3> QED
      BY <2>1, <3>5
  <2>2. CASE i # h
    BY <1>1, <2>2
  <2> QED
    BY <2>1, <2>2
<1> HIDE DEF f, n, q, p, meta, k
<1>6. f + k \in Nat /\ n - k \in Nat /\ n - k <= n /\ (f + k) + (n - k) = f + n
  BY <1>1, <1>4, <1>5
<1>7. AddrOf(f + k) = AddrOf(f) + AddrOf(k)
  BY <1>1, <1>4, Pages
<1> QED
  BY <1>1, <1>3, <1>4, <1>6, <1>7 DEF f, n

\* What the loops compute, for the first i entries of the map.
IsMetaBytes(g) ==
  /\ g \in [0..Len(pmm) -> Nat]
  /\ g[0] = Sizeof.pfa
  /\ \A i \in 1..Len(pmm) :
       g[i] = IF i \in Valid THEN g[i - 1] + Sizeof.ptr + Sizeof.region + EntryPages(i)
              ELSE g[i - 1]

IsFirstRegion(g) ==
  /\ g \in [0..Len(pmm) -> Nat]
  /\ g[0] = Sizeof.pfa
  /\ \A i \in 1..Len(pmm) :
       g[i] = IF i \in Valid THEN g[i - 1] + Sizeof.ptr ELSE g[i - 1]

IsRegions(g, host, z) ==
  /\ g \in [0..Len(pmm) -> [regions : Seq(Regions), new_region : Nat]]
  /\ g[0] = [regions |-> <<>>, new_region |-> FirstRegion]
  /\ \A i \in 1..Len(pmm) :
       g[i] = IF i \in Valid THEN AddRegion(g[i - 1], i, host, z) ELSE g[i - 1]

LEMMA MetaBytesIs ==
  ASSUME MapOK(pmm)
  PROVE  \E g : IsMetaBytes(g) /\ MetaBytes = g[Len(pmm)]
<1> DEFINE n == Len(pmm)
           T == Nat
           Add(i, q) == IF is_valid_region(pmm[i])
                          THEN q + Sizeof.ptr + Sizeof.region + EntryPages(i) ELSE q
           step == [x \in (1..n) \X T |-> Add(x[1], x[2])]
           base == Sizeof.pfa
           after == CHOOSE f : f = [i \in 0..n |->
                      IF i = 0 THEN Sizeof.pfa ELSE
                      IF is_valid_region(pmm[i])
                        THEN f[i - 1] + Sizeof.ptr + Sizeof.region + EntryPages(i)
                        ELSE f[i - 1]]
<1>1. n \in Nat /\ DOMAIN pmm = 1..n
  BY LenProperties DEF MapOK
<1>2. \A i \in 1..n : is_valid_region(pmm[i]) <=> i \in Valid
  BY <1>1 DEF Valid
<1>3. ASSUME NEW i \in 1..n, NEW q \in T PROVE Add(i, q) \in T
  <2>1. is_valid_region(pmm[i]) => EntryPages(i) \in Nat
    BY <1>2, ValidFacts
  <2> DEFINE e == EntryPages(i)
             v == Sizeof.ptr
             w == Sizeof.region
  <2>2. v \in Nat /\ w \in Nat /\ (is_valid_region(pmm[i]) => e \in Nat)
    BY <2>1, Constants
  <2> HIDE DEF e, v, w
  <2>3. is_valid_region(pmm[i]) => q + v + w + e \in Nat
    BY <2>2
  <2> QED
    BY <2>3 DEF e, v, w
<1>4. step \in [(1..n) \X T -> T] /\ base \in T
  <2> HIDE DEF Add
  <2> QED
    BY <1>3, Constants
<1>5. PICK f : IsRecursion(f, T, n, base, step)
  <2> HIDE DEF T, Add, base, step, n
  <2> QED
    BY <1>1, <1>4, RecursionExists
<1>6. \A i \in 1..n : f[i] = Add(i, f[i - 1])
  <2> TAKE i \in 1..n
  <2> HIDE DEF T, Add
  <2>1. i - 1 \in 0..n
    BY <1>1
  <2>2. f[i - 1] \in T
    BY <1>5, <2>1 DEF IsRecursion
  <2>3. <<i, f[i - 1]>> \in (1..n) \X T
    BY <2>2
  <2>4. step[<<i, f[i - 1]>>] = Add(i, f[i - 1])
    BY <2>3
  <2> HIDE DEF step
  <2> QED
    BY <1>5, <2>4 DEF IsRecursion
<1>7. f[0] = Sizeof.pfa /\ f \in [0..n -> Nat]
  <2> HIDE DEF step
  <2> QED
    BY <1>5 DEF IsRecursion
<1> HIDE DEF step
<1>8. f = [i \in 0..n |-> IF i = 0 THEN Sizeof.pfa ELSE Add(i, f[i - 1])]
  <2>1. \A i \in 0..n : i # 0 => i \in 1..n
    BY <1>1
  <2> HIDE DEF Add
  <2> QED
    BY <1>6, <1>7, <2>1
<1>9. after = [i \in 0..n |-> IF i = 0 THEN Sizeof.pfa ELSE Add(i, after[i - 1])]
  BY <1>8
<1>10. MetaBytes = after[n]
  BY DEF MetaBytes
<1> HIDE DEF after
<1>11. after[0] = Sizeof.pfa /\ \A i \in 1..n : after[i] = Add(i, after[i - 1])
  <2> HIDE DEF Add
  <2> QED
    BY <1>1, <1>9
<1> DEFINE H == {i \in Nat : i <= n => after[i] = f[i]}
<1>12. 0 \in H
  BY <1>7, <1>11
<1>13. ASSUME NEW i \in Nat, i \in H PROVE i + 1 \in H
  <2>1. ASSUME i + 1 <= n PROVE after[i + 1] = f[i + 1]
    <3>1. i + 1 \in 1..n /\ i <= n /\ i + 1 - 1 = i
      BY <1>1, <2>1
    <3>2. after[i] = f[i]
      BY <1>13, <3>1
    <3>3. after[i + 1] = Add(i + 1, after[i]) /\ f[i + 1] = Add(i + 1, f[i])
      <4> HIDE DEF Add, H
      <4> QED
        BY <1>6, <1>11, <3>1
    <3> HIDE DEF Add
    <3> QED
      BY <3>2, <3>3
  <2> QED
    BY <2>1
<1> HIDE DEF H
<1>14. \A i \in Nat : i \in H
  BY <1>12, <1>13, Induction
<1>15. after[n] = f[n]
  BY <1>1, <1>14 DEF H
<1>16. IsMetaBytes(f)
  BY <1>2, <1>6, <1>7 DEF IsMetaBytes
<1> QED
  BY <1>10, <1>15, <1>16

LEMMA FirstRegionIs ==
  ASSUME MapOK(pmm)
  PROVE  \E g : IsFirstRegion(g) /\ FirstRegion = g[Len(pmm)]
<1> DEFINE n == Len(pmm)
           T == Nat
           Add(i, q) == IF is_valid_region(pmm[i])
                          THEN q + Sizeof.ptr ELSE q
           step == [x \in (1..n) \X T |-> Add(x[1], x[2])]
           base == Sizeof.pfa
           after == CHOOSE f : f = [i \in 0..n |->
                      IF i = 0 THEN Sizeof.pfa ELSE
                      IF is_valid_region(pmm[i])
                        THEN f[i - 1] + Sizeof.ptr
                        ELSE f[i - 1]]
<1>1. n \in Nat /\ DOMAIN pmm = 1..n
  BY LenProperties DEF MapOK
<1>2. \A i \in 1..n : is_valid_region(pmm[i]) <=> i \in Valid
  BY <1>1 DEF Valid
<1>3. ASSUME NEW i \in 1..n, NEW q \in T PROVE Add(i, q) \in T
  <2>1. q + Sizeof.ptr \in Nat
    BY Constants
  <2> QED
    BY <2>1
<1>4. step \in [(1..n) \X T -> T] /\ base \in T
  <2> HIDE DEF Add
  <2> QED
    BY <1>3, Constants
<1>5. PICK f : IsRecursion(f, T, n, base, step)
  <2> HIDE DEF T, Add, base, step, n
  <2> QED
    BY <1>1, <1>4, RecursionExists
<1>6. \A i \in 1..n : f[i] = Add(i, f[i - 1])
  <2> TAKE i \in 1..n
  <2> HIDE DEF T, Add
  <2>1. i - 1 \in 0..n
    BY <1>1
  <2>2. f[i - 1] \in T
    BY <1>5, <2>1 DEF IsRecursion
  <2>3. <<i, f[i - 1]>> \in (1..n) \X T
    BY <2>2
  <2>4. step[<<i, f[i - 1]>>] = Add(i, f[i - 1])
    BY <2>3
  <2> HIDE DEF step
  <2> QED
    BY <1>5, <2>4 DEF IsRecursion
<1>7. f[0] = Sizeof.pfa /\ f \in [0..n -> Nat]
  <2> HIDE DEF step
  <2> QED
    BY <1>5 DEF IsRecursion
<1> HIDE DEF step
<1>8. f = [i \in 0..n |-> IF i = 0 THEN Sizeof.pfa ELSE Add(i, f[i - 1])]
  <2>1. \A i \in 0..n : i # 0 => i \in 1..n
    BY <1>1
  <2> HIDE DEF Add
  <2> QED
    BY <1>6, <1>7, <2>1
<1>9. after = [i \in 0..n |-> IF i = 0 THEN Sizeof.pfa ELSE Add(i, after[i - 1])]
  BY <1>8
<1>10. FirstRegion = after[n]
  BY DEF FirstRegion
<1> HIDE DEF after
<1>11. after[0] = Sizeof.pfa /\ \A i \in 1..n : after[i] = Add(i, after[i - 1])
  <2> HIDE DEF Add
  <2> QED
    BY <1>1, <1>9
<1> DEFINE H == {i \in Nat : i <= n => after[i] = f[i]}
<1>12. 0 \in H
  BY <1>7, <1>11
<1>13. ASSUME NEW i \in Nat, i \in H PROVE i + 1 \in H
  <2>1. ASSUME i + 1 <= n PROVE after[i + 1] = f[i + 1]
    <3>1. i + 1 \in 1..n /\ i <= n /\ i + 1 - 1 = i
      BY <1>1, <2>1
    <3>2. after[i] = f[i]
      BY <1>13, <3>1
    <3>3. after[i + 1] = Add(i + 1, after[i]) /\ f[i + 1] = Add(i + 1, f[i])
      <4> HIDE DEF Add, H
      <4> QED
        BY <1>6, <1>11, <3>1
    <3> HIDE DEF Add
    <3> QED
      BY <3>2, <3>3
  <2> QED
    BY <2>1
<1> HIDE DEF H
<1>14. \A i \in Nat : i \in H
  BY <1>12, <1>13, Induction
<1>15. after[n] = f[n]
  BY <1>1, <1>14 DEF H
<1>16. IsFirstRegion(f)
  BY <1>2, <1>6, <1>7 DEF IsFirstRegion
<1> QED
  BY <1>10, <1>15, <1>16

LEMMA RegionsAre ==
  ASSUME MapOK(pmm), NEW z \in Nat, z % PageSize = 0, NEW h \in Hosts(z)
  PROVE  \E g : IsRegions(g, h, z) /\ reserve_regions(h, z) = g[Len(pmm)].regions
<1> DEFINE n == Len(pmm)
           T == [regions : Seq(Regions), new_region : Nat]
           Add(i, q) == IF is_valid_region(pmm[i])
                          THEN AddRegion(q, i, h, z) ELSE q
           step == [x \in (1..n) \X T |-> Add(x[1], x[2])]
           base == [regions |-> <<>>, new_region |-> FirstRegion]
           after == CHOOSE f : f = [i \in 0..n |->
                      IF i = 0 THEN [regions |-> <<>>, new_region |-> FirstRegion] ELSE
                      IF is_valid_region(pmm[i])
                        THEN AddRegion(f[i - 1], i, h, z)
                        ELSE f[i - 1]]
<1>1. n \in Nat /\ DOMAIN pmm = 1..n
  BY LenProperties DEF MapOK
<1>2. \A i \in 1..n : is_valid_region(pmm[i]) <=> i \in Valid
  BY <1>1 DEF Valid
<1>3. ASSUME NEW i \in 1..n, NEW q \in T PROVE Add(i, q) \in T
  <2>1. CASE is_valid_region(pmm[i])
    <3> DEFINE o == RegionOf(i, h, z)
               k == o.nb_pages
               end == q.new_region + Sizeof.region + k
               e == [first_page |-> o.first_page, nb_pages |-> k, end |-> end]
    <3>1. k \in Nat /\ RegionFirst(i, h, z) \in Nat
          /\ o.first_page = AddrOf(RegionFirst(i, h, z))
      BY <1>2, <2>1, RegionFacts
    <3>2. o.first_page \in Nat
      BY <3>1, Pages
    <3>3. AddRegion(q, i, h, z) = [regions |-> Append(q.regions, e), new_region |-> end]
      BY DEF AddRegion
    <3>4. end \in Nat
      <4> DEFINE v == q.new_region
                 w == Sizeof.region
      <4>1. v \in Nat /\ w \in Nat
        BY Constants
      <4> HIDE DEF k, v, w
      <4>2. v + w + k \in Nat
        BY <3>1, <4>1
      <4> QED
        BY <4>2 DEF v, w
    <3> HIDE DEF o, k, end
    <3>5. e \in Regions
      BY <3>1, <3>2, <3>4 DEF Regions
    <3> HIDE DEF e
    <3>6. Append(q.regions, e) \in Seq(Regions)
      BY <3>5, AppendProperties
    <3> QED
      BY <2>1, <3>3, <3>4, <3>6
  <2>2. CASE ~is_valid_region(pmm[i])
    BY <2>2
  <2> QED
    BY <2>1, <2>2
<1>4. step \in [(1..n) \X T -> T] /\ base \in T
  <2>1. FirstRegion \in Nat
    <3>1. PICK g : IsFirstRegion(g) /\ FirstRegion = g[n]
      BY FirstRegionIs
    <3> QED
      BY <1>1, <3>1 DEF IsFirstRegion
  <2>2. base \in T
    BY <2>1
  <2> HIDE DEF Add, T, base
  <2> QED
    BY <1>3, <2>2
<1>5. PICK f : IsRecursion(f, T, n, base, step)
  <2> HIDE DEF T, Add, base, step, n
  <2> QED
    BY <1>1, <1>4, RecursionExists
<1>6. \A i \in 1..n : f[i] = Add(i, f[i - 1])
  <2> TAKE i \in 1..n
  <2> HIDE DEF T, Add
  <2>1. i - 1 \in 0..n
    BY <1>1
  <2>2. f[i - 1] \in T
    BY <1>5, <2>1 DEF IsRecursion
  <2>3. <<i, f[i - 1]>> \in (1..n) \X T
    BY <2>2
  <2>4. step[<<i, f[i - 1]>>] = Add(i, f[i - 1])
    BY <2>3
  <2> HIDE DEF step
  <2> QED
    BY <1>5, <2>4 DEF IsRecursion
<1>7. f[0] = base /\ f \in [0..n -> T]
  <2> HIDE DEF step
  <2> QED
    BY <1>5 DEF IsRecursion
<1> HIDE DEF step
<1>8. f = [i \in 0..n |-> IF i = 0 THEN [regions |-> <<>>, new_region |-> FirstRegion] ELSE Add(i, f[i - 1])]
  <2>1. \A i \in 0..n : i # 0 => i \in 1..n
    BY <1>1
  <2> HIDE DEF Add
  <2> QED
    BY <1>6, <1>7, <2>1
<1>9. after = [i \in 0..n |-> IF i = 0 THEN [regions |-> <<>>, new_region |-> FirstRegion] ELSE Add(i, after[i - 1])]
  BY <1>8
<1>10. reserve_regions(h, z) = after[n].regions
  BY DEF reserve_regions
<1> HIDE DEF after
<1>11. after[0] = base /\ \A i \in 1..n : after[i] = Add(i, after[i - 1])
  <2> HIDE DEF Add
  <2> QED
    BY <1>1, <1>9
<1> DEFINE H == {i \in Nat : i <= n => after[i] = f[i]}
<1>12. 0 \in H
  BY <1>7, <1>11
<1>13. ASSUME NEW i \in Nat, i \in H PROVE i + 1 \in H
  <2>1. ASSUME i + 1 <= n PROVE after[i + 1] = f[i + 1]
    <3>1. i + 1 \in 1..n /\ i <= n /\ i + 1 - 1 = i
      BY <1>1, <2>1
    <3>2. after[i] = f[i]
      BY <1>13, <3>1
    <3>3. after[i + 1] = Add(i + 1, after[i]) /\ f[i + 1] = Add(i + 1, f[i])
      <4> HIDE DEF Add, H
      <4> QED
        BY <1>6, <1>11, <3>1
    <3> HIDE DEF Add
    <3> QED
      BY <3>2, <3>3
  <2> QED
    BY <2>1
<1> HIDE DEF H
<1>14. \A i \in Nat : i \in H
  BY <1>12, <1>13, Induction
<1>15. after[n] = f[n]
  BY <1>1, <1>14 DEF H
<1>16. IsRegions(f, h, z)
  BY <1>2, <1>6, <1>7 DEF IsRegions
<1> QED
  BY <1>10, <1>15, <1>16

-----------------------------------------------------------------------------
(* The metadata *)

\* Where the first i entries of the map end.
EndOf(i) == IF i = 0 THEN 0 ELSE pmm[i].addr + pmm[i].len

LEMMA EndsRise ==
  ASSUME MapOK(pmm), NEW i \in 1..Len(pmm)
  PROVE  /\ EndOf(i - 1) \in Nat /\ EndOf(i) \in Nat /\ EndOf(i) <= AddrSpace
         /\ EndOf(i) = pmm[i].addr + pmm[i].len
         /\ EndOf(i - 1) <= pmm[i].addr /\ EndOf(i - 1) <= EndOf(i)
<1> DEFINE u == pmm[i].addr
           l == pmm[i].len
<1>1. pmm \in Seq(MmapEntries) /\ Len(pmm) \in Nat
  BY LenProperties DEF MapOK
<1>2. u \in Nat /\ l \in Nat /\ u + l <= AddrSpace
  BY <1>1, EntryOf DEF MapOK
<1>3. EndOf(i) = u + l
  BY DEF EndOf
<1>4. CASE i = 1
  <2>1. EndOf(i - 1) = 0
    BY <1>4 DEF EndOf
  <2> HIDE DEF u, l
  <2>2. 0 <= u /\ 0 <= u + l
    BY <1>2
  <2> QED
    BY <1>2, <1>3, <2>1, <2>2 DEF u, l
<1>5. CASE i # 1
  <2> DEFINE j == i - 1
             v == pmm[j].addr
             k == pmm[j].len
  <2>1. j \in 1..Len(pmm) /\ j < i /\ j # 0
    BY <1>1, <1>5
  <2> HIDE DEF j
  <2>2. v \in Nat /\ k \in Nat /\ v + k <= u
    BY <1>1, <2>1, EntryOf DEF MapOK
  <2>3. EndOf(j) = v + k
    BY <2>1 DEF EndOf
  <2> HIDE DEF u, l, v, k
  <2>4. v + k <= u + l /\ v + k \in Nat /\ u + l \in Nat
    BY <1>2, <2>2
  <2> QED
    BY <1>2, <1>3, <2>2, <2>3, <2>4 DEF u, l, j
<1> QED
  BY <1>4, <1>5

\* The metadata of all valid regions is smaller than the bound, so that the
\* sums of pfa_meta_size() do not wrap.
LEMMA MetaFits ==
  ASSUME LocationInv, MapInv, pc = "pfa"
  PROVE  /\ MetaBytes \in Nat
         /\ pfa_meta_size \in Nat /\ pfa_meta_size % PageSize = 0
         /\ MetaBytes <= pfa_meta_size
         /\ pfa_meta_size < MetaBound(boot) + PageSize
<1>1. MapOK(pmm) /\ boot \in Machines
  BY DEF MapInv, LocationInv, BootInv
<1> DEFINE n == Len(pmm)
           G == Sizeof.ptr + Sizeof.region
           Z == Sizeof.pfa
           E(i) == EndOf(i) \div PageSize
<1>2. n \in Nat
  BY <1>1, LenProperties DEF MapOK
<1>3. PICK g : IsMetaBytes(g) /\ MetaBytes = g[n]
  BY <1>1, MetaBytesIs
<1>4. G \in Nat /\ Z \in Nat
  BY Constants
<1>5. /\ g \in [0..n -> Nat] /\ g[0] = Z
      /\ \A i \in 1..n :
           g[i] = IF i \in Valid THEN g[i - 1] + Sizeof.ptr + Sizeof.region + EntryPages(i)
                  ELSE g[i - 1]
  BY <1>3 DEF IsMetaBytes
<1> DEFINE H == {i \in Nat : i <= n => g[i] <= Z + i * G + E(i)}
<1>6. 0 \in H
  <2>1. E(0) \in Nat
    BY PageNumber DEF EndOf
  <2> DEFINE e == E(0)
  <2> HIDE DEF e, Z, G
  <2>2. Z <= Z + 0 * G + e
    BY <1>4, <2>1 DEF e
  <2> QED
    BY <1>5, <2>2 DEF e
<1>7. ASSUME NEW i \in Nat, i \in H PROVE i + 1 \in H
  <2> SUFFICES ASSUME i + 1 <= n PROVE g[i + 1] <= Z + (i + 1) * G + E(i + 1)
    OBVIOUS
  <2> DEFINE j == i + 1
             x == g[i]
             y == g[j]
             a == E(i)
             b == E(j)
  <2>1. j \in 1..n /\ i \in 0..n /\ j \in 0..n /\ j - 1 = i
    BY <1>2
  <2>2. x \in Nat /\ y \in Nat /\ x <= Z + i * G + a
    BY <1>5, <1>7, <2>1
  <2>3. /\ EndOf(i) \in Nat /\ EndOf(j) \in Nat /\ EndOf(j) = pmm[j].addr + pmm[j].len
        /\ EndOf(i) <= pmm[j].addr /\ EndOf(i) <= EndOf(j)
    BY <1>1, <2>1, EndsRise
  <2>4. a \in Nat /\ b \in Nat
    BY <2>3, PageNumber
  <2> HIDE DEF j
  <2>5. CASE j \notin Valid
    <3>1. y = x
      BY <1>5, <2>1, <2>5
    <3>2. a + 0 <= b
      <4>1. EndOf(i) + 0 <= EndOf(j) /\ 0 \div PageSize = 0
        BY <2>3, Constants
      <4> QED
        BY <2>3, <4>1, DivSum
    <3> HIDE DEF x, y, a, b, G, Z
    <3>3. (i + 1) * G = i * G + G /\ i * G \in Nat
      BY <1>4
    <3>4. y <= Z + (i + 1) * G + b
      BY <1>4, <2>2, <2>4, <3>1, <3>2, <3>3
    <3> QED
      BY <3>4 DEF y, b, j
  <2>6. CASE j \in Valid
    <3> DEFINE L == AlignedLen(pmm[j])
               m == EntryPages(j)
               f == AddrOf(FirstPage(j))
    <3>1. /\ L \in Nat /\ L = pmm[j].addr + pmm[j].len - f /\ m \in Nat /\ m = L \div PageSize
          /\ FirstPage(j) \in Nat /\ pmm[j].addr <= f
      BY <1>1, <2>6, ValidFacts DEF EntryPages
    <3>2. f \in Nat
      BY <3>1, Pages
    <3>3. EndOf(i) + L <= EndOf(j)
      <4> DEFINE s == EndOf(i)
                 t == EndOf(j)
                 u == pmm[j].addr
      <4>1. u \in Nat
        BY <1>1, <2>1, EntryOf DEF MapOK
      <4>2. s \in Nat /\ t \in Nat /\ s <= u
        BY <2>3
      <4>4. u <= f
        BY <3>1
      <4>5. L = t - f
        <5> DEFINE v == pmm[j].len
        <5>1. t = u + v /\ v \in Nat
          BY <1>1, <2>1, <2>3, EntryOf DEF MapOK
        <5>2. L = u + v - f
          BY <3>1
        <5> HIDE DEF t, L, f, u, v
        <5> QED
          BY <3>2, <4>1, <5>1, <5>2
      <4> HIDE DEF s, t, u, L, f
      <4>3. s + L <= t
        BY <3>1, <3>2, <4>1, <4>2, <4>4, <4>5
      <4> QED
        BY <4>3 DEF s, t
    <3> HIDE DEF L, m, f
    <3>4. a + m <= b
      BY <2>3, <3>1, <3>3, DivSum
    <3>5. y = x + Sizeof.ptr + Sizeof.region + m
      BY <1>5, <2>1, <2>6 DEF m
    <3>6. y = x + G + m
      <4> DEFINE v == Sizeof.ptr
                 w == Sizeof.region
      <4>1. v \in Nat /\ w \in Nat
        BY Constants
      <4>2. y = x + v + w + m
        BY <3>5
      <4> HIDE DEF x, y, v, w
      <4>3. y = x + (v + w) + m
        BY <2>2, <3>1, <4>1, <4>2
      <4> QED
        BY <4>3 DEF v, w
    <3> HIDE DEF x, y, a, b, G, Z
    <3>7. (i + 1) * G = i * G + G /\ i * G \in Nat
      BY <1>4
    <3>8. y <= Z + (i + 1) * G + b
      BY <1>4, <2>2, <2>4, <3>1, <3>4, <3>6, <3>7
    <3> QED
      BY <3>8 DEF y, b, j
  <2> QED
    BY <2>5, <2>6
<1> HIDE DEF H
<1>8. \A i \in Nat : i \in H
  BY <1>6, <1>7, Induction
<1>9. g[n] <= Z + n * G + E(n)
  BY <1>2, <1>8 DEF H
<1>10. n <= MapEntries(boot) /\ MapEntries(boot) \in Nat
  BY <1>1, ExactInv, MachineTypes DEF MapIsExact
<1>11. E(n) \in Nat /\ E(n) <= AddrSpace \div PageSize /\ AddrSpace \div PageSize \in Nat
  <2>1. EndOf(n) \in Nat /\ EndOf(n) <= AddrSpace
    <3>1. CASE n = 0
      BY <3>1, Constants DEF EndOf
    <3>2. CASE n # 0
      <4>1. n \in 1..n
        BY <1>2, <3>2
      <4> QED
        BY <1>1, <4>1, EndsRise
    <3> QED
      BY <3>1, <3>2
  <2>2. EndOf(n) + 0 <= AddrSpace /\ 0 \div PageSize = 0
    BY <2>1, Constants
  <2>3. E(n) + 0 <= AddrSpace \div PageSize
    BY <2>1, <2>2, Constants, DivSum
  <2>4. E(n) \in Nat /\ AddrSpace \div PageSize \in Nat
    BY <2>1, Constants, PageNumber
  <2> QED
    BY <2>3, <2>4
<1>12. /\ MetaBytes \in Nat /\ MetaBytes + PageSize <= AddrSpace
       /\ MetaBound(boot) \in Nat /\ MetaBytes <= MetaBound(boot)
  <2> DEFINE M == MapEntries(boot)
             e == E(n)
             t == AddrSpace \div PageSize
             x == MetaBytes
             B == MetaBound(boot)
             z == size
             c == TableBytes
             top == Top(boot)
  <2>1. x \in Nat /\ x <= Z + n * G + e
    BY <1>2, <1>3, <1>5, <1>9
  <2>2. M \in Nat /\ n <= M /\ e \in Nat /\ t \in Nat /\ e <= t
    BY <1>10, <1>11
  <2>3. B = Z + M * G + t
    BY DEF MetaBound
  <2>3a. /\ B \in Nat /\ z \in Nat /\ c \in Nat /\ top \in Nat
         /\ top = AddrSpace - (c + 3 * PageSize + z + B)
    BY SizeFacts
  <2> HIDE DEF M, e, t, x, Z, G, n, B, z, c, top
  <2>4. n * G <= M * G /\ n * G \in Nat /\ M * G \in Nat
    <3>1. PICK d \in Nat : M = n + d
      <4>1. M - n \in Nat /\ M = n + (M - n)
        BY <1>2, <2>2
      <4> QED
        BY <4>1
    <3>2. M * G = n * G + d * G /\ n * G \in Nat /\ d * G \in Nat
      BY <1>2, <1>4, <3>1
    <3> QED
      BY <3>2
  <2>5. x <= B
    BY <1>4, <2>1, <2>2, <2>3, <2>3a, <2>4
  <2>6. x + PageSize <= AddrSpace
    BY <2>1, <2>3a, <2>5, Constants
  <2> QED
    BY <2>1, <2>3a, <2>5, <2>6 DEF x, B
<1>13. /\ page_align(MetaBytes) \in Nat /\ MetaBytes <= page_align(MetaBytes)
       /\ page_align(MetaBytes) % PageSize = 0
       /\ page_align(MetaBytes) < MetaBytes + PageSize
  BY <1>12, PageAlign
<1>14. page_align(MetaBytes) < MetaBound(boot) + PageSize
  <2> DEFINE x == MetaBytes
             a == page_align(x)
             B == MetaBound(boot)
  <2>1. x \in Nat /\ B \in Nat /\ x <= B /\ a \in Nat /\ a < x + PageSize
    BY <1>12, <1>13
  <2> HIDE DEF x, a, B
  <2>2. a < B + PageSize
    BY <2>1, Constants
  <2> QED
    BY <2>2 DEF a, B, x
<1> QED
  BY <1>12, <1>13, <1>14 DEF pfa_meta_size

-----------------------------------------------------------------------------
(* The regions *)

\* Region r is the one of entry e.
Matches(r, e, host, z) ==
  /\ r.first_page = RegionOf(e, host, z).first_page
  /\ r.nb_pages = RegionOf(e, host, z).nb_pages

\* The regions of the valid ones of the first i entries, in order.
HasRegions(rs, i, host, z) ==
  /\ rs \in Seq(Regions)
  /\ \A k \in 1..Len(rs) : \E e \in Valid : e <= i /\ Matches(rs[k], e, host, z)
  /\ \A e \in Valid : e <= i => \E k \in 1..Len(rs) : Matches(rs[k], e, host, z)
  /\ \A k, l \in 1..Len(rs) :
       k < l => \E d, e \in Valid :
                  d < e /\ Matches(rs[k], d, host, z) /\ Matches(rs[l], e, host, z)

LEMMA RegionAdded ==
  ASSUME MapOK(pmm), NEW h, NEW z, NEW i \in Valid, NEW rs, HasRegions(rs, i - 1, h, z),
         NEW r \in Regions, Matches(r, i, h, z)
  PROVE  HasRegions(Append(rs, r), i, h, z)
<1> DEFINE n == Len(rs)
           qs == Append(rs, r)
<1>1. /\ rs \in Seq(Regions)
      /\ \A k \in 1..n : \E e \in Valid : e <= i - 1 /\ Matches(rs[k], e, h, z)
      /\ \A e \in Valid : e <= i - 1 => \E k \in 1..n : Matches(rs[k], e, h, z)
      /\ \A k, l \in 1..n :
           k < l => \E d, e \in Valid : d < e /\ Matches(rs[k], d, h, z) /\ Matches(rs[l], e, h, z)
  BY DEF HasRegions
<1>2. n \in Nat
  BY <1>1, LenProperties
<1>3. /\ qs \in Seq(Regions) /\ Len(qs) = n + 1 /\ qs[n + 1] = r
      /\ \A k \in 1..n : qs[k] = rs[k]
  BY <1>1, AppendProperties
<1>4. Valid \subseteq Nat
  <2>1. DOMAIN pmm \subseteq Nat
    BY LenProperties DEF MapOK
  <2> QED
    BY <2>1 DEF Valid
<1> HIDE DEF n, qs
<1>5. ASSUME NEW k \in 1..(n + 1) PROVE k \in 1..n \/ k = n + 1
  BY <1>2
<1>6. \A k \in 1..n : k \in 1..(n + 1) /\ n + 1 \in 1..(n + 1)
  BY <1>2
<1>7. ASSUME NEW k \in 1..(n + 1) PROVE \E e \in Valid : e <= i /\ Matches(qs[k], e, h, z)
  <2>1. CASE k \in 1..n
    <3>1. PICK e \in Valid : e <= i - 1 /\ Matches(rs[k], e, h, z)
      BY <1>1, <2>1
    <3>2. e <= i
      BY <1>4, <3>1
    <3> QED
      BY <1>3, <2>1, <3>1, <3>2
  <2>2. CASE k = n + 1
    <3>1. i <= i
      BY <1>4
    <3> QED
      BY <1>3, <2>2, <3>1
  <2> QED
    BY <1>5, <2>1, <2>2
<1>8. ASSUME NEW e \in Valid, e <= i PROVE \E k \in 1..(n + 1) : Matches(qs[k], e, h, z)
  <2>1. CASE e <= i - 1
    <3>1. PICK k \in 1..n : Matches(rs[k], e, h, z)
      BY <1>1, <2>1
    <3> QED
      BY <1>3, <1>6, <3>1
  <2>2. CASE ~ (e <= i - 1)
    <3>1. e = i
      BY <1>4, <1>8, <2>2
    <3>2. n + 1 \in 1..(n + 1)
      BY <1>2
    <3> QED
      BY <1>3, <3>1, <3>2
  <2> QED
    BY <2>1, <2>2
<1>9. ASSUME NEW k \in 1..(n + 1), NEW l \in 1..(n + 1), k < l
      PROVE  \E d, e \in Valid : d < e /\ Matches(qs[k], d, h, z) /\ Matches(qs[l], e, h, z)
  <2>1. k \in 1..n
    BY <1>2, <1>9
  <2>2. CASE l \in 1..n
    BY <1>1, <1>3, <1>9, <2>1, <2>2
  <2>3. CASE l = n + 1
    <3>1. PICK d \in Valid : d <= i - 1 /\ Matches(rs[k], d, h, z)
      BY <1>1, <2>1
    <3>2. d < i
      BY <1>4, <3>1
    <3> QED
      BY <1>3, <2>1, <2>3, <3>1, <3>2
  <2> QED
    BY <1>5, <2>2, <2>3
<1> QED
  BY <1>3, <1>7, <1>8, <1>9 DEF HasRegions, qs

LEMMA NoRegionAdded ==
  ASSUME MapOK(pmm), NEW h, NEW z, NEW i \in 1..Len(pmm), i \notin Valid,
         NEW rs, HasRegions(rs, i - 1, h, z)
  PROVE  HasRegions(rs, i, h, z)
<1>1. Valid \subseteq Nat /\ Len(pmm) \in Nat
  <2>1. DOMAIN pmm \subseteq Nat /\ Len(pmm) \in Nat
    BY LenProperties DEF MapOK
  <2> QED
    BY <2>1 DEF Valid
<1>2. \A e \in Valid : e <= i - 1 <=> e <= i
  <2> TAKE e \in Valid
  <2>1. e \in Nat /\ i \in Nat /\ e # i
    BY <1>1
  <2> QED
    BY <2>1
<1> QED
  BY <1>2 DEF HasRegions

LEMMA NoRegions ==
  ASSUME MapOK(pmm), NEW h, NEW z
  PROVE  HasRegions(<<>>, 0, h, z)
<1>1. DOMAIN pmm = 1..Len(pmm) /\ Len(pmm) \in Nat
  BY LenProperties DEF MapOK
<1>2. \A e \in Valid : ~ (e <= 0)
  BY <1>1 DEF Valid
<1>3. <<>> \in Seq(Regions) /\ Len(<<>>) = 0
  OBVIOUS
<1>4. \A k \in 1..Len(<<>>) : FALSE
  BY <1>3
<1> QED
  BY <1>2, <1>3, <1>4 DEF HasRegions

\* What reserve_regions() returns, for every entry of the map.
LEMMA RegionsOf ==
  ASSUME MapOK(pmm), NEW z \in Nat, z % PageSize = 0, NEW h \in Hosts(z),
         NEW g, IsRegions(g, h, z)
  PROVE  HasRegions(g[Len(pmm)].regions, Len(pmm), h, z)
<1> DEFINE n == Len(pmm)
           T == [regions : Seq(Regions), new_region : Nat]
           H == {i \in Nat : i <= n => HasRegions(g[i].regions, i, h, z)}
<1>1. n \in Nat
  BY LenProperties DEF MapOK
<1>2. /\ g \in [0..n -> T] /\ g[0] = [regions |-> <<>>, new_region |-> FirstRegion]
      /\ \A i \in 1..n : g[i] = IF i \in Valid THEN AddRegion(g[i - 1], i, h, z) ELSE g[i - 1]
  BY DEF IsRegions
<1>3. 0 \in H
  <2>1. g[0].regions = <<>>
    BY <1>2
  <2>2. HasRegions(<<>>, 0, h, z)
    BY NoRegions
  <2> QED
    BY <2>1, <2>2
<1>4. ASSUME NEW i \in Nat, i \in H PROVE i + 1 \in H
  <2> SUFFICES ASSUME i + 1 <= n PROVE HasRegions(g[i + 1].regions, i + 1, h, z)
    OBVIOUS
  <2> DEFINE j == i + 1
             q == g[i]
             rs == q.regions
  <2>1. j \in 1..n /\ i \in 0..n /\ i <= n /\ j - 1 = i
    BY <1>1
  <2>2. HasRegions(rs, j - 1, h, z)
    BY <1>4, <2>1
  <2>3. q \in T
    BY <1>2, <2>1
  <2>4. g[j] = IF j \in Valid THEN AddRegion(q, j, h, z) ELSE q
    BY <1>2, <2>1
  <2> HIDE DEF H, j, q, T
  <2>5. CASE j \in Valid
    <3> DEFINE o == RegionOf(j, h, z)
               k == o.nb_pages
               end == q.new_region + Sizeof.region + k
               r == [first_page |-> o.first_page, nb_pages |-> k, end |-> end]
    <3>1. k \in Nat /\ RegionFirst(j, h, z) \in Nat
          /\ o.first_page = AddrOf(RegionFirst(j, h, z))
      BY <2>5, RegionFacts
    <3>2. o.first_page \in Nat
      BY <3>1, Pages
    <3>3. g[j].regions = Append(rs, r)
      BY <2>4, <2>5 DEF AddRegion
    <3>4. end \in Nat
      <4> DEFINE v == q.new_region
                 w == Sizeof.region
      <4>1. v \in Nat /\ w \in Nat
        BY <2>3, Constants DEF T
      <4> HIDE DEF k, v, w
      <4>2. v + w + k \in Nat
        BY <3>1, <4>1
      <4> QED
        BY <4>2 DEF v, w
    <3> HIDE DEF k, end
    <3>5. r \in Regions
      BY <3>1, <3>2, <3>4 DEF Regions
    <3>6. Matches(r, j, h, z)
      BY DEF Matches, k
    <3> HIDE DEF r, rs
    <3>7. HasRegions(Append(rs, r), j, h, z)
      BY <2>2, <2>5, <3>5, <3>6, RegionAdded
    <3> QED
      BY <3>3, <3>7 DEF j
  <2>6. CASE j \notin Valid
    <3>1. g[j].regions = rs
      BY <2>4, <2>6
    <3> HIDE DEF rs
    <3>2. HasRegions(rs, j, h, z)
      BY <2>1, <2>2, <2>6, NoRegionAdded
    <3> QED
      BY <3>1, <3>2 DEF j
  <2> QED
    BY <2>5, <2>6
<1> HIDE DEF H
<1>5. \A i \in Nat : i \in H
  BY <1>3, <1>4, Induction
<1> QED
  BY <1>1, <1>5 DEF H

\* The metadata that the loop has placed so far is no more than what
\* pfa_meta_size() counted for it.
LEMMA RegionsFit ==
  ASSUME MapOK(pmm), NEW z \in Nat, z % PageSize = 0, NEW h \in Hosts(z),
         NEW g, IsRegions(g, h, z)
  PROVE  LET rs == g[Len(pmm)].regions
         IN  \A k \in 1..Len(rs) : rs[k].end <= MetaBytes
<1> DEFINE n == Len(pmm)
           T == [regions : Seq(Regions), new_region : Nat]
           F == FirstRegion
<1>1. n \in Nat
  BY LenProperties DEF MapOK
<1>2. /\ g \in [0..n -> T] /\ g[0] = [regions |-> <<>>, new_region |-> FirstRegion]
      /\ \A i \in 1..n : g[i] = IF i \in Valid THEN AddRegion(g[i - 1], i, h, z) ELSE g[i - 1]
  BY DEF IsRegions
<1>3. PICK m : IsMetaBytes(m) /\ MetaBytes = m[n]
  BY MetaBytesIs
<1>4. PICK a : IsFirstRegion(a) /\ FirstRegion = a[n]
  BY FirstRegionIs
<1>5. /\ m \in [0..n -> Nat] /\ m[0] = Sizeof.pfa
      /\ \A i \in 1..n :
           m[i] = IF i \in Valid THEN m[i - 1] + Sizeof.ptr + Sizeof.region + EntryPages(i)
                  ELSE m[i - 1]
  BY <1>3 DEF IsMetaBytes
<1>6. /\ a \in [0..n -> Nat] /\ a[0] = Sizeof.pfa
      /\ \A i \in 1..n : a[i] = IF i \in Valid THEN a[i - 1] + Sizeof.ptr ELSE a[i - 1]
  BY <1>4 DEF IsFirstRegion
<1>7. F \in Nat /\ MetaBytes \in Nat
  BY <1>1, <1>3, <1>4, <1>5, <1>6
<1> DEFINE OK(i) == /\ \A k \in 1..Len(g[i].regions) : g[i].regions[k].end <= g[i].new_region
                    /\ g[i].new_region + a[i] <= m[i] + F
           H == {i \in Nat : i <= n => OK(i)}
<1>8. 0 \in H
  <2>1. g[0].regions = <<>> /\ g[0].new_region = F
    BY <1>2
  <2>2. \A k \in 1..Len(<<>>) : FALSE
    OBVIOUS
  <2> HIDE DEF F
  <2>3. F + Sizeof.pfa <= Sizeof.pfa + F
    BY <1>7, Constants
  <2> QED
    BY <1>5, <1>6, <2>1, <2>2, <2>3
<1>9. ASSUME NEW i \in Nat, i \in H PROVE i + 1 \in H
  <2> SUFFICES ASSUME i + 1 <= n PROVE OK(i + 1)
    OBVIOUS
  <2> DEFINE j == i + 1
             q == g[i]
             rs == q.regions
             w == q.new_region
  <2>1. j \in 1..n /\ i \in 0..n /\ i <= n /\ j - 1 = i /\ j \in 0..n
    BY <1>1
  <2>2. (\A k \in 1..Len(rs) : rs[k].end <= w) /\ w + a[i] <= m[i] + F
    BY <1>9, <2>1
  <2>3. q \in T
    BY <1>2, <2>1
  <2>4. g[j] = IF j \in Valid THEN AddRegion(q, j, h, z) ELSE q
    BY <1>2, <2>1
  <2>5. a[i] \in Nat /\ m[i] \in Nat /\ a[j] \in Nat /\ m[j] \in Nat
    BY <1>5, <1>6, <2>1
  <2>6. w \in Nat /\ rs \in Seq(Regions)
    BY <2>3
  <2> HIDE DEF H, j, q, T, F
  <2>7. CASE j \in Valid
    <3> DEFINE o == RegionOf(j, h, z)
               k == o.nb_pages
               end == w + Sizeof.region + k
               r == [first_page |-> o.first_page, nb_pages |-> k, end |-> end]
    <3>1. k \in Nat /\ RegionFirst(j, h, z) \in Nat /\ k <= EntryPages(j)
          /\ o.first_page = AddrOf(RegionFirst(j, h, z)) /\ EntryPages(j) \in Nat
      BY <2>7, RegionFacts, ValidFacts
    <3>2. o.first_page \in Nat
      BY <3>1, Pages
    <3>3. g[j].regions = Append(rs, r) /\ g[j].new_region = end
      BY <2>4, <2>7 DEF AddRegion
    <3>4. a[j] = a[i] + Sizeof.ptr
      BY <1>6, <2>1, <2>7
    <3>5. m[j] = m[i] + Sizeof.ptr + Sizeof.region + EntryPages(j)
      BY <1>5, <2>1, <2>7
    <3> DEFINE E == EntryPages(j)
               x == a[i]
               y == m[i]
               u == a[j]
               v == m[j]
               s == Sizeof.region
               p == Sizeof.ptr
    <3>6. /\ x \in Nat /\ y \in Nat /\ w + x <= y + F /\ u = x + p
          /\ v = y + p + s + E /\ E \in Nat /\ k <= E
      BY <2>2, <2>5, <3>1, <3>4, <3>5
    <3>14. end = w + s + k /\ k \in Nat /\ w \in Nat /\ s \in Nat /\ p \in Nat
      BY <2>6, <3>1, Constants
    <3> HIDE DEF k, w, E, x, y, u, v, s, p, end
    <3>7. end \in Nat /\ w <= end
      BY <3>14
    <3>8. end + u <= v + F
      BY <1>7, <3>6, <3>14
    <3>9. r \in Regions /\ r.end = end
      BY <3>1, <3>2, <3>7 DEF Regions
    <3> HIDE DEF r, rs
    <3> DEFINE qs == Append(rs, r)
               len == Len(rs)
    <3>10. /\ len \in Nat /\ Len(qs) = len + 1 /\ qs[len + 1] = r
           /\ \A l \in 1..len : qs[l] = rs[l] /\ rs[l].end \in Nat
      <4>1. \A l \in 1..len : rs[l] \in Regions
        BY <2>6, ElementOfSeq
      <4>2. \A l \in 1..len : rs[l].end \in Nat
        BY <4>1 DEF Regions
      <4> QED
        BY <2>6, <3>9, <4>2, AppendProperties, LenProperties
    <3> HIDE DEF qs, len
    <3>11. ASSUME NEW l \in 1..(len + 1) PROVE qs[l].end <= end
      <4>1. CASE l = len + 1
        BY <3>7, <3>9, <3>10, <4>1
      <4>2. CASE l # len + 1
        <5> DEFINE c == rs[l].end
        <5>1. l \in 1..len
          BY <3>10, <4>2
        <5>2. c \in Nat /\ c <= w /\ qs[l].end = c
          BY <2>2, <3>10, <5>1 DEF len
        <5> HIDE DEF c
        <5> QED
          BY <2>6, <3>7, <5>2
      <4> QED
        BY <4>1, <4>2
    <3>12. \A l \in 1..Len(g[j].regions) : g[j].regions[l].end <= g[j].new_region
      BY <3>3, <3>10, <3>11 DEF qs
    <3>13. g[j].new_region + a[j] <= m[j] + F
      BY <3>3, <3>8 DEF u, v
    <3> QED
      BY <3>12, <3>13 DEF j
  <2>8. CASE j \notin Valid
    <3>1. g[j] = q /\ a[j] = a[i] /\ m[j] = m[i]
      BY <1>5, <1>6, <2>1, <2>4, <2>8
    <3> QED
      BY <2>2, <3>1 DEF j
  <2> QED
    BY <2>7, <2>8
<1> HIDE DEF H
<1>10. \A i \in Nat : i \in H
  BY <1>8, <1>9, Induction
<1>11. OK(n)
  BY <1>1, <1>10 DEF H
<1> DEFINE rs == g[n].regions
           w == g[n].new_region
           B == MetaBytes
<1>12. w \in Nat /\ rs \in Seq(Regions)
  <2>1. n \in 0..n
    BY <1>1
  <2> QED
    BY <1>2, <2>1
<1>13. w + F <= B + F /\ \A k \in 1..Len(rs) : rs[k].end <= w
  BY <1>3, <1>4, <1>11
<1> HIDE DEF w, F, B
<1>14. w <= B /\ B \in Nat
  BY <1>7, <1>12, <1>13 DEF B
<1>15. ASSUME NEW k \in 1..Len(rs) PROVE rs[k].end <= B
  <2> DEFINE c == rs[k].end
  <2>1. rs[k] \in Regions
    BY <1>12, ElementOfSeq
  <2>2. c \in Nat /\ c <= w
    BY <1>13, <2>1 DEF Regions
  <2> HIDE DEF c
  <2>3. c <= B
    BY <1>12, <1>14, <2>2
  <2> QED
    BY <2>3 DEF c
<1> QED
  BY <1>15 DEF B

-----------------------------------------------------------------------------
(* The frames *)

LEMMA HostIs ==
  ASSUME MapOK(pmm), NEW z, Hosts(z) # {}
  PROVE  Min(Hosts(z)) \in Hosts(z)
<1> DEFINE H == Hosts(z)
<1>1. H \subseteq Nat
  <2>1. DOMAIN pmm \subseteq Nat
    BY LenProperties DEF MapOK
  <2> QED
    BY <2>1 DEF Hosts, Valid
<1> HIDE DEF H
<1>2. PICK x \in H : \A y \in H : x <= y
  BY <1>1, LeastNatural DEF H
<1>3. Min(H) \in H
  BY <1>2 DEF Min
<1> QED
  BY <1>3 DEF H

\* Page x is in entry e; in the region of entry e.
InEntry(x, e) == x \in Nat /\ FirstPage(e) <= x /\ x < FirstPage(e) + EntryPages(e)
InRegion(x, e, host, z) == InEntry(x, e) /\ RegionFirst(e, host, z) <= x

LEMMA RegionPagesAre ==
  ASSUME MapOK(pmm), NEW z \in Nat, z % PageSize = 0, NEW h \in Hosts(z), NEW e \in Valid,
         NEW r, Matches(r, e, h, z), NEW x
  PROVE  x \in RegionPages(r) <=> InRegion(x, e, h, z)
<1> DEFINE f == RegionFirst(e, h, z)
           n == RegionOf(e, h, z).nb_pages
           s == FirstPage(e)
           m == EntryPages(e)
<1>1. /\ f \in Nat /\ n \in Nat /\ RegionOf(e, h, z).first_page = AddrOf(f) /\ f + n = s + m
      /\ s \in Nat /\ m \in Nat
  BY RegionFacts, ValidFacts
<1>2. s <= f
  <2> DEFINE q == z \div PageSize
  <2>1. q \in Nat
    BY PageNumber
  <2>2. f = s + (IF e = h THEN q ELSE 0)
    BY DEF RegionFirst
  <2> HIDE DEF q, s, f
  <2> QED
    BY <1>1, <2>1, <2>2
<1>3. AddrOf(f) \div PageSize = f
  BY <1>1, AddrOfPage
<1>4. RegionPages(r) = f..(f + n - 1)
  BY <1>1, <1>3 DEF RegionPages, Matches
<1> HIDE DEF f, n, s, m
<1>5. x \in f..(f + n - 1) <=> x \in Nat /\ f <= x /\ x < s + m /\ s <= x
  BY <1>1, <1>2
<1> QED
  BY <1>4, <1>5 DEF InRegion, InEntry, f, s, m

\* The pages of the area that the host gives to the metadata.
LEMMA MetaPagesAre ==
  ASSUME MapOK(pmm), NEW z \in Nat, z % PageSize = 0, NEW h \in Hosts(z), NEW x
  PROVE  LET p == page_align(pmm[h].addr)
         IN  x \in PagesOf(p, p + z) <=> InEntry(x, h) /\ x < RegionFirst(h, h, z)
<1> DEFINE f == FirstPage(h)
           q == z \div PageSize
           p == page_align(pmm[h].addr)
           n == EntryPages(h)
           t == f + q - 1
           k == RegionOf(h, h, z).nb_pages
<1>1. h \in Valid
  BY DEF Hosts
<1>2. /\ f \in Nat /\ n \in Nat /\ p = AddrOf(f) /\ pmm[h].addr >= LowMem /\ pmm[h].addr <= AddrOf(f)
      /\ h \in 1..Len(pmm)
  BY <1>1, ValidFacts
<1>3. q \in Nat /\ z = AddrOf(q)
  BY PageNumber
<1>4. RegionFirst(h, h, z) = f + q /\ k \in Nat /\ (f + q) + k = f + n
  <2>1. RegionFirst(h, h, z) = f + q
    BY DEF RegionFirst
  <2> QED
    BY <1>1, <2>1, RegionFacts
<1>5. f # 0
  <2> SUFFICES ASSUME f = 0 PROVE FALSE
    OBVIOUS
  <2>1. AddrOf(f) = 0
    BY Pages
  <2> DEFINE u == pmm[h].addr
  <2>2. u \in Nat /\ u >= LowMem /\ u <= 0
    BY <1>2, <2>1, EntryOf DEF MapOK
  <2> HIDE DEF u
  <2> QED
    BY <2>2, Constants
<1> HIDE DEF f, q, p, n, k
<1>6. t \in Nat /\ t + 1 = f + q
  BY <1>2, <1>3, <1>5
<1>7. AddrOf(t + 1) = AddrOf(t) + PageSize /\ AddrOf(t) \in Nat
  <2> HIDE DEF t
  <2> QED
    BY <1>6, Pages
<1>8. p + z = AddrOf(t) + PageSize
  <2>1. AddrOf(f + q) = AddrOf(f) + AddrOf(q)
    BY <1>2, <1>3, Pages
  <2> QED
    BY <1>2, <1>3, <1>6, <1>7, <2>1
<1> HIDE DEF t
<1>9. ((p + z) - 1) \div PageSize = t
  <2> DEFINE a == AddrOf(t)
             b == a + PageSize - 1
  <2>1. b \in Nat /\ a <= b /\ b < a + PageSize
    BY <1>7, Constants
  <2>2. (p + z) - 1 = b
    <3>1. p \in Nat
      BY <1>2, Pages
    <3> HIDE DEF a
    <3> QED
      BY <1>7, <1>8, <3>1, Constants DEF a
  <2> HIDE DEF b
  <2>3. b \div PageSize = t
    BY <1>6, <2>1, PageNumberIs
  <2> QED
    BY <2>2, <2>3
<1>10. p \div PageSize = f
  BY <1>2, AddrOfPage
<1>11. PagesOf(p, p + z) = f..t
  BY <1>9, <1>10 DEF PagesOf
<1>12. x \in f..t <=> x \in Nat /\ f <= x /\ x < f + n /\ x < f + q
  BY <1>2, <1>3, <1>4, <1>6
<1> QED
  BY <1>4, <1>11, <1>12 DEF InEntry, f, n, p

\* A page is in one valid entry at most.
LEMMA OneEntry ==
  ASSUME LocationInv, MapInv, pc = "pfa", NEW d \in Valid, NEW e \in Valid,
         NEW x, InEntry(x, d), InEntry(x, e)
  PROVE  d = e
<1>1. MapOK(pmm)
  BY DEF MapInv
<1> DEFINE y == AddrOf(x)
<1>2. ASSUME NEW i \in Valid, InEntry(x, i)
      PROVE  i \in 1..Len(pmm) /\ Covers(pmm[i], y) /\ y \in Nat
  <2>1. x \in Nat /\ FirstPage(i) <= x /\ x < FirstPage(i) + EntryPages(i)
    BY <1>2 DEF InEntry
  <2> DEFINE u == pmm[i].addr
             l == pmm[i].len
  <2>2. u <= y /\ y + PageSize <= u + l
    BY <2>1, ValidIsFree
  <2>3. i \in 1..Len(pmm)
    BY <1>1, ValidFacts
  <2>4. u \in Nat /\ l \in Nat
    BY <1>1, <2>3, EntryOf DEF MapOK
  <2>5. y \in Nat
    BY <2>1, Pages
  <2> HIDE DEF u, l, y
  <2>6. y < u + l
    BY <2>2, <2>4, <2>5, Constants
  <2> QED
    BY <2>2, <2>3, <2>5, <2>6 DEF Covers, u, l
<1> HIDE DEF y
<1> QED
  BY <1>1, <1>2, OneHolder

\* The pages of the loops of bootstrap_mapping() lie in the addresses mapped.
LEMMA PagesOfFacts ==
  ASSUME NEW from \in Nat, NEW to \in Nat, to > 0, NEW x \in PagesOf(from, to)
  PROVE  /\ x \in Nat /\ AddrOf(x) \in Nat /\ AddrOf(x) < to
         /\ from % PageSize = 0 => from <= AddrOf(x)
<1> DEFINE a == from \div PageSize
           b == (to - 1) \div PageSize
<1>1. a \in Nat /\ (from % PageSize = 0 => from = AddrOf(a))
  BY PageNumber
<1>2. to - 1 \in Nat
  OBVIOUS
<1>3. b \in Nat /\ AddrOf(b) <= to - 1
  BY <1>2, PageNumber
<1>4. x \in a..b
  BY DEF PagesOf
<1> HIDE DEF a, b
<1>5. x \in Nat /\ a <= x /\ x <= b
  BY <1>1, <1>3, <1>4
<1> DEFINE u == AddrOf(a)
           v == AddrOf(x)
           w == AddrOf(b)
<1>6. u \in Nat /\ v \in Nat /\ w \in Nat /\ u <= v /\ v <= w
  BY <1>1, <1>3, <1>5, Pages
<1>7. w <= to - 1 /\ (from % PageSize = 0 => from = u)
  BY <1>1, <1>3
<1> HIDE DEF u, v, w
<1>8. v < to /\ (from % PageSize = 0 => from <= v)
  BY <1>6, <1>7
<1> QED
  BY <1>5, <1>6, <1>8 DEF v

\* No free page is mapped by the bootstrap for another use.
LEMMA NotMapped ==
  ASSUME LocationInv, MapInv, pc = "pfa", NEW e \in Valid, NEW x, InEntry(x, e)
  PROVE  /\ boot.kernel_end % PageSize # 0 =>
              x \notin PagesOf(kernel_start, page_align(boot.kernel_end + 1))
         /\ x \notin PagesOf(VramStart, LowMem)
         /\ ModuleLoaded(boot) => x \notin PagesOf(boot.mod_start, boot.mod_end)
<1> DEFINE y == AddrOf(x)
           k == boot.kernel_end
<1>1. x \in Nat /\ FirstPage(e) <= x /\ x < FirstPage(e) + EntryPages(e)
  BY DEF InEntry
<1>2. /\ LowMem <= y
      /\ \A i \in 1..Len(InUse) :
           y + PageSize <= InUse[i].addr \/ InUse[i].addr + InUse[i].len <= y
  BY <1>1, ValidIsFree
<1>3. y \in Nat
  BY <1>1, Pages
<1>4. boot \in Machines
  BY DEF LocationInv, BootInv
<1> HIDE DEF y
<1>5. ASSUME k % PageSize # 0, x \in PagesOf(kernel_start, page_align(k + 1)) PROVE FALSE
  <2> DEFINE t == page_align(k + 1)
  <2>1. k \in Nat /\ LowMem < k /\ k + 1 \in Nat /\ (k + 1) + PageSize <= AddrSpace
    <3>1. k \in Nat /\ size \in Nat /\ k > LowMem /\ k < AddrSpace - PageSize - size
      BY <1>4, SizeFacts
    <3> HIDE DEF k
    <3> QED
      BY <3>1, Constants
  <2>2. /\ t \in Nat /\ k + 1 <= t /\ t < (k + 1) + PageSize /\ t % PageSize = 0
    BY <2>1, PageAlign
  <2>3. LowMem + (k - LowMem) <= y \/ y + PageSize <= LowMem
    <3>1. 1 \in 1..Len(InUse)
      BY InUseIs
    <3>2. InUse[1].addr = LowMem /\ InUse[1].len = k - LowMem
      BY InUseIs DEF Kernel, Area, kernel_start
    <3> QED
      BY <1>2, <3>1, <3>2
  <2> DEFINE T == t \div PageSize
             w == AddrOf(T)
  <2>4. T \in Nat /\ t = w
    BY <2>2, PageNumber
  <2> HIDE DEF k, T, t
  <2>5. k <= y
    BY <1>2, <1>3, <2>1, <2>3, Constants
  <2>6. y # k
    <3>1. y % PageSize = 0
      BY <1>1, AddrOfPage DEF y
    <3> QED
      BY <1>5, <3>1
  <2>7. y < t
    BY <1>5, <2>1, <2>2, Constants, PagesOfFacts DEF y, kernel_start, t
  <2>8. y + PageSize <= t
    <3>1. AddrOf(x) < AddrOf(T) => x < T
      BY <1>1, <2>4, Pages
    <3>2. x < T => AddrOf(x) + PageSize <= AddrOf(T)
      BY <1>1, <2>4, Pages
    <3> QED
      BY <2>4, <2>7, <3>1, <3>2 DEF y
  <2> QED
    BY <1>3, <2>1, <2>2, <2>5, <2>6, <2>8, Constants
<1>6. ASSUME x \in PagesOf(VramStart, LowMem) PROVE FALSE
  <2>1. y < LowMem
    BY <1>6, Constants, PagesOfFacts DEF y
  <2> QED
    BY <1>2, <1>3, <2>1, Constants
<1>7. ASSUME ModuleLoaded(boot), x \in PagesOf(boot.mod_start, boot.mod_end) PROVE FALSE
  <2> DEFINE a == boot.mod_start
             b == boot.mod_end
  <2>1. a \in Nat /\ b \in Nat /\ a <= b /\ a % PageSize = 0
    BY <1>4, MachineTypes, BootAssumption DEF WellLoaded
  <2>2. 3 \in 1..Len(InUse) /\ InUse[3].addr = a /\ InUse[3].len = b - a
    BY <1>7, InUseIs DEF Module, Area
  <2>3. b - a > 0
    BY <2>2, AllTaken
  <2>4. y + PageSize <= a \/ a + (b - a) <= y
    BY <1>2, <2>2
  <2> HIDE DEF a, b
  <2>5. b > 0
    BY <2>1, <2>3
  <2>6. a <= y /\ y < b
    BY <1>7, <2>1, <2>5, PagesOfFacts DEF y, a, b
  <2> QED
    BY <1>3, <2>1, <2>4, <2>6, Constants
<1> QED
  BY <1>5, <1>6, <1>7

\* The regions hold the pages of the valid entries, each once, and their
\* metadata fits z bytes.
RegionsHold(rs, host, z) ==
  /\ DOMAIN rs = 1..Len(rs)
  /\ \A x : (\E k \in 1..Len(rs) : x \in RegionPages(rs[k]))
              <=> \E e \in Valid : InRegion(x, e, host, z)
  /\ \A k, l \in 1..Len(rs) : k # l => RegionPages(rs[k]) \cap RegionPages(rs[l]) = {}
  /\ \A k \in 1..Len(rs) : rs[k].end <= z

\* What pfa_init() establishes.
LEMMA PfaInitFrames ==
  ASSUME LocationInv, MapInv, pc = "pfa", NEW z, z = pfa_meta_size,
         NEW h \in Hosts(z), NEW rs, rs = reserve_regions(h, z)
  PROVE  RegionsHold(rs, h, z)
<1>1. MapOK(pmm)
  BY DEF MapInv
<1>2. z \in Nat /\ z % PageSize = 0 /\ MetaBytes <= z /\ MetaBytes \in Nat
  BY MetaFits
<1>3. PICK g : IsRegions(g, h, z) /\ rs = g[Len(pmm)].regions
  BY <1>1, <1>2, RegionsAre
<1>4. HasRegions(rs, Len(pmm), h, z)
  BY <1>1, <1>2, <1>3, RegionsOf
<1>5. \A k \in 1..Len(rs) : rs[k].end <= MetaBytes
  BY <1>1, <1>2, <1>3, RegionsFit
<1>6. rs \in Seq(Regions) /\ DOMAIN rs = 1..Len(rs) /\ Len(rs) \in Nat
  BY <1>4, LenProperties DEF HasRegions
<1>7. ASSUME NEW k \in 1..Len(rs) PROVE rs[k].end <= z
  <2> DEFINE c == rs[k].end
             b == MetaBytes
  <2>1. rs[k] \in Regions
    BY <1>6, ElementOfSeq
  <2>2. c \in Nat /\ c <= b /\ b \in Nat /\ b <= z
    BY <1>2, <1>5, <2>1 DEF Regions
  <2> HIDE DEF c, b
  <2>3. c <= z
    BY <1>2, <2>2
  <2> QED
    BY <2>3 DEF c
<1>8. ASSUME NEW x, NEW k \in 1..Len(rs), x \in RegionPages(rs[k])
      PROVE  \E e \in Valid : InRegion(x, e, h, z)
  <2>1. PICK e \in Valid : Matches(rs[k], e, h, z)
    BY <1>4 DEF HasRegions
  <2> QED
    BY <1>1, <1>2, <1>8, <2>1, RegionPagesAre
<1>9. ASSUME NEW x, NEW e \in Valid, InRegion(x, e, h, z)
      PROVE  \E k \in 1..Len(rs) : x \in RegionPages(rs[k])
  <2>1. e <= Len(pmm)
    BY <1>1, LenProperties, ValidFacts DEF MapOK
  <2>2. PICK k \in 1..Len(rs) : Matches(rs[k], e, h, z)
    BY <1>4, <2>1 DEF HasRegions
  <2> QED
    BY <1>1, <1>2, <1>9, <2>2, RegionPagesAre
<1>10. ASSUME NEW k \in 1..Len(rs), NEW l \in 1..Len(rs), k < l, NEW x,
              x \in RegionPages(rs[k]), x \in RegionPages(rs[l])
       PROVE  FALSE
  <2>1. PICK d \in Valid, e \in Valid :
          d < e /\ Matches(rs[k], d, h, z) /\ Matches(rs[l], e, h, z)
    BY <1>4, <1>10 DEF HasRegions
  <2>2. InRegion(x, d, h, z)
    BY <1>1, <1>2, <1>10, <2>1, RegionPagesAre
  <2>3. InRegion(x, e, h, z)
    BY <1>1, <1>2, <1>10, <2>1, RegionPagesAre
  <2>4. d = e
    BY <2>2, <2>3, OneEntry DEF InRegion
  <2>5. d \in 1..Len(pmm) /\ Len(pmm) \in Nat
    BY <1>1, LenProperties, ValidFacts DEF MapOK
  <2> QED
    BY <2>1, <2>4, <2>5
<1>11. ASSUME NEW k \in 1..Len(rs), NEW l \in 1..Len(rs), k # l
       PROVE  RegionPages(rs[k]) \cap RegionPages(rs[l]) = {}
  <2>1. k < l \/ l < k
    BY <1>6, <1>11
  <2> QED
    BY <1>10, <2>1
<1> QED
  BY <1>6, <1>7, <1>8, <1>9, <1>11 DEF RegionsHold

-----------------------------------------------------------------------------
(* The steps of the frames *)

LEMMA BootstrapIs ==
  ASSUME UNCHANGED boot, NEW i \in DOMAIN BootstrapPages'
  PROVE  \/ BootstrapPages'[i] = PagesOf(kernel_start, page_align(boot.kernel_end + 1))
         \/ BootstrapPages'[i] = PagesOf(VramStart, LowMem)
         \/ BootstrapPages'[i] = MetaPages'
         \/ ModuleLoaded(boot) /\ BootstrapPages'[i] = PagesOf(boot.mod_start, boot.mod_end)
<1> DEFINE a == PagesOf(kernel_start, page_align(boot.kernel_end + 1))
           b == PagesOf(VramStart, LowMem)
           c == MetaPages'
           d == PagesOf(boot.mod_start, boot.mod_end)
           s == BootstrapPages'
<1>1. boot' = boot
  OBVIOUS
<1>2. CASE ModuleLoaded(boot)
  <2>1. s = <<a, b, c>> \o <<d>>
    BY <1>1, <1>2 DEF BootstrapPages, MetaPages
  <2>2. i \in DOMAIN s
    OBVIOUS
  <2> HIDE DEF a, b, c, d, s
  <2>3. Len(s) = 4 /\ s[1] = a /\ s[2] = b /\ s[3] = c /\ s[4] = d /\ DOMAIN s = 1..4
    BY <2>1
  <2>4. i = 1 \/ i = 2 \/ i = 3 \/ i = 4
    BY <2>2, <2>3
  <2>5. s[i] = a \/ s[i] = b \/ s[i] = c \/ s[i] = d
    BY <2>3, <2>4
  <2> QED
    BY <1>2, <2>5 DEF a, b, c, d, s
<1>3. CASE ~ModuleLoaded(boot)
  <2>1. s = <<a, b, c>> \o <<>>
    BY <1>1, <1>3 DEF BootstrapPages, MetaPages
  <2>2. i \in DOMAIN s
    OBVIOUS
  <2> HIDE DEF a, b, c, s
  <2>3. Len(s) = 3 /\ s[1] = a /\ s[2] = b /\ s[3] = c /\ DOMAIN s = 1..3
    BY <2>1
  <2>4. i = 1 \/ i = 2 \/ i = 3
    BY <2>2, <2>3
  <2>5. s[i] = a \/ s[i] = b \/ s[i] = c
    BY <2>3, <2>4
  <2> QED
    BY <2>5 DEF a, b, c, s
<1> QED
  BY <1>2, <1>3

\* The pages of the module, if it is not empty, are on its addresses.
LEMMA ModulePage ==
  ASSUME LocationInv, NEW x \in PagesOf(boot.mod_start, boot.mod_end)
  PROVE  /\ x \in Nat /\ boot.mod_start \in Nat /\ boot.mod_end \in Nat
         /\ boot.mod_start <= AddrOf(x) /\ AddrOf(x) < boot.mod_end
<1> DEFINE a == boot.mod_start
           b == boot.mod_end
<1>1. a \in Nat /\ b \in Nat /\ a <= b /\ a % PageSize = 0
  BY MachineTypes, BootAssumption DEF WellLoaded, LocationInv, BootInv
<1>2. x \in PagesOf(a, b)
  OBVIOUS
<1> HIDE DEF a, b
<1>3. b > 0
  <2> SUFFICES ASSUME b = 0 PROVE FALSE
    BY <1>1
  <2> DEFINE q == (0 - 1) \div PageSize
             p == PageSize
  <2>1. a = 0
    BY <1>1
  <2>2. 0 \div PageSize = 0
    BY Constants
  <2>3. x \in 0..q
    BY <1>2, <2>1, <2>2 DEF PagesOf
  <2>4. q \in Int /\ p \in Nat /\ p > 0 /\ p * q <= 0 - 1
    BY Constants
  <2> HIDE DEF q, p
  <2>5. q >= 0
    BY <2>3, <2>4
  <2>6. q \in Nat
    BY <2>4, <2>5
  <2>7. p * q \in Nat
    BY <2>4, <2>6
  <2> QED
    BY <2>4, <2>7
<1> QED
  BY <1>1, <1>2, <1>3, PagesOfFacts DEF a, b

\* An available entry of the map starts little behind the top, too.
LEMMA EntryStart ==
  ASSUME LocationInv, MapInv, pc = "pfa", NEW e \in Valid
  PROVE  /\ pmm[e].addr \in Nat /\ LowMem <= pmm[e].addr
         /\ pmm[e].addr < Top(boot) + PageSize + size
<1>1. MapOK(pmm) /\ Pieces(pmm) /\ Located /\ boot \in Machines
  BY DEF MapInv, Located, LocationInv, BootInv
<1>2. e \in 1..Len(pmm) /\ pmm[e].type = AVAILABLE /\ pmm[e].addr >= LowMem
  BY <1>1, LenProperties DEF MapOK, Valid, is_valid_region
<1> DEFINE u == pmm[e].addr
           L == Top(boot) + PageSize + size
<1>3. u \in Nat
  BY <1>1, <1>2, EntryOf DEF MapOK
<1>4. PICK j \in 1..Len(boot.mmap) : Piece(pmm[e], boot.mmap[j])
  BY <1>1, <1>2 DEF Pieces
<1>5. L \in Nat
  <2> DEFINE t == Top(boot)
             z == size
  <2>1. t \in Nat /\ z \in Nat
    BY SizeFacts
  <2> HIDE DEF t, z
  <2>2. t + PageSize + z \in Nat
    BY <2>1, Constants
  <2> QED
    BY <2>2 DEF t, z
<1>6. CASE u = boot.mmap[j].addr
  <2> DEFINE t == Top(boot)
             z == size
  <2>1. boot.mmap[j] \in Members(boot.mmap)
    BY DEF Members
  <2>2. boot.mmap[j].type = AVAILABLE /\ boot.mmap[j].addr < AddrSpace
    BY <1>2, <1>4 DEF Piece
  <2>3. u < t
    BY <1>1, <1>6, <2>1, <2>2, EntryFacts
  <2>4. t \in Nat /\ z \in Nat
    BY SizeFacts
  <2> HIDE DEF u, t, z
  <2>5. u < t + PageSize + z
    BY <1>3, <2>3, <2>4, Constants
  <2> QED
    BY <1>2, <1>3, <2>5, Constants DEF u, t, z
<1>7. CASE Edge(u)
  <2>1. PICK i \in 1..Len(InUse) : u \in {InUse[i].addr, InUse[i].addr + InUse[i].len}
    BY <1>7 DEF Edge
  <2> DEFINE a == InUse[i].addr
             l == InUse[i].len
  <2>2. a \in Nat /\ l \in Nat /\ a + l < L
    BY <1>1, InUseFacts
  <2>3. u = a \/ u = a + l
    BY <2>1
  <2> HIDE DEF a, l, u, L
  <2>4. u < L
    BY <1>3, <1>5, <2>2, <2>3
  <2> QED
    BY <1>2, <1>3, <2>4, Constants DEF u, L
<1> QED
  BY <1>4, <1>6, <1>7 DEF Piece

\* Nothing that the bootstrap maps is in the last page table.
LEMMA MappedBelow ==
  ASSUME LocationInv, MapInv, pc = "pfa", NEW z, z = pfa_meta_size, NEW h \in Valid,
         UNCHANGED boot, pfa_area' = Area(page_align(pmm[h].addr), z),
         NEW i \in DOMAIN BootstrapPages', NEW x \in BootstrapPages'[i]
  PROVE  x * PageSize < AddrSpace - PtPages * PageSize
<1> DEFINE k == boot.kernel_end
           t == page_align(k + 1)
           top == Top(boot)
           s == size
           B == MetaBound(boot)
           c == TableBytes
           u == pmm[h].addr
           p == page_align(u)
           y == AddrOf(x)
           a == boot.mod_start
           b == boot.mod_end
           lim == AddrSpace - c
<1>1. boot \in Machines
  BY DEF LocationInv, BootInv
<1>2. /\ k \in Nat /\ k > LowMem /\ k < top /\ top \in Nat
      /\ s \in Nat /\ B \in Nat /\ c \in Nat
      /\ top = AddrSpace - (c + 3 * PageSize + s + B)
  BY SizeFacts
<1>3. z \in Nat /\ z < B + PageSize
  BY MetaFits
<1>4. u \in Nat /\ LowMem <= u /\ u < top + PageSize + s
  BY EntryStart
<1>5. /\ a \in Nat /\ b \in Nat
      /\ ModuleLoaded(boot) => a + (b - a) < top
  <2>1. a \in Nat /\ b \in Nat
    BY <1>1, MachineTypes
  <2>2. ModuleLoaded(boot) => Module(boot).addr + Module(boot).len < top
    BY <1>1, ModuleIsAnArea, AreaFacts
  <2> QED
    BY <2>1, <2>2 DEF Module, Area
<1>6. MetaPages' = PagesOf(p, p + z)
  BY DEF MetaPages, Area
<1>7. \/ x \in PagesOf(LowMem, t)
      \/ x \in PagesOf(VramStart, LowMem)
      \/ x \in PagesOf(p, p + z)
      \/ ModuleLoaded(boot) /\ x \in PagesOf(a, b)
  BY <1>6, BootstrapIs DEF kernel_start
<1> HIDE DEF k, top, s, B, c, u, a, b
<1>8. k + 1 \in Nat /\ (k + 1) + PageSize <= AddrSpace
  BY <1>2, Constants
<1>9. t \in Nat /\ k + 1 <= t /\ t < (k + 1) + PageSize
  BY <1>8, PageAlign
<1>10. u + PageSize <= AddrSpace
  BY <1>2, <1>4, Constants
<1>11. p \in Nat /\ u <= p /\ p < u + PageSize
  BY <1>4, <1>10, PageAlign
<1>12. p + z \in Nat /\ p + z > 0 /\ p + z <= lim
  <2> HIDE DEF p
  <2> QED
    BY <1>2, <1>3, <1>4, <1>11, Constants
<1>13. t > 0 /\ t <= lim /\ LowMem > 0 /\ LowMem <= lim
  <2> HIDE DEF t
  <2> QED
    BY <1>2, <1>9, Constants
<1>14. lim \in Int
  BY <1>2, Constants
<1> HIDE DEF t, p, lim
<1>15. x \in Nat /\ y \in Nat /\ y < lim
  <2>1. CASE x \in PagesOf(LowMem, t)
    <3>1. x \in Nat /\ y \in Nat /\ y < t
      BY <1>9, <1>13, <2>1, Constants, PagesOfFacts
    <3> QED
      BY <1>9, <1>13, <1>14, <3>1
  <2>2. CASE x \in PagesOf(VramStart, LowMem)
    <3>1. x \in Nat /\ y \in Nat /\ y < LowMem
      BY <2>2, Constants, PagesOfFacts
    <3> QED
      BY <1>13, <1>14, <3>1, Constants
  <2>3. CASE x \in PagesOf(p, p + z)
    <3>1. x \in Nat /\ y \in Nat /\ y < p + z
      BY <1>11, <1>12, <2>3, PagesOfFacts
    <3> DEFINE w == p + z
    <3> HIDE DEF w
    <3>2. w \in Nat /\ y < w /\ w <= lim
      BY <1>12, <3>1 DEF w
    <3> QED
      BY <1>14, <3>1, <3>2
  <2>4. CASE ModuleLoaded(boot) /\ x \in PagesOf(a, b)
    <3>1. x \in Nat /\ AddrOf(x) < boot.mod_end
      BY <2>4, ModulePage DEF a, b
    <3>2. y \in Nat /\ y < b
      BY <3>1, Pages DEF b
    <3>3. b < top
      BY <1>2, <1>5, <2>4
    <3>4. top <= lim
      BY <1>2, Constants DEF lim
    <3> HIDE DEF y
    <3>5. y < lim
      BY <1>2, <1>5, <1>14, <3>2, <3>3, <3>4
    <3> QED
      BY <3>1, <3>2, <3>5
  <2> QED
    BY <1>7, <2>1, <2>2, <2>3, <2>4
<1>16. x * PageSize = y
  BY <1>15, Constants DEF AddrOf
<1> QED
  BY <1>15, <1>16 DEF lim, c, TableBytes

LEMMA PfaInitStep ==
  ASSUME LocationInv, MapInv, pfa_init
  PROVE  FramesAreTheFreePages'
<1> DEFINE z == pfa_meta_size
           h == Min(Hosts(z))
<1>1. CASE Hosts(z) = {}
  <2>1. pc' = "panic"
    BY <1>1 DEF pfa_init, Panic
  <2> QED
    BY <2>1 DEF FramesAreTheFreePages
<1>2. CASE Hosts(z) # {}
  <2>1. /\ pc = "pfa" /\ boot' = boot /\ pmm_addr' = pmm_addr
        /\ pfa' = reserve_regions(h, z)
        /\ pfa_area' = Area(page_align(pmm[h].addr), z)
    BY <1>2 DEF pfa_init
  <2>2. MapOK(pmm) /\ z \in Nat /\ z % PageSize = 0
    BY <2>1, MetaFits DEF MapInv
  <2>3. h \in Hosts(z) /\ h \in Valid
    BY <1>2, <2>2, HostIs DEF Hosts
  <2> HIDE DEF h
  <2>4. z = pfa_meta_size
    OBVIOUS
  <2> HIDE DEF z
  <2> DEFINE rs == pfa'
             In(x, e) == InRegion(x, e, h, z)
             IsFrame(x) == \E k \in 1..Len(rs) : x \in RegionPages(rs[k])
  <2>5. /\ DOMAIN rs = 1..Len(rs)
        /\ \A x : IsFrame(x) <=> \E e \in Valid : In(x, e)
        /\ \A k, l \in 1..Len(rs) : k # l => RegionPages(rs[k]) \cap RegionPages(rs[l]) = {}
        /\ \A k \in 1..Len(rs) : rs[k].end <= z
    <3>1. rs = reserve_regions(h, z)
      BY <2>1
    <3> HIDE DEF rs
    <3>2. RegionsHold(rs, h, z)
      BY <2>1, <2>3, <2>4, <3>1, PfaInitFrames
    <3> QED
      BY <3>2 DEF RegionsHold
  <2>6. \A x : x \in Frames' <=> \E e \in Valid : In(x, e)
    BY <2>5 DEF Frames
  <2>7. \A x : x \in MetaPages' <=> InEntry(x, h) /\ x < RegionFirst(h, h, z)
    <3> DEFINE p == page_align(pmm[h].addr)
    <3>1. pfa_area'.addr = p /\ pfa_area'.len = z
      BY <2>1 DEF Area
    <3>2. MetaPages' = PagesOf(p, p + z)
      BY <3>1 DEF MetaPages
    <3> HIDE DEF p
    <3> QED
      BY <2>2, <2>3, <3>2, MetaPagesAre DEF p
  <2>8. \A x : x \in FreePages' <=> \E e \in Valid : InEntry(x, e)
    <3>1. FreePages' = FreePages
      <4>1. InUse' = InUse
        BY <2>1, SameAreas
      <4> QED
        BY <2>1, <4>1 DEF FreePages, FreePagesOf
    <3>2. ASSUME NEW x, NEW e \in Valid
          PROVE  InEntry(x, e) <=> x \in FirstPage(e)..(FirstPage(e) + EntryPages(e) - 1)
      <4> DEFINE f == FirstPage(e)
                 n == EntryPages(e)
      <4>1. f \in Nat /\ n \in Nat
        BY <2>2, ValidFacts
      <4> HIDE DEF f, n
      <4>2. (x \in Nat /\ f <= x /\ x < f + n) <=> x \in f..(f + n - 1)
        BY <4>1
      <4> QED
        BY <4>2 DEF InEntry, f, n
    <3> QED
      BY <2>1, <3>1, <3>2, FreePagesAre
  <2>9. ASSUME NEW x, NEW e \in Valid, e # h PROVE In(x, e) <=> InEntry(x, e)
    <3> DEFINE f == FirstPage(e)
    <3>1. f \in Nat
      BY <2>2, ValidFacts
    <3>2. RegionFirst(e, h, z) = f + 0
      BY <2>9 DEF RegionFirst
    <3>3. RegionFirst(e, h, z) = f
      <4> HIDE DEF f
      <4> QED
        BY <3>1, <3>2
    <3> QED
      BY <3>3 DEF InRegion, InEntry
  <2>10. RegionFirst(h, h, z) \in Nat
    BY <2>2, <2>3, RegionFacts
  <2>11. \A x : InEntry(x, h) <=> In(x, h) \/ (InEntry(x, h) /\ x < RegionFirst(h, h, z))
    <3> TAKE x
    <3> DEFINE r == RegionFirst(h, h, z)
    <3> HIDE DEF r
    <3>1. x \in Nat => r <= x \/ x < r
      BY <2>10 DEF r
    <3> QED
      BY <3>1 DEF InRegion, InEntry, r
  <2>12. Frames' \cup MetaPages' = FreePages'
    <3> HIDE DEF In
    <3>1. ASSUME NEW x
          PROVE  x \in Frames' \/ x \in MetaPages' <=> x \in FreePages'
      <4>1. ASSUME x \in Frames' PROVE x \in FreePages'
        <5>1. PICK e \in Valid : In(x, e)
          BY <2>6, <4>1
        <5>2. InEntry(x, e)
          BY <5>1 DEF In, InRegion
        <5> QED
          BY <2>8, <5>2
      <4>2. ASSUME x \in MetaPages' PROVE x \in FreePages'
        BY <2>3, <2>7, <2>8, <4>2
      <4>3. ASSUME x \in FreePages' PROVE x \in Frames' \/ x \in MetaPages'
        <5>1. PICK e \in Valid : InEntry(x, e)
          BY <2>8, <4>3
        <5>2. CASE e = h
          BY <2>3, <2>6, <2>7, <2>11, <5>1, <5>2
        <5>3. CASE e # h
          BY <2>6, <2>9, <5>1, <5>3
        <5> QED
          BY <5>2, <5>3
      <4> QED
        BY <4>1, <4>2, <4>3
    <3> QED
      BY <3>1
  <2>13. Frames' \cap MetaPages' = {}
    <3> SUFFICES ASSUME NEW x \in Frames', x \in MetaPages' PROVE FALSE
      OBVIOUS
    <3>1. PICK e \in Valid : In(x, e)
      BY <2>6
    <3>2. InEntry(x, h) /\ x < RegionFirst(h, h, z)
      BY <2>7
    <3>3. InEntry(x, e) /\ RegionFirst(e, h, z) <= x /\ x \in Nat
      BY <3>1 DEF InRegion, InEntry
    <3>4. e = h
      BY <2>1, <2>3, <3>2, <3>3, OneEntry
    <3> DEFINE r == RegionFirst(h, h, z)
    <3>5. r <= x /\ x < r /\ r \in Nat
      BY <2>10, <3>2, <3>3, <3>4
    <3> HIDE DEF r
    <3> QED
      BY <3>3, <3>5
  <2>14. ASSUME boot.kernel_end % PageSize # 0, NEW i \in DOMAIN BootstrapPages'
         PROVE  BootstrapPages'[i] \cap Frames' = {}
    <3> SUFFICES ASSUME NEW x \in Frames', x \in BootstrapPages'[i] PROVE FALSE
      OBVIOUS
    <3>1. PICK e \in Valid : In(x, e)
      BY <2>6
    <3>2. InEntry(x, e)
      BY <3>1 DEF InRegion
    <3>3. /\ x \notin PagesOf(kernel_start, page_align(boot.kernel_end + 1))
          /\ x \notin PagesOf(VramStart, LowMem)
          /\ ModuleLoaded(boot) => x \notin PagesOf(boot.mod_start, boot.mod_end)
      BY <2>1, <2>14, <3>2, NotMapped
    <3>4. x \notin MetaPages'
      BY <2>13
    <3> QED
      BY <2>1, <3>3, <3>4, BootstrapIs
  <2>15. \A k \in 1..Len(rs) : rs[k].end <= pfa_area'.len
    BY <2>1, <2>5 DEF Area
  <2>16. \A i \in DOMAIN BootstrapPages' : \A x \in BootstrapPages'[i] :
           x * PageSize < AddrSpace - PtPages * PageSize
    BY <2>1, <2>3, <2>4, MappedBelow
  <2> HIDE DEF In, IsFrame
  <2> QED
    BY <2>1, <2>5, <2>12, <2>13, <2>14, <2>15, <2>16 DEF FramesAreTheFreePages
<1> QED
  BY <1>1, <1>2

LEMMA SameFrames ==
  ASSUME FramesAreTheFreePages, pc \in {"paging", "done"},
         UNCHANGED <<boot, pmm_addr, pfa, pfa_area>>
  PROVE  FramesAreTheFreePages'
<1>1. boot' = boot /\ pmm_addr' = pmm_addr /\ pfa' = pfa /\ pfa_area' = pfa_area
  OBVIOUS
<1>2. Frames' = Frames /\ MetaPages' = MetaPages /\ BootstrapPages' = BootstrapPages
  BY <1>1 DEF Frames, MetaPages, BootstrapPages
<1>3. FreePages' = FreePages
  <2>1. InUse' = InUse
    BY <1>1, SameAreas
  <2> QED
    BY <1>1, <2>1 DEF FreePages, FreePagesOf
<1> QED
  BY <1>1, <1>2, <1>3 DEF FramesAreTheFreePages

LEMMA NextFrames ==
  LocationInv /\ MapInv /\ FramesAreTheFreePages /\ [Next]_vars => FramesAreTheFreePages'
<1> SUFFICES ASSUME LocationInv, MapInv, FramesAreTheFreePages, [Next]_vars
             PROVE  FramesAreTheFreePages'
  OBVIOUS
<1>1. CASE CheckFlags \/ sort_phys_mmap \/ sort_multiboot_mmap \/ NextSegment
           \/ AvoidStructure \/ CheckRange \/ fill_phys_mmap
  <2>1. pc' \notin {"paging", "done"}
    BY <1>1 DEF CheckFlags, sort_phys_mmap, sort_multiboot_mmap, NextSegment,
                AvoidStructure, CheckRange, fill_phys_mmap, Panic
  <2> QED
    BY <2>1 DEF FramesAreTheFreePages
<1>2. CASE ReserveKernel \/ ReservePmm \/ ReserveModule
  <2>1. pc' \notin {"paging", "done"}
    BY <1>2 DEF ReserveKernel, ReservePmm, ReserveModule, reserve_region, Panic
  <2> QED
    BY <2>1 DEF FramesAreTheFreePages
<1>3. CASE pfa_init
  BY <1>3, PfaInitStep
<1>4. CASE paging_setup
  BY <1>4, SameFrames DEF paging_setup
<1>5. CASE UNCHANGED vars
  <2>1. pc' = pc /\ UNCHANGED <<boot, pmm_addr, pfa, pfa_area>>
    BY <1>5 DEF vars
  <2>2. CASE pc \in {"paging", "done"}
    BY <2>1, <2>2, SameFrames
  <2>3. CASE pc \notin {"paging", "done"}
    BY <2>1, <2>3 DEF FramesAreTheFreePages
  <2> QED
    BY <2>2, <2>3
<1> QED
  BY <1>1, <1>2, <1>3, <1>4, <1>5 DEF Next

LEMMA InitFrames == Init => FramesAreTheFreePages
BY DEF Init, FramesAreTheFreePages

\* The regions that pfa_init() builds hold each page that neither the firmware nor
\* the kernel, the map, the module or the metadata use, and each of them once; the
\* metadata fits the pages set aside for it; and bootstrap_mapping() maps no frame,
\* unless the kernel ends on a page boundary, and nothing in the last page table.
THEOREM FreeFrames == Spec => []FramesAreTheFreePages
BY InitFrames, NextFrames, Locating, Mapping, PTL DEF Spec

-----------------------------------------------------------------------------
(* Panics: there is no room for the map *)

\* An address that find_pmm_location() should not miss.
Candidate(p, m) == Room(p, m) /\ ~EndWraps(m)

\* The segments looked at have no room, and the address tried is not behind
\* the first candidate of the current one.
RoomInv ==
  pc \in {"locate", "avoid"} =>
    /\ \A i \in 1..Len(mmap) : i < seg =>
         \A p \in LowMem..(AddrSpace - 1) : ~Candidate(p, mmap[i])
    /\ pc = "avoid" =>
         \A p \in LowMem..(AddrSpace - 1) : Candidate(p, mmap[seg]) => pmm_addr <= p

\* A page boundary behind x is not before the next one.
LEMMA NextPage ==
  ASSUME NEW x \in Nat, x + PageSize <= AddrSpace,
         NEW r \in Nat, r % PageSize = 0, x <= r
  PROVE  page_align(x) <= r
<1> DEFINE y == page_align(x)
           k == y \div PageSize
           q == r \div PageSize
           a == AddrOf(k)
           b == AddrOf(q)
<1>1. y \in Nat /\ y < x + PageSize /\ y % PageSize = 0
  BY PageAlign
<1> HIDE DEF y
<1>2. k \in Nat /\ y = a /\ q \in Nat /\ r = b
  BY <1>1, PageNumber
<1> HIDE DEF k, q
<1>3. q < k => b + PageSize <= a
  BY <1>2, Pages
<1>4. k <= q => a <= b
  BY <1>2, Pages
<1> HIDE DEF a, b
<1>5. ~ (q < k)
  BY <1>1, <1>2, <1>3, Constants
<1>6. k <= q
  BY <1>2, <1>5
<1> QED
  BY <1>2, <1>4, <1>6 DEF y

\* What a candidate is.
LEMMA CandidateFacts ==
  ASSUME LocationInv, NEW i \in 1..Len(mmap), NEW r \in LowMem..(AddrSpace - 1),
         Candidate(r, mmap[i])
  PROVE  /\ Usable(mmap[i]) /\ r \in Nat
         /\ r % PageSize = 0 \/ r = mmap[i].addr
         /\ mmap[i].addr <= r /\ r + size <= mmap[i].addr + mmap[i].len
         /\ mmap[i].addr + mmap[i].len < AddrSpace
         /\ page_align(boot.kernel_end + 1) <= r
         /\ \A a \in Members(MultibootAreas(boot)) :
              r + size <= a.addr \/ a.addr + a.len <= r
<1>1. Room(r, mmap[i]) /\ (r % PageSize = 0 \/ r = mmap[i].addr)
  BY DEF Candidate, Room
<1>2. r \in Nat
  BY Constants
<1>3. Usable(mmap[i]) /\ mmap[i].addr + mmap[i].len < AddrSpace
  <2>1. Usable(mmap[i])
    BY <1>1 DEF Room
  <2> DEFINE u == mmap[i].addr
             v == mmap[i].len
  <2>2. u \in Nat /\ v \in Nat /\ ~ (u + v >= AddrSpace)
    BY UsableFacts DEF Candidate, EndWraps
  <2> HIDE DEF u, v
  <2>3. u + v < AddrSpace
    BY <2>2, Constants
  <2> QED
    BY <2>1, <2>3 DEF u, v
<1>4. mmap[i].addr <= r /\ r + size <= mmap[i].addr + mmap[i].len
  BY <1>1 DEF Room, Inside, Area, size
<1>5. page_align(boot.kernel_end + 1) <= r
  <2> DEFINE y == page_align(boot.kernel_end + 1)
  <2>1. r >= y
    BY <1>1 DEF Room
  <2>2. y \in Nat
    <3> DEFINE k == boot.kernel_end
               x == k + 1
               z == size
               t == Top(boot)
    <3>1. z \in Nat /\ k \in Nat /\ t \in Nat /\ t <= AddrSpace - PageSize - z /\ k < t
      BY SizeFacts
    <3>2. AddrSpace \in Nat /\ PageSize \in Nat
      BY Constants
    <3> HIDE DEF z, t, k
    <3>3. x \in Nat /\ x + PageSize <= AddrSpace
      BY <3>1, <3>2
    <3> HIDE DEF x
    <3>4. page_align(x) \in Nat
      BY <3>3, PageAlign
    <3> QED
      BY <3>4 DEF x, k
  <2> HIDE DEF y
  <2> QED
    BY <1>2, <2>1, <2>2 DEF y
<1>6. ASSUME NEW a \in Members(MultibootAreas(boot))
      PROVE  r + size <= a.addr \/ a.addr + a.len <= r
  <2> DEFINE areas == MultibootAreas(boot)
  <2>1. areas \in Seq(Areas)
    BY MachineTypes DEF LocationInv, BootInv
  <2>2. ApartFromAll(Area(r, size), areas)
    BY <1>1 DEF Room, size
  <2> HIDE DEF areas
  <2>3. PICK j \in 1..Len(areas) : a = areas[j]
    BY <1>6 DEF Members, areas
  <2>4. j \in DOMAIN areas
    BY <2>1, LenProperties
  <2>5. Apart(Area(r, size), a)
    BY <2>2, <2>3, <2>4 DEF ApartFromAll
  <2> QED
    BY <2>5 DEF Apart, Area
<1> QED
  BY <1>1, <1>2, <1>3, <1>4, <1>5, <1>6

LEMMA NextSegmentRoom ==
  ASSUME LocationInv, RoomInv, NextSegment
  PROVE  RoomInv'
<1>1. /\ pc = "locate" /\ UNCHANGED <<boot, mmap>> /\ seg \in Nat \ {0}
      /\ mmap \in Seq(MmapEntries)
      /\ \A i \in 1..Len(mmap) : i < seg =>
           \A p \in LowMem..(AddrSpace - 1) : ~Candidate(p, mmap[i])
  BY DEF LocationInv, BootInv, TriedInv, NextSegment, RoomInv
<1>3. CASE seg > Len(mmap)
  BY <1>3 DEF NextSegment, Panic, RoomInv
<1>4. CASE ~ (seg > Len(mmap)) /\ ~ Usable(mmap[seg])
  <2>1. seg' = seg + 1 /\ pc' = "locate"
    BY <1>1, <1>4 DEF NextSegment
  <2>2. \A p : ~ Candidate(p, mmap[seg])
    BY <1>4 DEF Candidate, Room
  <2>3. \A i \in 1..Len(mmap) : i < seg' =>
          \A p \in LowMem..(AddrSpace - 1) : ~Candidate(p, mmap[i])
    <3>1. \A i \in 1..Len(mmap) : i < seg' => i < seg \/ i = seg
      BY <1>1, <2>1
    <3> QED
      BY <1>1, <2>2, <3>1
  <2> QED
    BY <1>1, <2>1, <2>3 DEF RoomInv, Candidate, Room
<1>5. CASE ~ (seg > Len(mmap)) /\ Usable(mmap[seg])
  <2> DEFINE start == page_align(boot.kernel_end + 1)
  <2>1. /\ pmm_addr' = IF start < mmap[seg].addr THEN mmap[seg].addr ELSE start
        /\ pc' = "avoid" /\ seg' = seg
    BY <1>5 DEF NextSegment
  <2>2. seg \in 1..Len(mmap)
    BY <1>1, <1>5, LenProperties
  <2>3. ASSUME NEW p \in LowMem..(AddrSpace - 1), Candidate(p, mmap[seg])
        PROVE  pmm_addr' <= p
    <3>1. start <= p /\ mmap[seg].addr <= p
      BY <2>2, <2>3, CandidateFacts
    <3> QED
      BY <2>1, <3>1
  <2> QED
    BY <1>1, <2>1, <2>3 DEF RoomInv, Candidate, Room
<1> QED
  BY <1>3, <1>4, <1>5

\* A candidate is behind a structure that is in the way of an earlier address,
\* and so it is not before the next page boundary.
LEMMA AvoidRoom ==
  ASSUME LocationInv, RoomInv, AvoidStructure
  PROVE  RoomInv'
<1> DEFINE a == mbr[nth]
           p == pmm_addr
           q == pmm_addr'
           e == a.addr + a.len
           top == Top(boot)
           z == size
           g == mmap[seg].addr
<1>1. /\ pc = "avoid" /\ boot \in Machines /\ nth <= Len(mbr)
      /\ UNCHANGED <<pc, boot, mmap, seg>>
      /\ seg \in 1..Len(mmap) /\ nth \in 1..(Len(mbr) + 1)
      /\ mmap \in Seq(MmapEntries) /\ mbr \in Seq(Areas)
      /\ Members(mbr) = Members(MultibootAreas(boot))
      /\ p \in Nat /\ p + z < AddrSpace /\ p >= g
      /\ q = MovedPast(p, z, a)
  BY DEF LocationInv, BootInv, StructuresInv, TriedInv, Behind, AvoidStructure, size
<1>2. nth \in 1..Len(mbr)
  BY <1>1, LenProperties
<1>3. z \in Nat /\ top \in Nat /\ top <= AddrSpace - PageSize - z /\ g \in Nat
  BY <1>1, SizeFacts, UsableFacts
<1>4. a \in Members(MultibootAreas(boot))
  BY <1>1, <1>2 DEF Members
<1>5. a.addr \in Nat /\ a.len \in Nat /\ e \in Nat /\ e < top
  BY <1>1, <1>4, AreaFacts
<1>6. ASSUME NEW r \in LowMem..(AddrSpace - 1), Candidate(r, mmap[seg])
      PROVE  q <= r
  <2>1. /\ r \in Nat /\ (r % PageSize = 0 \/ r = g)
        /\ r + z <= a.addr \/ e <= r
    BY <1>1, <1>4, <1>6, CandidateFacts
  <2>2. p <= r
    BY <1>1, <1>6 DEF RoomInv
  <2> DEFINE w == a.addr
  <2>3. w \in Nat /\ (r + z <= w \/ e <= r)
    BY <1>5, <2>1
  <2>4. MovedPast(p, z, a) = IF collides(p, z, a) THEN page_align(W(e)) ELSE p
    BY DEF MovedPast
  <2>5. collides(p, z, a) <=> p < W(e) /\ W(p + z) > w
    BY DEF collides
  <2> HIDE DEF a, p, q, e, z, top, g, w
  <2>6. W(e) = e /\ W(p + z) = p + z /\ e + PageSize <= AddrSpace
    <3>1. e < AddrSpace /\ p + z \in Nat /\ e + PageSize <= AddrSpace
      BY <1>1, <1>3, <1>5, Constants
    <3> QED
      BY <1>1, <1>5, <3>1, NoWrap
  <2>7. CASE collides(p, z, a)
    <3>1. q = page_align(e) /\ p < e /\ p + z > w
      BY <1>1, <2>4, <2>5, <2>6, <2>7
    <3>2. e <= r
      BY <1>1, <1>3, <2>1, <2>2, <2>3, <3>1
    <3>3. r # g
      BY <1>1, <1>3, <1>5, <2>1, <2>2, <3>1, <3>2
    <3>4. r % PageSize = 0
      BY <2>1, <3>3
    <3> QED
      BY <1>5, <2>1, <2>6, <3>1, <3>2, <3>4, NextPage
  <2>8. CASE ~ collides(p, z, a)
    BY <1>1, <2>2, <2>4, <2>8
  <2> QED
    BY <2>7, <2>8
<1> HIDE DEF q
<1> QED
  BY <1>1, <1>6 DEF RoomInv, Candidate, Room, q

\* A candidate of the segment would have been accepted.
LEMMA CheckRangeRoom ==
  ASSUME LocationInv, RoomInv, CheckRange
  PROVE  RoomInv'
<1> DEFINE m == mmap[seg]
           p == pmm_addr
           z == size
           l == Shrunk(m).len
           u == m.addr
           v == m.len
<1>1. /\ pc = "avoid" /\ UNCHANGED <<boot, mmap>>
      /\ seg \in 1..Len(mmap) /\ Usable(m) /\ mmap \in Seq(MmapEntries)
      /\ p \in Nat /\ p + z < AddrSpace
      /\ \A i \in 1..Len(mmap) : i < seg =>
           \A r \in LowMem..(AddrSpace - 1) : ~Candidate(r, mmap[i])
  BY DEF LocationInv, BootInv, TriedInv, Behind, CheckRange, RoomInv
<1>2. CASE FitsIn(p, Shrunk(m))
  BY <1>2 DEF CheckRange, RoomInv
<1>3. CASE ~ FitsIn(p, Shrunk(m))
  <2>1. pc' = "locate" /\ seg' = seg + 1
    BY <1>3 DEF CheckRange
  <2>2. ASSUME NEW r \in LowMem..(AddrSpace - 1), Candidate(r, m) PROVE FALSE
    <3>1. r \in Nat /\ u <= r /\ r + z <= u + v /\ u + v < AddrSpace
      BY <1>1, <2>2, CandidateFacts
    <3>2. p <= r
      BY <1>1, <2>2 DEF RoomInv
    <3>3. u < AddrSpace /\ z \in Nat
      BY <1>1, SizeFacts DEF Usable
    <3>4. /\ Shrunk(m).addr = u /\ l \in Nat /\ u \in Nat /\ v \in Nat /\ l <= v
          /\ u + l = AddrSpace \/ l = v
      BY <1>1, <3>3, UsableFacts
    <3>5. ~ (W(p + z) <= W(u + l))
      BY <1>3, <3>4 DEF FitsIn, size
    <3> HIDE DEF m, p, z, l, u, v
    <3>6. l = v /\ u + l < AddrSpace
      BY <3>1, <3>4, Constants
    <3>7. W(p + z) = p + z /\ W(u + l) = u + l
      <4>1. p + z \in Nat /\ u + l \in Nat
        BY <1>1, <3>3, <3>4
      <4> QED
        BY <1>1, <3>6, <4>1, NoWrap
    <3> QED
      BY <1>1, <3>1, <3>2, <3>3, <3>4, <3>5, <3>6, <3>7
  <2>3. \A i \in 1..Len(mmap) : i < seg' =>
          \A r \in LowMem..(AddrSpace - 1) : ~Candidate(r, mmap[i])
    <3>1. \A i \in 1..Len(mmap) : i < seg' => i < seg \/ i = seg
      BY <1>1, <2>1
    <3> QED
      BY <1>1, <2>2, <3>1
  <2> QED
    BY <1>1, <2>1, <2>3 DEF RoomInv, Candidate, Room
<1> QED
  BY <1>2, <1>3

LEMMA NextRoom == LocationInv /\ RoomInv /\ [Next]_vars => RoomInv'
<1> SUFFICES ASSUME LocationInv, RoomInv, [Next]_vars PROVE RoomInv'
  OBVIOUS
<1>1. CASE sort_multiboot_mmap
  <2>1. pc = "sort_mmap" /\ pc' \in {"sort_mmap", "locate"} /\ seg' = 1 /\ mmap' \in Seq(MmapEntries)
    <3>1. LocationInv'
      BY <1>1, SortMmapLocation
    <3>2. pc = "sort_mmap" /\ seg = 1
      BY <1>1 DEF sort_multiboot_mmap, LocationInv, TriedInv
    <3> QED
      BY <1>1, <3>1, <3>2 DEF sort_multiboot_mmap, LocationInv, BootInv
  <2>2. \A i \in 1..Len(mmap') : ~ (i < seg')
    BY <2>1, LenProperties
  <2> QED
    BY <2>1, <2>2 DEF RoomInv
<1>2. CASE NextSegment
  BY <1>2, NextSegmentRoom
<1>3. CASE AvoidStructure
  BY <1>3, AvoidRoom
<1>4. CASE CheckRange
  BY <1>4, CheckRangeRoom
<1>5. CASE CheckFlags \/ sort_phys_mmap
  BY <1>5 DEF CheckFlags, sort_phys_mmap, Panic, RoomInv
<1>6. CASE fill_phys_mmap \/ pfa_init \/ paging_setup
  <2>1. pc' \notin {"locate", "avoid"}
    BY <1>6 DEF fill_phys_mmap, pfa_init, paging_setup, Panic
  <2> QED
    BY <2>1 DEF RoomInv
<1>7. CASE ReserveKernel \/ ReservePmm \/ ReserveModule
  <2>1. pc' \notin {"locate", "avoid"}
    BY <1>7 DEF ReserveKernel, ReservePmm, ReserveModule, reserve_region, Panic
  <2> QED
    BY <2>1 DEF RoomInv
<1>8. CASE UNCHANGED vars
  BY <1>8 DEF vars, RoomInv, Candidate, Room
<1> QED
  BY <1>1, <1>2, <1>3, <1>4, <1>5, <1>6, <1>7, <1>8 DEF Next

-----------------------------------------------------------------------------
(* Panics: an area cannot be reserved *)

\* Area a is in available entry m, which ends below 4 GiB.
Harbours(m, a) == m.type = AVAILABLE /\ Inside(a, m) /\ m.addr + m.len < AddrSpace

\* The kernel, the map and the module are apart from each other.
LEMMA InUseApart ==
  ASSUME LocationInv, Located, NEW i \in 1..Len(InUse), NEW j \in 1..Len(InUse), i # j
  PROVE  Apart(InUse[i], InUse[j])
<1>1. Apart(Pmm, Kernel(boot)) /\ ApartFromAll(Pmm, MultibootAreas(boot)) /\ boot \in Machines
  BY SafeInv DEF MapLocationIsSafe, LocationInv, BootInv
<1>2. ASSUME ModuleLoaded(boot)
      PROVE  Apart(Module(boot), Kernel(boot)) /\ Apart(Pmm, Module(boot))
  <2> DEFINE areas == MultibootAreas(boot)
  <2>1. Module(boot) \in Members(areas)
    BY <1>2, ModuleIsAnArea
  <2>2. areas \in Seq(Areas)
    BY <1>1, MachineTypes
  <2>3. Apart(Module(boot), Kernel(boot))
    BY <1>1, <2>1, AreaFacts
  <2> HIDE DEF areas
  <2>4. PICK k \in 1..Len(areas) : Module(boot) = areas[k]
    BY <2>1 DEF Members
  <2>5. k \in DOMAIN areas
    BY <2>2, LenProperties
  <2> QED
    BY <1>1, <2>3, <2>4, <2>5 DEF ApartFromAll, areas
<1>3. \A a, b : Apart(a, b) => Apart(b, a)
  BY DEF Apart
<1>4. /\ i = 1 \/ i = 2 \/ (i = 3 /\ ModuleLoaded(boot))
      /\ j = 1 \/ j = 2 \/ (j = 3 /\ ModuleLoaded(boot))
  <2>1. CASE ModuleLoaded(boot)
    BY <2>1, InUseIs
  <2>2. CASE ~ModuleLoaded(boot)
    BY <2>2, InUseIs
  <2> QED
    BY <2>1, <2>2
<1> DEFINE A == Kernel(boot)
           B == Pmm
           C == Module(boot)
           D(x, y) == Apart(x, y)
<1>5. D(A, B) /\ D(B, A) /\ (ModuleLoaded(boot) => D(A, C) /\ D(C, A) /\ D(B, C) /\ D(C, B))
  BY <1>1, <1>2, <1>3
<1> HIDE DEF D, A, B, C
<1>6. InUse[1] = A /\ InUse[2] = B /\ (ModuleLoaded(boot) => InUse[3] = C)
  BY InUseIs DEF A, B, C
<1>7. D(InUse[i], InUse[j])
  BY <1>4, <1>5, <1>6
<1> QED
  BY <1>7 DEF D

\* An available entry of the map that covers the first byte of an area not yet
\* reserved, in available memory, holds it all: only edges split entries.
LEMMA EntryHolds ==
  ASSUME LocationInv, MapInv, Reserving,
         NEW j \in 1..Len(boot.mmap), Harbours(boot.mmap[j], Current), Current.len > 0
  PROVE  \E i \in 1..Len(pmm) :
           /\ pmm[i].type = AVAILABLE
           /\ pmm[i].addr <= Current.addr
           /\ Current.addr + Current.len <= pmm[i].addr + pmm[i].len
           /\ pmm[i].addr + pmm[i].len < AddrSpace
<1> DEFINE a == Current
           r == nb_reserved
           c == a.addr
           d == a.len
           m == boot.mmap[j]
           f == m.addr
           g == m.len
<1>1. MapOK(pmm) /\ Pieces(pmm) /\ BytesInv(pmm) /\ boot \in Machines /\ Located
  BY DEF MapInv, LocationInv, BootInv, Reserving, Located
<1>2. r \in 0..2 /\ r + 1 \in 1..Len(InUse) /\ a = InUse[r + 1] /\ Len(InUse) \in Nat
  <2>1. r \in 0..2 /\ r + 1 \in 1..Len(InUse) /\ a = InUse[r + 1]
    BY CurrentIs
  <2>2. Len(InUse) \in Nat
    <3>1. CASE ModuleLoaded(boot)
      BY <3>1, InUseIs
    <3>2. CASE ~ModuleLoaded(boot)
      BY <3>2, InUseIs
    <3> QED
      BY <3>1, <3>2
  <2> QED
    BY <2>1, <2>2
<1>3. c \in Nat /\ d \in Nat /\ d > 0 /\ c + d < AddrSpace
  BY <1>1, <1>2, InUseFacts
<1>4. f \in Nat /\ g \in Nat
  BY BootEntry
<1>5. m.type = AVAILABLE /\ f <= c /\ c + d <= f + g /\ f + g < AddrSpace
  BY DEF Harbours, Inside
<1>6. \A k \in 1..Len(InUse) :
        /\ InUse[k].addr \in Nat /\ InUse[k].len \in Nat
        /\ k # r + 1 => \/ InUse[k].addr + InUse[k].len <= c
                        \/ c + d <= InUse[k].addr
  <2> TAKE k \in 1..Len(InUse)
  <2>1. InUse[k].addr \in Nat /\ InUse[k].len \in Nat
    BY <1>1, InUseFacts
  <2>2. k # r + 1 => Apart(InUse[k], InUse[r + 1])
    BY <1>1, <1>2, InUseApart
  <2> QED
    BY <1>2, <2>1, <2>2 DEF Apart
<1> HIDE DEF a, r, c, d, m, f, g
<1>7. c \notin Taken
  <2> SUFFICES ASSUME c \in Taken PROVE FALSE
    OBVIOUS
  <2>1. PICK k \in 1..r : c \in Bytes((<<Kernel(boot), Pmm, Module(boot)>>)[k])
    BY DEF Taken, r
  <2>2. k \in 1..Len(InUse) /\ k # r + 1
    BY <1>2
  <2>3. c \in Bytes(InUse[k])
    BY <2>1, <2>2, AreaTaken
  <2> DEFINE x == InUse[k].addr
             y == InUse[k].len
  <2>4. x \in Nat /\ y \in Nat /\ c \in x..(x + y - 1) /\ (x + y <= c \/ c + d <= x)
    BY <1>6, <2>2, <2>3 DEF Bytes
  <2> HIDE DEF x, y
  <2> QED
    BY <1>3, <2>4
<1>8. PICK i \in 1..Len(pmm) : pmm[i].type = AVAILABLE /\ Covers(pmm[i], c)
  <2>1. c \in 0..(AddrSpace - 1)
    BY <1>3, Constants
  <2>2. Covers(m, c)
    BY <1>3, <1>4, <1>5 DEF Covers, f, g
  <2>3. HasByte(boot.mmap, AVAILABLE, c)
    BY <1>5, <2>2 DEF HasByte, m
  <2>4. HasByte(pmm, AVAILABLE, c)
    BY <1>1, <1>7, <2>1, <2>3 DEF BytesInv
  <2> QED
    BY <2>4 DEF HasByte
<1> DEFINE u == pmm[i].addr
           l == pmm[i].len
<1>9. u \in Nat /\ l \in Nat /\ u <= c /\ c < u + l
  BY <1>1, <1>8, EntryOf DEF MapOK, Covers
<1>10. PICK k \in 1..Len(boot.mmap) : Piece(pmm[i], boot.mmap[k])
  BY <1>1 DEF Pieces
<1> DEFINE e == boot.mmap[k].addr
           h == boot.mmap[k].len
           t == Shrunk(boot.mmap[k]).len
<1>11. /\ e \in Nat /\ h \in Nat /\ t \in Nat /\ t <= h /\ e < AddrSpace
       /\ Shrunk(boot.mmap[k]).addr = e
       /\ e + t = AddrSpace \/ t = h
  <2>1. e < AddrSpace
    BY <1>10 DEF Piece
  <2> QED
    BY <2>1, BootEntry
<1>12. /\ e <= u /\ u + l <= e + t
       /\ u + l = e + t \/ Edge(u + l)
  BY <1>10, <1>11 DEF Piece, Inside
<1> HIDE DEF u, l, e, h, t
<1>13. k = j
  <2>1. WellLoaded(boot) /\ DOMAIN boot.mmap = 1..Len(boot.mmap)
    BY <1>1, BootAssumption, MachineTypes, LenProperties
  <2>2. k = j \/ e + h <= f \/ f + g <= e
    BY <2>1 DEF WellLoaded, Apart, e, h, f, g, m
  <2>3. ~ (e + h <= f)
    BY <1>4, <1>5, <1>9, <1>11, <1>12, <1>3
  <2>4. ~ (f + g <= e)
    BY <1>4, <1>5, <1>9, <1>11, <1>12, <1>3
  <2> QED
    BY <2>2, <2>3, <2>4
<1>14. e = f /\ h = g /\ t = g
  <2>1. e = f /\ h = g
    BY <1>13 DEF e, h, f, g, m
  <2> QED
    BY <1>4, <1>5, <1>11, <2>1, Constants
<1>15. u + l < AddrSpace
  BY <1>4, <1>5, <1>9, <1>12, <1>14, Constants
<1>16. c + d <= u + l
  <2>1. CASE u + l = e + t
    BY <1>5, <1>14, <2>1
  <2>2. CASE Edge(u + l)
    <3>1. PICK n \in 1..Len(InUse) :
            u + l = InUse[n].addr \/ u + l = InUse[n].addr + InUse[n].len
      BY <2>2 DEF Edge
    <3> DEFINE x == InUse[n].addr
               y == InUse[n].len
    <3>2. CASE n = r + 1
      <4>1. u + l = c \/ u + l = c + d
        BY <1>2, <3>1, <3>2 DEF c, d
      <4> QED
        BY <1>3, <1>9, <4>1
    <3>3. CASE n # r + 1
      <4>1. /\ x \in Nat /\ y \in Nat /\ (x + y <= c \/ c + d <= x)
            /\ u + l = x \/ u + l = x + y
        BY <1>6, <3>1, <3>3
      <4> HIDE DEF x, y
      <4> QED
        BY <1>3, <1>9, <4>1
    <3> QED
      BY <3>2, <3>3
  <2> QED
    BY <1>12, <2>1, <2>2
<1> QED
  BY <1>8, <1>9, <1>15, <1>16 DEF u, l, c, d, a

\* reserve_region() does not panic on such an area.
LEMMA CanReserve ==
  ASSUME LocationInv, MapInv, Reserving,
         NEW j \in 1..Len(boot.mmap), Harbours(boot.mmap[j], Current), Current.len > 0,
         NEW next, next # "panic", reserve_region(Current, next)
  PROVE  pc' # "panic"
<1> DEFINE a == Current
           c == a.addr
           d == a.len
           H == Holders(a)
           n == Min(H)
           u == pmm[n].addr
           l == pmm[n].len
           at == IF c > u THEN c ELSE W(c + d)
<1>1. MapOK(pmm) /\ Located
  BY DEF MapInv, Reserving, Located
<1>2. nb_reserved \in 0..2 /\ c \in Nat /\ d \in Nat /\ d > 0 /\ c + d < AddrSpace
  BY <1>1, CurrentIs, InUseFacts
<1>3. PICK i \in 1..Len(pmm) :
        /\ pmm[i].type = AVAILABLE /\ pmm[i].addr <= c
        /\ c + d <= pmm[i].addr + pmm[i].len
        /\ pmm[i].addr + pmm[i].len < AddrSpace
  BY EntryHolds
<1>4. i \in H
  <2> DEFINE x == pmm[i].addr
             y == pmm[i].len
  <2>1. x \in Nat /\ y \in Nat /\ x <= c /\ c + d <= x + y /\ x + y < AddrSpace
        /\ i \in DOMAIN pmm
    BY <1>1, <1>3, EntryOf, LenProperties DEF MapOK
  <2> HIDE DEF x, y, c, d
  <2>2. W(c + d) = c + d /\ W(x + y) = x + y /\ c >= x
    <3>1. c + d \in Nat /\ x + y \in Nat /\ c >= x
      BY <1>2, <2>1
    <3> QED
      BY <1>2, <2>1, <3>1, NoWrap
  <2>3. W(c + d) <= W(x + y)
    BY <2>1, <2>2
  <2> QED
    BY <1>3, <2>1, <2>2, <2>3 DEF Holders, x, y, c, d
<1>5. H # {}
  BY <1>4
<1>6. /\ n \in 1..Len(pmm) /\ u <= c /\ W(c + d) = c + d
      /\ c + d > 0 => W(u + l) = u + l /\ c + d <= u + l
  <2> HIDE DEF a
  <2> QED
    BY <1>1, <1>2, <1>5, HolderFacts
<1>7. u \in Nat /\ l \in Nat
  BY <1>1, <1>6, EntryOf DEF MapOK
<1>8. l = d \/ Splittable(n, at)
  <2>1. Splittable(n, at) <=> u < at /\ at < W(u + l)
    BY DEF Splittable
  <2> HIDE DEF c, d, u, l, n
  <2>2. c + d > 0
    BY <1>2
  <2>3. ASSUME l # d PROVE u < at /\ at < W(u + l)
    <3>1. CASE c > u
      BY <1>2, <1>6, <1>7, <2>2, <3>1
    <3>2. CASE ~ (c > u)
      <4>1. c = u
        BY <1>2, <1>6, <1>7, <3>2
      <4> QED
        BY <1>2, <1>6, <1>7, <2>2, <2>3, <3>2, <4>1
    <3> QED
      BY <3>1, <3>2
  <2> QED
    BY <2>1, <2>3
<1>9. pc # "panic"
  BY DEF Reserving
<1>10. nb_reserved # MAX_RESERVED
  BY <1>2 DEF MAX_RESERVED
<1>11. pc' = next \/ pc' = pc
  BY <1>5, <1>8, <1>10 DEF reserve_region
<1> QED
  BY <1>9, <1>11

\* The segment of the map ends below 4 GiB.
LEMMA PmmHarboured ==
  ASSUME LocationInv, Located
  PROVE  \E j \in 1..Len(boot.mmap) : Harbours(boot.mmap[j], Pmm)
<1>1. PICK i \in 1..Len(mmap) :
        /\ Usable(mmap[i]) /\ Inside(Pmm, Shrunk(mmap[i]))
        /\ mmap[i].addr + Shrunk(mmap[i]).len < AddrSpace
  BY DEF LocationInv, PlacedInv
<1> DEFINE m == mmap[i]
           u == m.addr
           v == m.len
           l == Shrunk(m).len
<1>2. m.type = AVAILABLE /\ u < AddrSpace
  BY <1>1 DEF Usable
<1>3. /\ u \in Nat /\ v \in Nat /\ l \in Nat /\ (u + l = AddrSpace \/ l = v)
      /\ Shrunk(m).addr = u
  BY <1>2, UsableFacts
<1>4. l = v /\ u + l < AddrSpace
  <2>1. u + l < AddrSpace
    BY <1>1
  <2> HIDE DEF u, v, l
  <2> QED
    BY <1>3, <2>1, Constants
<1>5. Harbours(m, Pmm)
  BY <1>1, <1>2, <1>3, <1>4 DEF Harbours, Inside
<1>6. PICK j \in 1..Len(boot.mmap) : boot.mmap[j] = m
  <2>1. m \in Members(boot.mmap)
    BY UsableFacts
  <2> QED
    BY <2>1 DEF Members
<1> QED
  BY <1>5, <1>6

\* And so does that of the kernel: behind one that does not there is no place
\* for the map, and within it the map was refused.
LEMMA KernelHarboured ==
  ASSUME LocationInv, Located
  PROVE  \E j \in 1..Len(boot.mmap) : Harbours(boot.mmap[j], Kernel(boot))
<1>1. boot \in Machines /\ Behind
  BY DEF LocationInv, BootInv, PlacedInv
<1>2. WellLoaded(boot) /\ DOMAIN boot.mmap = 1..Len(boot.mmap)
  BY <1>1, BootAssumption, MachineTypes, LenProperties
<1>3. PICK j \in 1..Len(boot.mmap) :
        boot.mmap[j].type = AVAILABLE /\ Inside(Kernel(boot), boot.mmap[j])
  BY <1>2 DEF WellLoaded
<1>4. PICK i \in 1..Len(boot.mmap) : Harbours(boot.mmap[i], Pmm)
  BY PmmHarboured
<1>5. i = j \/ Apart(boot.mmap[i], boot.mmap[j])
  BY <1>2 DEF WellLoaded
<1> DEFINE u == boot.mmap[j].addr
           v == boot.mmap[j].len
           x == boot.mmap[i].addr
           y == boot.mmap[i].len
           p == pmm_addr
           z == size
           k == boot.kernel_end
<1>6. u \in Nat /\ v \in Nat /\ x \in Nat /\ y \in Nat
  BY BootEntry
<1>7. /\ z \in Nat /\ k \in Nat /\ k > LowMem /\ p \in Nat /\ p > k /\ p + z < AddrSpace
  BY <1>1, SizeFacts DEF Behind
<1>8. u <= LowMem
  BY <1>3 DEF Inside, Kernel, Area, kernel_start
<1>9. x <= p /\ p + z <= x + y /\ x + y < AddrSpace
  BY <1>4 DEF Harbours, Inside, Pmm, Area, size
<1>10. i = j \/ x + y <= u \/ u + v <= x
  BY <1>5 DEF Apart
<1>11. i = j => x = u /\ y = v
  OBVIOUS
<1> HIDE DEF u, v, x, y, p, z, k
<1>12. ~ (x + y <= u)
  BY <1>6, <1>7, <1>8, <1>9, Constants
<1>13. u + v < AddrSpace
  BY <1>6, <1>7, <1>9, <1>10, <1>11, <1>12, Constants
<1> QED
  BY <1>3, <1>13 DEF Harbours, u, v

LEMMA KernelPanics ==
  ASSUME LocationInv, MapInv, ReserveKernel
  PROVE  pc' # "panic"
<1>1. pc = "kernel" /\ reserve_region(Kernel(boot), "pmm")
  BY DEF ReserveKernel
<1>2. Reserving /\ Located /\ Current = Kernel(boot)
  BY <1>1 DEF Reserving, Located, Current
<1>3. PICK j \in 1..Len(boot.mmap) : Harbours(boot.mmap[j], Kernel(boot))
  BY <1>2, KernelHarboured
<1>4. Kernel(boot).len > 0
  <2> DEFINE k == boot.kernel_end
  <2>1. k \in Nat /\ k > LowMem /\ Kernel(boot).len = k - LowMem
    BY SizeFacts DEF Kernel, Area, kernel_start
  <2> HIDE DEF k
  <2>2. k - LowMem > 0
    BY <2>1, Constants
  <2> QED
    BY <2>1, <2>2
<1> QED
  BY <1>1, <1>2, <1>3, <1>4, CanReserve

LEMMA PmmPanics ==
  ASSUME LocationInv, MapInv, ReservePmm
  PROVE  pc' # "panic"
<1> DEFINE next == IF ModuleLoaded(boot) THEN "module" ELSE "pfa"
<1>1. pc = "pmm" /\ reserve_region(Pmm, next)
  BY DEF ReservePmm
<1>2. Reserving /\ Located /\ Current = Pmm
  BY <1>1 DEF Reserving, Located, Current
<1>3. PICK j \in 1..Len(boot.mmap) : Harbours(boot.mmap[j], Pmm)
  BY <1>2, PmmHarboured
<1>4. Pmm.len > 0
  <2> DEFINE n == MapEntries(boot)
             a == Sizeof.pmm
             b == Sizeof.pmme
  <2>1. n \in Nat /\ a \in Nat /\ a > 0 /\ b \in Nat
    BY MachineTypes, BootAssumption DEF LocationInv, BootInv
  <2>2. Pmm.len = a + n * b
    BY DEF Pmm, Area, phys_mem_map_size
  <2> HIDE DEF n, a, b
  <2>3. n * b \in Nat
    BY <2>1
  <2>4. a + n * b > 0
    BY <2>1, <2>3
  <2> QED
    BY <2>2, <2>4
<1>5. next # "panic"
  OBVIOUS
<1> HIDE DEF next
<1> QED
  BY <1>1, <1>2, <1>3, <1>4, <1>5, CanReserve

\* The entries of the multiboot map, sorted and as they were.
LEMMA SameEntries ==
  ASSUME LocationInv, NEW i \in DOMAIN mmap
  PROVE  i \in 1..Len(mmap) /\ \E j \in 1..Len(boot.mmap) : boot.mmap[j] = mmap[i]
<1>1. i \in 1..Len(mmap)
  BY LenProperties DEF LocationInv, BootInv
<1>2. mmap[i] \in Members(boot.mmap)
  BY <1>1, UsableFacts
<1> QED
  BY <1>1, <1>2 DEF Members

LEMMA ModulePanics ==
  ASSUME LocationInv, MapInv, ReserveModule, pc' = "panic"
  PROVE  \/ boot.mod_start = boot.mod_end
         \/ \A i \in DOMAIN mmap :
              mmap[i].type = AVAILABLE /\ Inside(Module(boot), mmap[i])
                => EndWraps(mmap[i])
<1> SUFFICES ASSUME boot.mod_start # boot.mod_end, NEW i \in DOMAIN mmap,
                    mmap[i].type = AVAILABLE, Inside(Module(boot), mmap[i]),
                    ~ EndWraps(mmap[i])
             PROVE  FALSE
  OBVIOUS
<1>0. Harbours(mmap[i], Module(boot))
  <2> DEFINE u == mmap[i].addr
             v == mmap[i].len
  <2>1. u \in Nat /\ v \in Nat /\ ~ (u + v >= AddrSpace)
    BY SameEntries, UsableFacts DEF EndWraps
  <2> HIDE DEF u, v
  <2>2. u + v < AddrSpace
    BY <2>1, Constants
  <2> QED
    BY <2>2 DEF Harbours, u, v
<1>1. pc = "module" /\ reserve_region(Module(boot), "pfa")
  BY DEF ReserveModule
<1>2. Reserving /\ Current = Module(boot)
  BY <1>1 DEF Reserving, Current
<1>3. PICK j \in 1..Len(boot.mmap) : boot.mmap[j] = mmap[i]
  BY SameEntries
<1>4. Module(boot).len > 0
  <2> DEFINE s == boot.mod_start
             e == boot.mod_end
  <2>1. s \in Nat /\ e \in Nat /\ s <= e /\ s # e /\ Module(boot).len = e - s
    BY MachineTypes DEF Module, Area, LocationInv, BootInv
  <2> HIDE DEF s, e
  <2>2. e - s > 0
    BY <2>1
  <2> QED
    BY <2>1, <2>2
<1> QED
  BY <1>0, <1>1, <1>2, <1>3, <1>4, CanReserve

-----------------------------------------------------------------------------
(* Panics: there is no room for the metadata of the page frame allocator *)

LEMMA FreePageFacts ==
  ASSUME LocationInv, NEW j \in 1..Len(boot.mmap), NEW x, x \in FreePagesOf(boot.mmap[j])
  PROVE  /\ x \in Nat /\ boot.mmap[j].type = AVAILABLE
         /\ LowMem <= AddrOf(x) /\ AddrOf(x) + PageSize <= AddrSpace
         /\ boot.mmap[j].addr <= AddrOf(x)
         /\ AddrOf(x) + PageSize <= boot.mmap[j].addr + boot.mmap[j].len
         /\ \A k \in 1..Len(InUse) :
              \/ AddrOf(x) + PageSize <= InUse[k].addr
              \/ InUse[k].addr + InUse[k].len <= AddrOf(x)
<1> DEFINE lo == LowMem \div PageSize
           hi == AddrSpace \div PageSize
<1>1. lo \in Nat /\ hi \in Nat /\ LowMem = AddrOf(lo) /\ AddrSpace = AddrOf(hi)
  BY Constants, PageNumber
<1>2. DOMAIN InUse = 1..Len(InUse)
  BY LenProperties DEF InUse
<1>3. /\ x \in lo..(hi - 1) /\ boot.mmap[j].type = AVAILABLE
      /\ Inside(PageArea(x), boot.mmap[j]) /\ ApartFromAll(PageArea(x), InUse)
  BY DEF FreePagesOf
<1> HIDE DEF lo, hi
<1>4. x \in Nat /\ lo <= x /\ x < hi
  BY <1>1, <1>3
<1>5. LowMem <= AddrOf(x) /\ AddrOf(x) + PageSize <= AddrSpace
  BY <1>1, <1>4, Pages
<1>6. /\ boot.mmap[j].addr <= AddrOf(x)
      /\ AddrOf(x) + PageSize <= boot.mmap[j].addr + boot.mmap[j].len
  BY <1>3, <1>4, PageAreaIs DEF Inside
<1>7. \A k \in 1..Len(InUse) :
         \/ AddrOf(x) + PageSize <= InUse[k].addr
         \/ InUse[k].addr + InUse[k].len <= AddrOf(x)
  BY <1>2, <1>3, <1>4, PageAreaIs DEF ApartFromAll, Apart
<1> QED
  BY <1>3, <1>4, <1>5, <1>6, <1>7

\* Two free pages in a row are in the same entry: an entry ends with its segment
\* or at the edge of an area in use, which is not empty.
LEMMA SameEntry ==
  ASSUME LocationInv, MapInv, pc = "pfa", NEW j \in 1..Len(boot.mmap),
         NEW x \in Nat, x \in FreePagesOf(boot.mmap[j]),
         x + 1 \in FreePagesOf(boot.mmap[j]),
         NEW e \in Valid, InEntry(x, e)
  PROVE  InEntry(x + 1, e)
<1> DEFINE m == boot.mmap[j]
           c == m.addr
           d == m.len
           w == AddrOf(x)
           y == AddrOf(x + 1)
           u == pmm[e].addr
           l == pmm[e].len
           F == FirstPage(e)
           N == EntryPages(e)
           t == AddrOf(F + N)
<1>1. MapOK(pmm) /\ Pieces(pmm) /\ boot \in Machines
  BY DEF MapInv, LocationInv, BootInv
<1>2. F \in Nat /\ N \in Nat /\ e \in 1..Len(pmm) /\ u + l < t + PageSize
  BY <1>1, ValidFacts
<1>3. u \in Nat /\ l \in Nat
  BY <1>1, <1>2, EntryOf DEF MapOK
<1>4. F <= x /\ x < F + N
  BY DEF InEntry
<1>5. u <= w /\ w + PageSize <= u + l
  BY <1>4, ValidIsFree
<1>6. x + 1 \in Nat /\ y = w + PageSize /\ w \in Nat /\ y \in Nat
  <2>1. x + 1 \in Nat
    OBVIOUS
  <2>2. w \in Nat /\ y \in Nat
    BY <2>1, Pages
  <2>3. y = w + PageSize
    BY Pages
  <2> QED
    BY <2>1, <2>2, <2>3
<1>7. /\ c <= w /\ y + PageSize <= c + d /\ y + PageSize <= AddrSpace
      /\ \A k \in 1..Len(InUse) :
           /\ w + PageSize <= InUse[k].addr \/ InUse[k].addr + InUse[k].len <= w
           /\ y + PageSize <= InUse[k].addr \/ InUse[k].addr + InUse[k].len <= y
  <2> HIDE DEF y
  <2>1. /\ y + PageSize <= c + d /\ y + PageSize <= AddrSpace
        /\ \A k \in 1..Len(InUse) :
             y + PageSize <= InUse[k].addr \/ InUse[k].addr + InUse[k].len <= y
    BY FreePageFacts DEF y
  <2>2. /\ c <= w
        /\ \A k \in 1..Len(InUse) :
             w + PageSize <= InUse[k].addr \/ InUse[k].addr + InUse[k].len <= w
    BY FreePageFacts
  <2> QED
    BY <2>1, <2>2
<1>8. c \in Nat /\ d \in Nat
  BY BootEntry
<1>9. \A k \in 1..Len(InUse) :
        InUse[k].addr \in Nat /\ InUse[k].len \in Nat /\ InUse[k].len > 0
  BY AllTaken
<1>10. PICK k \in 1..Len(boot.mmap) : Piece(pmm[e], boot.mmap[k])
  BY <1>1, <1>2 DEF Pieces
<1> DEFINE f == boot.mmap[k].addr
           g == boot.mmap[k].len
           s == Shrunk(boot.mmap[k]).len
<1>11. /\ f \in Nat /\ g \in Nat /\ s \in Nat /\ s <= g /\ f < AddrSpace
       /\ Shrunk(boot.mmap[k]).addr = f
       /\ f + s = AddrSpace \/ s = g
  <2>1. f < AddrSpace
    BY <1>10 DEF Piece
  <2> QED
    BY <2>1, BootEntry
<1>12. f <= u /\ u + l <= f + s /\ (u + l = f + s \/ Edge(u + l))
  BY <1>10, <1>11 DEF Piece, Inside
<1>13. t \in Nat /\ (y < t => x + 1 < F + N)
  <2>1. F + N \in Nat
    BY <1>2
  <2> HIDE DEF F, N
  <2> QED
    BY <1>6, <2>1, Pages
<1>14. PageSize \in Nat /\ PageSize > 0 /\ AddrSpace \in Nat
  BY Constants
<1>15. k = j \/ f + g <= c \/ c + d <= f
  <2>1. WellLoaded(boot) /\ DOMAIN boot.mmap = 1..Len(boot.mmap)
    BY <1>1, BootAssumption, MachineTypes, LenProperties
  <2> QED
    BY <2>1 DEF WellLoaded, Apart
<1>16. k = j => f = c /\ g = d
  OBVIOUS
<1> HIDE DEF m, c, d, w, y, u, l, t, f, g, s
<1>17. k = j
  <2>1. ~ (f + g <= c)
    BY <1>3, <1>5, <1>6, <1>7, <1>8, <1>11, <1>12, <1>14
  <2>2. ~ (c + d <= f)
    BY <1>3, <1>5, <1>6, <1>7, <1>8, <1>11, <1>12, <1>14
  <2> QED
    BY <1>15, <2>1, <2>2
<1>18. y + PageSize <= f + s
  BY <1>7, <1>8, <1>11, <1>16, <1>17
<1>19. y + PageSize <= u + l
  <2> SUFFICES ASSUME u + l < y + PageSize PROVE FALSE
    BY <1>3, <1>6, <1>14
  <2>1. y <= u + l
    BY <1>5, <1>6
  <2>2. Edge(u + l)
    BY <1>3, <1>6, <1>11, <1>12, <1>14, <1>18
  <2>3. PICK n \in 1..Len(InUse) :
          u + l = InUse[n].addr \/ u + l = InUse[n].addr + InUse[n].len
    BY <2>2 DEF Edge
  <2> DEFINE a == InUse[n].addr
             b == InUse[n].len
  <2>4. /\ a \in Nat /\ b \in Nat /\ b > 0
        /\ w + PageSize <= a \/ a + b <= w
        /\ y + PageSize <= a \/ a + b <= y
        /\ u + l = a \/ u + l = a + b
    BY <1>7, <1>9, <2>3
  <2> HIDE DEF a, b
  <2> QED
    BY <1>3, <1>6, <1>14, <2>1, <2>4
<1>20. y < t
  BY <1>2, <1>3, <1>6, <1>13, <1>14, <1>19
<1>21. x + 1 < F + N /\ F <= x + 1
  BY <1>2, <1>4, <1>13, <1>20
<1> QED
  BY <1>6, <1>21 DEF InEntry

LEMMA PfaPanics ==
  ASSUME LocationInv, MapInv, pfa_init, pc' = "panic"
  PROVE  ~\E i \in DOMAIN mmap : MetaRoom(mmap[i])
<1> DEFINE z == pfa_meta_size
           n == z \div PageSize
<1>1. pc = "pfa" /\ Hosts(z) = {}
  BY DEF pfa_init
<1> SUFFICES ASSUME NEW i \in DOMAIN mmap, MetaRoom(mmap[i]) PROVE FALSE
  OBVIOUS
<1>2. PICK j \in 1..Len(boot.mmap) : boot.mmap[j] = mmap[i]
  BY SameEntries
<1> DEFINE free == FreePagesOf(boot.mmap[j])
<1>3. PICK p \in free : p..(p + n - 1) \subseteq free
  BY <1>2 DEF MetaRoom
<1>4. z \in Nat /\ z % PageSize = 0 /\ n \in Nat /\ z = AddrOf(n)
  BY <1>1, MetaFits, PageNumber
<1>5. MapOK(pmm) /\ p \in Nat
  BY <1>1, FreePageFacts DEF MapInv
<1>6. PICK e \in Valid : InEntry(p, e)
  <2>1. /\ boot.mmap[j].type = AVAILABLE
        /\ LowMem <= AddrOf(p) /\ AddrOf(p) + PageSize <= AddrSpace
        /\ boot.mmap[j].addr <= AddrOf(p)
        /\ AddrOf(p) + PageSize <= boot.mmap[j].addr + boot.mmap[j].len
        /\ \A k \in 1..Len(InUse) :
             \/ AddrOf(p) + PageSize <= InUse[k].addr
             \/ InUse[k].addr + InUse[k].len <= AddrOf(p)
    BY FreePageFacts
  <2>2. \E e \in Valid : FirstPage(e) <= p /\ p < FirstPage(e) + EntryPages(e)
    BY <1>1, <1>5, <2>1, FreeIsValid
  <2> QED
    BY <1>5, <2>2 DEF InEntry
<1> HIDE DEF z, n, free
<1> DEFINE H == {k \in Nat : k < n => InEntry(p + k, e)}
<1>7. 0 \in H
  <2>1. p + 0 = p
    BY <1>5
  <2> QED
    BY <1>6, <2>1
<1>8. ASSUME NEW k \in Nat, k \in H PROVE k + 1 \in H
  <2> SUFFICES ASSUME k + 1 < n PROVE InEntry(p + (k + 1), e)
    OBVIOUS
  <2> DEFINE x == p + k
  <2>1. /\ k < n /\ x \in Nat /\ p + (k + 1) = x + 1
        /\ x \in p..(p + n - 1) /\ x + 1 \in p..(p + n - 1)
    BY <1>4, <1>5
  <2>2. InEntry(x, e)
    BY <1>8, <2>1
  <2> HIDE DEF x
  <2>3. x \in free /\ x + 1 \in free
    BY <1>3, <2>1
  <2>4. InEntry(x + 1, e)
    BY <1>1, <2>1, <2>2, <2>3, SameEntry DEF free
  <2> QED
    BY <2>1, <2>4
<1> HIDE DEF H
<1>9. \A k \in Nat : k \in H
  BY <1>7, <1>8, Induction
<1> DEFINE F == FirstPage(e)
           N == EntryPages(e)
           t == pmm[e].addr + pmm[e].len
           L == AlignedLen(pmm[e])
<1>10. /\ F \in Nat /\ N \in Nat /\ L \in Nat /\ L = t - AddrOf(F) /\ AddrOf(F + N) <= t
       /\ e \in 1..Len(pmm)
  <2> DEFINE u == pmm[e].addr
             l == pmm[e].len
             a == AddrOf(F)
             q == AddrOf(F + N)
  <2>1. /\ F \in Nat /\ N \in Nat /\ L \in Nat /\ L = u + l - a /\ q <= u + l
        /\ e \in 1..Len(pmm)
    BY <1>5, ValidFacts
  <2>2. u \in Nat /\ l \in Nat /\ a \in Nat
    BY <1>5, <2>1, EntryOf, Pages DEF MapOK
  <2>3. t = u + l
    OBVIOUS
  <2> HIDE DEF u, l, a, q, t, L, F, N
  <2>4. L = t - a /\ q <= t
    BY <2>1, <2>2, <2>3
  <2> QED
    BY <2>1, <2>4 DEF a, q
<1>11. t \in Nat
  BY <1>5, <1>10, EntryOf DEF MapOK
<1>12. F <= p /\ (n > 0 => p + (n - 1) < F + N)
  <2>1. F <= p
    BY <1>6 DEF InEntry
  <2>2. ASSUME n > 0 PROVE p + (n - 1) < F + N
    <3>1. n - 1 \in Nat /\ n - 1 < n
      BY <1>4, <2>2
    <3>2. InEntry(p + (n - 1), e)
      BY <1>9, <3>1 DEF H
    <3> QED
      BY <3>2 DEF InEntry
  <2> QED
    BY <2>1, <2>2
<1> HIDE DEF F, N, t, L
<1>13. n <= N
  BY <1>4, <1>5, <1>10, <1>12
<1>14. /\ AddrOf(n) <= AddrOf(N) /\ AddrOf(F + N) = AddrOf(F) + AddrOf(N)
       /\ AddrOf(n) \in Nat /\ AddrOf(F) \in Nat /\ AddrOf(N) \in Nat
  BY <1>4, <1>10, <1>13, Pages
<1>15. L >= z
  <2> DEFINE a == AddrOf(n)
             b == AddrOf(F)
             c == AddrOf(N)
             q == AddrOf(F + N)
  <2>1. /\ a <= c /\ q = b + c /\ a \in Nat /\ b \in Nat /\ c \in Nat /\ z = a
        /\ L = t - b /\ q <= t
    BY <1>4, <1>10, <1>14
  <2> HIDE DEF a, b, c, q
  <2> QED
    BY <1>4, <1>10, <1>11, <2>1
<1>16. e \in Hosts(z)
  BY <1>15 DEF Hosts, L
<1> QED
  BY <1>1, <1>16

-----------------------------------------------------------------------------
(* Panics: there are too few frames, or a page would be mapped twice *)

LEMMA BootstrapSets ==
  /\ BootstrapPages[1] = PagesOf(kernel_start, page_align(boot.kernel_end + 1))
  /\ BootstrapPages[2] = PagesOf(VramStart, LowMem)
  /\ BootstrapPages[3] = MetaPages
  /\ ModuleLoaded(boot) => BootstrapPages[4] = PagesOf(boot.mod_start, boot.mod_end)
  /\ \A i \in DOMAIN BootstrapPages :
       i = 1 \/ i = 2 \/ i = 3 \/ (i = 4 /\ ModuleLoaded(boot))
<1> DEFINE a == PagesOf(kernel_start, page_align(boot.kernel_end + 1))
           b == PagesOf(VramStart, LowMem)
           c == MetaPages
           d == PagesOf(boot.mod_start, boot.mod_end)
           s == BootstrapPages
<1>1. CASE ModuleLoaded(boot)
  <2>1. s = <<a, b, c>> \o <<d>>
    BY <1>1 DEF BootstrapPages, MetaPages
  <2> HIDE DEF a, b, c, d, s
  <2>2. s[1] = a /\ s[2] = b /\ s[3] = c /\ s[4] = d /\ DOMAIN s = 1..4
    BY <2>1
  <2>3. \A i \in DOMAIN s : i = 1 \/ i = 2 \/ i = 3 \/ (i = 4 /\ ModuleLoaded(boot))
    BY <1>1, <2>2
  <2> QED
    BY <2>2, <2>3 DEF a, b, c, d, s
<1>2. CASE ~ModuleLoaded(boot)
  <2>1. s = <<a, b, c>> \o <<>>
    BY <1>2 DEF BootstrapPages, MetaPages
  <2> HIDE DEF a, b, c, d, s
  <2>2. s[1] = a /\ s[2] = b /\ s[3] = c /\ DOMAIN s = 1..3
    BY <2>1
  <2>3. \A i \in DOMAIN s : i = 1 \/ i = 2 \/ i = 3
    BY <2>2
  <2> QED
    BY <1>2, <2>2, <2>3 DEF a, b, c, d, s
<1> QED
  BY <1>1, <1>2

\* A page behind the kernel is among those mapped for it only if the kernel ends
\* on a page boundary, and then it is the next page.
LEMMA BehindKernel ==
  ASSUME LocationInv, NEW x \in Nat, boot.kernel_end <= AddrOf(x),
         AddrOf(x) < page_align(boot.kernel_end + 1)
  PROVE  boot.kernel_end % PageSize = 0 /\ x = boot.kernel_end \div PageSize
<1> DEFINE k == boot.kernel_end
           t == page_align(k + 1)
           y == AddrOf(x)
           T == t \div PageSize
           q == k \div PageSize
           w == AddrOf(T)
           v == AddrOf(q)
<1>1. k \in Nat /\ size \in Nat /\ k < AddrSpace - PageSize - size
  BY SizeFacts
<1>2. k <= y /\ y < t
  OBVIOUS
<1>3. y \in Nat /\ y % PageSize = 0
  BY Pages, AddrOfPage
<1>4. t \in Nat /\ t < (k + 1) + PageSize /\ t % PageSize = 0
  <2> DEFINE n == k + 1
  <2> HIDE DEF k
  <2>1. n \in Nat /\ n + PageSize <= AddrSpace
    BY <1>1, Constants
  <2> HIDE DEF n
  <2>2. page_align(n) \in Nat /\ page_align(n) < n + PageSize /\ page_align(n) % PageSize = 0
    BY <2>1, PageAlign
  <2> QED
    BY <2>2 DEF n
<1>5. T \in Nat /\ t = w
  BY <1>4, PageNumber
<1>6. q \in Nat /\ (k % PageSize = 0 => k = v)
  BY <1>1, PageNumber
<1> HIDE DEF k, t, T, q
<1>7. x < T => y + PageSize <= w
  BY <1>5, Pages
<1>8. T <= x => w <= y
  BY <1>5, Pages
<1>9. x < q => y + PageSize <= v
  BY <1>6, Pages
<1>10. q < x => v + PageSize <= y
  BY <1>6, Pages
<1>11. v \in Nat
  BY <1>6, Pages
<1> HIDE DEF y, w, v
<1>12. x < T
  BY <1>2, <1>3, <1>4, <1>5, <1>8
<1>13. y = k
  BY <1>1, <1>2, <1>3, <1>4, <1>5, <1>7, <1>12, Constants
<1>14. k % PageSize = 0 /\ v = y
  BY <1>3, <1>6, <1>13
<1>15. x = q
  BY <1>6, <1>9, <1>10, <1>11, <1>14, Constants
<1> QED
  BY <1>14, <1>15 DEF k, q

LEMMA BootstrapPanics ==
  ASSUME LocationInv, FramesAreTheFreePages, paging_setup, pc' = "panic"
  PROVE  TooFewFrames \/ NextPageUsed
<1> SUFFICES ASSUME ~ TooFewFrames PROVE NextPageUsed
  OBVIOUS
<1>1. /\ pc = "paging"
      /\ \E i, j \in DOMAIN BootstrapPages :
           i # j /\ BootstrapPages[i] \cap BootstrapPages[j] # {}
  <2>1. pc = "paging"
    BY DEF paging_setup
  <2>2. Frames = FreePages \ MetaPages
    BY <2>1 DEF FramesAreTheFreePages
  <2>3. ~ (Cardinality(Frames) < FramesToSetUp)
    BY <2>2 DEF TooFewFrames
  <2> QED
    BY <2>1, <2>3 DEF paging_setup
<1>2. PICK i, j \in DOMAIN BootstrapPages :
        i # j /\ BootstrapPages[i] \cap BootstrapPages[j] # {}
  BY <1>1
<1>3. PICK x : x \in BootstrapPages[i] /\ x \in BootstrapPages[j]
  BY <1>2
<1> DEFINE K == PagesOf(kernel_start, page_align(boot.kernel_end + 1))
           V == PagesOf(VramStart, LowMem)
           M == PagesOf(boot.mod_start, boot.mod_end)
           y == AddrOf(x)
           k == boot.kernel_end
           t == page_align(k + 1)
           s == boot.mod_start
           e == boot.mod_end
           ml == ModuleLoaded(boot)
<1>4. boot \in Machines /\ Located
  BY <1>1 DEF LocationInv, BootInv, Located
<1>5. k \in Nat /\ k > LowMem /\ t \in Nat /\ t > 0
  <2> DEFINE z == size
             q == k + 1
             top == Top(boot)
  <2>1. /\ z \in Nat /\ k \in Nat /\ k > LowMem
        /\ top \in Nat /\ top <= AddrSpace - PageSize - z /\ k < top
    BY SizeFacts
  <2>2. AddrSpace \in Nat /\ PageSize \in Nat
    BY Constants
  <2> HIDE DEF z, top, k
  <2>4. q \in Nat /\ q > 0 /\ q + PageSize <= AddrSpace
    BY <2>1, <2>2
  <2> HIDE DEF q
  <2>5. page_align(q) \in Nat /\ page_align(q) >= q
    BY <2>4, PageAlign
  <2>6. page_align(q) > 0
    BY <2>4, <2>5
  <2> QED
    BY <2>1, <2>5, <2>6 DEF q
<1>6. x \in K => x \in Nat /\ LowMem <= y /\ y < t
  BY <1>5, Constants, PagesOfFacts DEF kernel_start
<1>7. x \in V => x \in Nat /\ VramStart <= y /\ y < LowMem
  <2>1. VramStart % PageSize = 0 /\ VramStart \in Nat /\ LowMem \in Nat /\ LowMem > 0
    BY BootAssumption, Constants
  <2> QED
    BY <2>1, PagesOfFacts
<1>8. x \in M => x \in Nat /\ s \in Nat /\ e \in Nat /\ s <= y /\ y < e
  BY ModulePage
<1>9. ASSUME x \in MetaPages
      PROVE  /\ x \in Nat /\ LowMem <= y /\ k <= y
             /\ ml => y + PageSize <= s \/ s + (e - s) <= y
  <2>1. x \in FreePages
    BY <1>1, <1>9 DEF FramesAreTheFreePages
  <2>2. DOMAIN boot.mmap = 1..Len(boot.mmap)
    BY <1>4, MachineTypes, LenProperties
  <2>3. PICK n \in 1..Len(boot.mmap) : x \in FreePagesOf(boot.mmap[n])
    BY <2>1, <2>2 DEF FreePages
  <2>4. /\ x \in Nat /\ LowMem <= y
        /\ \A l \in 1..Len(InUse) :
             \/ y + PageSize <= InUse[l].addr
             \/ InUse[l].addr + InUse[l].len <= y
    BY <2>3, FreePageFacts
  <2>5. 1 \in 1..Len(InUse) /\ (ml => 3 \in 1..Len(InUse))
    BY InUseIs
  <2>6. /\ InUse[1].addr = LowMem /\ InUse[1].len = k - LowMem
        /\ ml => InUse[3].addr = s /\ InUse[3].len = e - s
    BY InUseIs DEF Kernel, Module, Area, kernel_start
  <2>7. y + PageSize <= LowMem \/ LowMem + (k - LowMem) <= y
    BY <2>4, <2>5, <2>6
  <2>8. ml => y + PageSize <= s \/ s + (e - s) <= y
    BY <2>4, <2>5, <2>6
  <2>9. y \in Nat
    BY <2>4, Pages
  <2>10. PageSize \in Nat /\ PageSize > 0 /\ LowMem \in Nat
    BY Constants
  <2> HIDE DEF k, y
  <2>11. k <= y
    BY <1>5, <2>4, <2>7, <2>9, <2>10
  <2> QED
    BY <2>4, <2>8, <2>11 DEF y
<1>10. x \in Nat => y \in Nat /\ y % PageSize = 0
  BY Pages, AddrOfPage
<1>11. x \in Nat /\ k <= y /\ y < t => k % PageSize = 0 /\ x = k \div PageSize
  BY BehindKernel
<1>12. ml => (e <= LowMem \/ k <= s) /\ (e <= VramStart \/ LowMem <= s) /\ s \in Nat /\ e \in Nat
  <2> SUFFICES ASSUME ml
               PROVE  (e <= LowMem \/ k <= s) /\ (e <= VramStart \/ LowMem <= s)
                      /\ s \in Nat /\ e \in Nat
    OBVIOUS
  <2>1. Apart(Module(boot), Kernel(boot)) /\ Apart(Module(boot), Vram)
    BY <1>4, ModuleIsAnArea, AreaFacts
  <2>2. s \in Nat /\ e \in Nat
    BY <1>4, MachineTypes
  <2>3. /\ s + (e - s) <= LowMem \/ LowMem + (k - LowMem) <= s
        /\ s + (e - s) <= VramStart \/ VramStart + (LowMem - VramStart) <= s
    BY <2>1 DEF Apart, Module, Kernel, Vram, Area, kernel_start
  <2> HIDE DEF s, e, k
  <2>4. LowMem \in Nat /\ VramStart \in Nat
    BY Constants
  <2> QED
    BY <1>5, <2>2, <2>3, <2>4
<1>13. PageSize \in Nat /\ PageSize > 0 /\ LowMem \in Nat /\ VramStart \in Nat
  BY Constants
<1>14. /\ x \in K \/ x \in V \/ x \in MetaPages \/ (ml /\ x \in M)
       /\ BootstrapPages[1] = K /\ BootstrapPages[2] = V /\ BootstrapPages[3] = MetaPages
       /\ ml => BootstrapPages[4] = M
       /\ i = 1 \/ i = 2 \/ i = 3 \/ (i = 4 /\ ml)
       /\ j = 1 \/ j = 2 \/ j = 3 \/ (j = 4 /\ ml)
  BY <1>3, BootstrapSets
<1> HIDE DEF K, V, M, y, k, t, s, e, ml
<1>15. ~ (x \in K /\ x \in V)
  BY <1>6, <1>7, <1>10, <1>13
<1>16. ASSUME x \in K, x \in MetaPages PROVE NextPageUsed
  <2>1. k % PageSize = 0 /\ x = k \div PageSize
    BY <1>6, <1>9, <1>11, <1>16
  <2> QED
    BY <1>16, <2>1 DEF NextPageUsed, k
<1>17. ASSUME ml, x \in K, x \in M PROVE NextPageUsed
  <2>1. k <= y
    BY <1>5, <1>6, <1>8, <1>10, <1>12, <1>13, <1>17
  <2>2. k % PageSize = 0 /\ x = k \div PageSize
    BY <1>6, <1>11, <1>17, <2>1
  <2> QED
    BY <1>17, <2>2 DEF NextPageUsed, k, ml, M
<1>18. ~ (x \in V /\ x \in MetaPages)
  BY <1>7, <1>9, <1>10, <1>13
<1>19. ~ (ml /\ x \in V /\ x \in M)
  BY <1>7, <1>8, <1>10, <1>12, <1>13
<1>20. ~ (ml /\ x \in MetaPages /\ x \in M)
  BY <1>8, <1>9, <1>10, <1>13
<1> QED
  BY <1>2, <1>3, <1>14, <1>15, <1>16, <1>17, <1>18, <1>19, <1>20

-----------------------------------------------------------------------------
(* Panics *)

LEMMA SegmentPanics ==
  ASSUME LocationInv, RoomInv, NextSegment, pc' = "panic"
  PROVE  \A i \in DOMAIN mmap : \A p \in LowMem..(AddrSpace - 1) :
           Room(p, mmap[i]) => EndWraps(mmap[i])
<1>1. pc = "locate" /\ seg > Len(mmap) /\ seg \in Nat /\ mmap \in Seq(MmapEntries)
  BY DEF NextSegment, LocationInv, BootInv, TriedInv
<1>2. DOMAIN mmap = 1..Len(mmap) /\ Len(mmap) \in Nat
  BY <1>1, LenProperties
<1>3. \A i \in 1..Len(mmap) : i < seg
  BY <1>1, <1>2
<1>4. \A i \in DOMAIN mmap : \A p \in LowMem..(AddrSpace - 1) : ~Candidate(p, mmap[i])
  BY <1>1, <1>2, <1>3 DEF RoomInv
<1> QED
  BY <1>4 DEF Candidate

LEMMA NextExplained ==
  ASSUME LocationInv, MapInv, RoomInv, FramesAreTheFreePages, [Next]_vars
  PROVE  [ExplainedPanic]_vars
<1> SUFFICES ASSUME Next, pc' = "panic" PROVE ExplainedPanic
  BY DEF ExplainedPanic
<1>1. CASE CheckFlags
  BY <1>1 DEF CheckFlags, ExplainedPanic
<1>2. CASE NextSegment
  <2>1. pc = "locate"
    BY <1>2 DEF NextSegment
  <2> QED
    BY <1>2, <2>1, SegmentPanics DEF ExplainedPanic
<1>3. CASE ReserveKernel
  BY <1>3, KernelPanics
<1>4. CASE ReservePmm
  BY <1>4, PmmPanics
<1>5. CASE ReserveModule
  <2>1. pc = "module"
    BY <1>5 DEF ReserveModule
  <2> QED
    BY <1>5, <2>1, ModulePanics DEF ExplainedPanic
<1>6. CASE pfa_init
  <2>1. pc = "pfa"
    BY <1>6 DEF pfa_init
  <2> QED
    BY <1>6, <2>1, PfaPanics DEF ExplainedPanic
<1>7. CASE paging_setup
  <2>1. pc = "paging"
    BY <1>7 DEF paging_setup
  <2> QED
    BY <1>7, <2>1, BootstrapPanics DEF ExplainedPanic
<1>8. CASE sort_phys_mmap \/ sort_multiboot_mmap \/ AvoidStructure \/ CheckRange
           \/ fill_phys_mmap
  BY <1>8 DEF sort_phys_mmap, sort_multiboot_mmap, AvoidStructure, CheckRange,
              fill_phys_mmap
<1> QED
  BY <1>1, <1>2, <1>3, <1>4, <1>5, <1>6, <1>7, <1>8 DEF Next

\* The panics of mem_init() are those that the property lists, whatever the
\* bootloader leaves.  find_pmm_location() misses room for the map only in a
\* region that reaches 4 GiB, which it means to use and refuses, and so does
\* reserve_region() for the module; the kernel and the map are always reserved;
\* find_hosting_region() misses no row of free pages; and paging_setup() panics
\* for lack of frames or since the page behind a kernel that ends on a page
\* boundary is in use, too.
THEOREM ExplainedPanics == Spec => PanicIsExplained
<1>1. Init => RoomInv
  BY DEF Init, RoomInv
<1>2. LocationInv /\ RoomInv /\ [Next]_vars => RoomInv'
  BY NextRoom
<1>3. LocationInv /\ MapInv /\ RoomInv /\ FramesAreTheFreePages /\ [Next]_vars
        => [ExplainedPanic]_vars
  BY NextExplained
<1> QED
  BY <1>1, <1>2, <1>3, Locating, Mapping, FreeFrames, PTL DEF Spec, PanicIsExplained

=============================================================================
