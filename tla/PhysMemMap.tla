----------------------------- MODULE PhysMemMap -----------------------------
(***************************************************************************)
(* The memory part of the boot: mem_init() of src/kernel/kernel/init.c     *)
(* with phys_mem_map_init() of src/kernel/mem/phys_mem_map.c, pfa_init()   *)
(* of src/kernel/mem/page_frame_allocator.c and the bootstrap mapping of   *)
(* src/kernel/mem/paging.c.                                                *)
(*                                                                         *)
(* Everything is built in place: the map is put into memory that is free   *)
(* of the kernel, of the multiboot structures it is still read from and of *)
(* the module, and its entries are then split until the three areas in use *)
(* are entries of their own; what is left becomes the regions of the page  *)
(* frame allocator.  Addresses are 32-bit numbers that wrap; the machine   *)
(* is scaled down by its constants.                                        *)
(***************************************************************************)
EXTENDS Integers, Sequences, FiniteSetsExt

CONSTANTS
  AddrSpace,   \* 2^32: the first address that 32 bits cannot hold
  LowMem,      \* 0x100000, and kernel_start (linker.ld)
  VramStart,   \* 0xa0000: the video memory, up to LowMem
  PageSize,
  PtPages,     \* entries of a page table: 1024
  Sizeof,      \* the sizes of the structures, a record
  Machines     \* what the bootloader may leave: a set of BootInfo records

AVAILABLE == "available"
RESERVED  == "reserved"   \* and every other type

MAX_RESERVED == 3         \* kernel + pmm + module

kernel_start == LowMem

(***************************************************************************)
(* The areas of memory that are in use when the kernel starts.             *)
(***************************************************************************)
Area(addr, len) == [addr |-> addr, len |-> len]
Bytes(a) == a.addr..(a.addr + a.len - 1)
Inside(a, b) == b.addr <= a.addr /\ a.addr + a.len <= b.addr + b.len
Apart(a, b) == a.addr + a.len <= b.addr \/ b.addr + b.len <= a.addr

Kernel(b) == Area(kernel_start, b.kernel_end - kernel_start)
Module(b) == Area(b.mod_start, b.mod_end - b.mod_start)
ModuleLoaded(b) == b.mods /\ b.mods_count = 1

\* mbi, memory map, module header and module, in the order of the code.
MultibootAreas(b) ==
  <<Area(b.mbi, Sizeof.mbi), Area(b.mmap_addr, Len(b.mmap) * Sizeof.mmap)>>
    \o IF ModuleLoaded(b) THEN <<Area(b.mods_addr, Sizeof.mod), Module(b)>>
                          ELSE <<>>

\* Faulty variant: one entry for each area to reserve.
MapEntries_OnePerArea(mbi) ==
  Len(mbi.mmap) + 2 + (IF ModuleLoaded(mbi) THEN 1 ELSE 0)

\* The number of entries phys_mem_map_size() makes room for, and the size.
MapEntries(mbi) ==
  3 * (Len(mbi.mmap) + 2 + (IF ModuleLoaded(mbi) THEN 1 ELSE 0))

phys_mem_map_size(mbi) == Sizeof.pmm + MapEntries(mbi) * Sizeof.pmme

MmapEntries == [addr : Nat, len : Nat, type : {AVAILABLE, RESERVED}]

BootInfo ==
  [mem_map : BOOLEAN, mods : BOOLEAN, mods_count : Nat, mmap : Seq(MmapEntries),
   mbi : Nat, mmap_addr : Nat, mods_addr : Nat, mod_start : Nat, mod_end : Nat,
   kernel_end : Nat]

(***************************************************************************)
(* What the bootloader guarantees: the entries of its map do not overlap   *)
(* and those below 4 GiB either end there or are longer than 4 GiB; low    *)
(* memory ends in a hole; the kernel is in available memory at 1 MiB, the  *)
(* multiboot structures apart from it, and the module on a page boundary   *)
(* (flag ALIGN of the multiboot header in boot.S).  Nothing is loaded into *)
(* the video memory.  The last addresses below 4 GiB, some 5 MiB from Top  *)
(* on, belong to the firmware and its devices: no available region starts  *)
(* there, and nothing is loaded there, so that nothing the boot maps is in *)
(* the last page table, where the page directory maps itself.  An          *)
(* available region that reaches 4 GiB begins on a page boundary.          *)
(***************************************************************************)
Vram == Area(VramStart, LowMem - VramStart)

\* More bytes than the metadata of the page frame allocator can take.
MetaBound(b) ==
  Sizeof.pfa + MapEntries(b) * (Sizeof.ptr + Sizeof.region) + AddrSpace \div PageSize

Top(b) ==
  AddrSpace - (PtPages + 3) * PageSize - phys_mem_map_size(b) - MetaBound(b)

WellLoaded(b) ==
  /\ \A i \in DOMAIN b.mmap :
       /\ b.mmap[i].len > 0
       /\ b.mmap[i].addr < LowMem => b.mmap[i].addr + b.mmap[i].len <= LowMem
       /\ \/ b.mmap[i].addr + b.mmap[i].len <= AddrSpace
          \/ b.mmap[i].addr >= AddrSpace
          \/ b.mmap[i].len >= AddrSpace
       /\ b.mmap[i].type = AVAILABLE /\ b.mmap[i].addr < AddrSpace =>
            /\ b.mmap[i].addr < Top(b)
            /\ \/ b.mmap[i].addr + b.mmap[i].len < AddrSpace
               \/ b.mmap[i].addr % PageSize = 0
       /\ \A j \in DOMAIN b.mmap : i = j \/ Apart(b.mmap[i], b.mmap[j])
  /\ b.kernel_end > kernel_start /\ b.kernel_end < Top(b)
  /\ \E i \in DOMAIN b.mmap :
       b.mmap[i].type = AVAILABLE /\ Inside(Kernel(b), b.mmap[i])
  /\ b.mod_start % PageSize = 0 /\ b.mod_start <= b.mod_end
  /\ LET areas == MultibootAreas(b)
     IN  \A i \in DOMAIN areas :
           /\ areas[i].addr + areas[i].len < Top(b)
           /\ Apart(areas[i], Kernel(b)) /\ Apart(areas[i], Vram)
           /\ \A j \in DOMAIN areas : i = j \/ Apart(areas[i], areas[j])

ASSUME BootAssumption ==
  /\ PageSize \in Nat \ {0} /\ PtPages \in Nat \ {0}
  /\ AddrSpace \in Nat /\ LowMem \in 1..(AddrSpace - 1) /\ VramStart \in 0..LowMem
  /\ LowMem % PageSize = 0 /\ AddrSpace % PageSize = 0 /\ VramStart % PageSize = 0
  /\ Sizeof \in [mbi : Nat, mmap : Nat, mod : Nat, pmm : Nat \ {0}, pmme : Nat,
                 pfa : Nat, ptr : Nat, region : Nat]
  /\ AddrSpace % (PtPages * PageSize) = 0
  /\ \A b \in Machines : b \in BootInfo /\ WellLoaded(b)

VARIABLES
  pc,          \* the next step of mem_init()
  boot,        \* what the bootloader left, but for its memory map
  mmap,        \* the entries of the multiboot memory map, sorted in place
  mbr,         \* mb_regions: where the multiboot structures are
  unsorted,    \* nb_unsorted, nb_elts: entries the bubble sort has to look at
  seg,         \* the entry of mmap that find_pmm_location() looks at
  nth,         \* the structure of mbr that it moves the map past
  pmm_addr,    \* where the map is, or is tried
  pmm,         \* phys_mem_map->entries
  nb_reserved,
  pfa,         \* the regions of the page frame allocator
  pfa_area     \* the area of its metadata

vars == <<pc, boot, mmap, mbr, unsorted, seg, nth, pmm_addr, pmm, nb_reserved,
          pfa, pfa_area>>

NoArea == Area(0, 0)

Init ==
  /\ pc = "flags"
  /\ boot \in Machines
  /\ mmap = boot.mmap
  /\ mbr = <<>> /\ pmm = <<>> /\ pfa = <<>>
  /\ unsorted = 0 /\ seg = 1 /\ nth = 1 /\ pmm_addr = 0 /\ nb_reserved = 0
  /\ pfa_area = NoArea

-----------------------------------------------------------------------------
(* 32-bit arithmetic *)

W(x) == x % AddrSpace

page_align(addr) ==
  IF addr % PageSize = 0 THEN addr
  ELSE W((addr \div PageSize + 1) * PageSize)

collides(src, len, dst) ==
  src < W(dst.addr + dst.len) /\ W(src + len) > dst.addr

-----------------------------------------------------------------------------
(* Sorting, and where to put the map *)

\* The step of the bubble sorts at entry i: swapped with the next one when
\* they are out of order; done.last is the place of the last swap.
Compare(done, i) ==
  IF done.s[i].addr > done.s[i + 1].addr
    THEN [s    |-> [done.s EXCEPT ![i] = done.s[i + 1], ![i + 1] = done.s[i]],
          last |-> i]
    ELSE done

\* Faulty variant: the pass stops one entry too early.
SortPass_OneTooFew(s, n) ==
  LET after[i \in 0..(n - 1)] ==
        IF i = 0 THEN [s |-> s, last |-> 0]
        ELSE IF i = n - 1 THEN after[i - 1]
        ELSE Compare(after[i - 1], i)
  IN  after[n - 1]

\* Faulty variant: last_swap is not reset before a pass.
SortPass_NoReset(s, n) ==
  LET after[i \in 0..(n - 1)] ==
        IF i = 0 THEN [s |-> s, last |-> n] ELSE Compare(after[i - 1], i)
  IN  after[n - 1]

\* One pass over the first n entries, by address.  It leaves done.last entries
\* that may still be out of order.
SortPass(s, n) ==
  LET after[i \in 0..(n - 1)] ==
        IF i = 0 THEN [s |-> s, last |-> 0] ELSE Compare(after[i - 1], i)
  IN  after[n - 1]

\* The part of a multiboot entry below 4 GiB.
Shrunk(m) ==
  [addr |-> m.addr,
   len  |-> IF m.len >= AddrSpace THEN W(AddrSpace - m.addr) ELSE m.len,
   type |-> m.type]

\* An entry find_pmm_location() looks into.
Usable(m) == m.type = AVAILABLE /\ m.addr < AddrSpace /\ m.addr >= LowMem

\* An address for the map, moved behind a structure that is in the way.
MovedPast(addr, size, area) ==
  IF collides(addr, size, area) THEN page_align(W(area.addr + area.len)) ELSE addr

\* Faulty variant: a map that ends with the segment is refused.
FitsIn_Strict(addr, m) ==
  W(addr + phys_mem_map_size(boot)) < W(m.addr + m.len)

FitsIn(addr, m) == W(addr + phys_mem_map_size(boot)) <= W(m.addr + m.len)

-----------------------------------------------------------------------------
(* phys_mem_map_init() *)

Panic == pc' = "panic"

CheckFlags ==
  /\ pc = "flags"
  /\ IF ~boot.mem_map \/ (boot.mods /\ boot.mods_count > 1)
       THEN Panic /\ UNCHANGED <<mbr, unsorted>>
       ELSE /\ mbr' = MultibootAreas(boot)
            /\ unsorted' = Len(mbr')
            /\ pc' = "sort_mbr"
  /\ UNCHANGED <<boot, mmap, seg, nth, pmm_addr, pmm, nb_reserved, pfa, pfa_area>>

sort_phys_mmap ==
  /\ pc = "sort_mbr"
  /\ IF unsorted > 0
       THEN /\ mbr' = SortPass(mbr, unsorted).s
            /\ unsorted' = SortPass(mbr, unsorted).last
            /\ UNCHANGED pc
       ELSE unsorted' = Len(mmap) /\ pc' = "sort_mmap" /\ UNCHANGED mbr
  /\ UNCHANGED <<boot, mmap, seg, nth, pmm_addr, pmm, nb_reserved, pfa, pfa_area>>

sort_multiboot_mmap ==
  /\ pc = "sort_mmap"
  /\ IF unsorted > 0
       THEN /\ mmap' = SortPass(mmap, unsorted).s
            /\ unsorted' = SortPass(mmap, unsorted).last
            /\ UNCHANGED pc
       ELSE pc' = "locate" /\ UNCHANGED <<mmap, unsorted>>
  /\ UNCHANGED <<boot, mbr, seg, nth, pmm_addr, pmm, nb_reserved, pfa, pfa_area>>

\* The loops of find_pmm_location(): the next entry of the memory map is
\* skipped, or an address behind the kernel is tried there...
NextSegment ==
  /\ pc = "locate"
  /\ IF seg > Len(mmap) THEN Panic /\ UNCHANGED <<pmm_addr, seg, nth>>
     ELSE IF ~Usable(mmap[seg])
       THEN seg' = seg + 1 /\ UNCHANGED <<pc, pmm_addr, nth>>
     ELSE /\ LET start == page_align(boot.kernel_end + 1)
             IN  pmm_addr' = IF start < mmap[seg].addr THEN mmap[seg].addr
                                                       ELSE start
          /\ nth' = 1
          /\ pc' = "avoid"
          /\ UNCHANGED seg
  /\ UNCHANGED <<boot, mmap, mbr, unsorted, pmm, nb_reserved, pfa, pfa_area>>

\* ...and moved past one structure after the other.
AvoidStructure ==
  /\ pc = "avoid"
  /\ nth <= Len(mbr)
  /\ pmm_addr' = MovedPast(pmm_addr, phys_mem_map_size(boot), mbr[nth])
  /\ nth' = nth + 1
  /\ UNCHANGED <<pc, boot, mmap, mbr, unsorted, seg, pmm, nb_reserved, pfa,
                 pfa_area>>

\* In the end the map must fit into the segment.
CheckRange ==
  /\ pc = "avoid"
  /\ nth > Len(mbr)
  /\ IF FitsIn(pmm_addr, Shrunk(mmap[seg]))
       THEN pc' = "fill" /\ UNCHANGED seg
       ELSE pc' = "locate" /\ seg' = seg + 1
  /\ UNCHANGED <<boot, mmap, mbr, unsorted, nth, pmm_addr, pmm, nb_reserved,
                 pfa, pfa_area>>

\* The loop of fill_phys_mmap(): what the first i entries add to the map.
Filled ==
  LET after[i \in 0..Len(mmap)] ==
        IF i = 0 THEN <<>>
        ELSE IF mmap[i].addr >= AddrSpace THEN after[i - 1]
        ELSE Append(after[i - 1], Shrunk(mmap[i]))
  IN  after[Len(mmap)]

fill_phys_mmap ==
  /\ pc = "fill"
  /\ pmm' = Filled
  /\ pc' = "kernel"
  /\ UNCHANGED <<boot, mmap, mbr, unsorted, seg, nth, pmm_addr, nb_reserved, pfa,
                 pfa_area>>

\* The map with entry i cut in two at addr, strictly inside it.
Splittable(i, addr) == pmm[i].addr < addr /\ addr < W(pmm[i].addr + pmm[i].len)

split_region(i, addr) ==
  LET left == addr - pmm[i].addr
  IN  SubSeq(pmm, 1, i - 1)
        \o <<[pmm[i] EXCEPT !.len = left],
             [pmm[i] EXCEPT !.addr = addr, !.len = @ - left]>>
        \o SubSeq(pmm, i + 1, Len(pmm))

\* The available entries that hold the area.
Holders(a) ==
  {i \in DOMAIN pmm :
     /\ pmm[i].type = AVAILABLE
     /\ a.addr >= pmm[i].addr
     /\ W(a.addr + a.len) <= W(pmm[i].addr + pmm[i].len)}

\* One round of reserve_region(): the entry is reserved, or it is split and
\* the search starts again.  phys_mem_map_init() goes on with next.
reserve_region(a, next) ==
  IF nb_reserved = MAX_RESERVED \/ Holders(a) = {}
    THEN Panic /\ UNCHANGED <<pmm, nb_reserved>>
    ELSE LET i  == Min(Holders(a))
             at == IF a.addr > pmm[i].addr THEN a.addr ELSE W(a.addr + a.len)
         IN  IF pmm[i].len = a.len
               THEN /\ pmm' = [pmm EXCEPT ![i].type = RESERVED]
                    /\ nb_reserved' = nb_reserved + 1
                    /\ pc' = next
             ELSE IF Splittable(i, at)
               THEN pmm' = split_region(i, at) /\ UNCHANGED <<pc, nb_reserved>>
               ELSE Panic /\ UNCHANGED <<pmm, nb_reserved>>

Pmm == Area(pmm_addr, phys_mem_map_size(boot))

ReserveKernel ==
  /\ pc = "kernel"
  /\ reserve_region(Kernel(boot), "pmm")
  /\ UNCHANGED <<boot, mmap, mbr, unsorted, seg, nth, pmm_addr, pfa, pfa_area>>

ReservePmm ==
  /\ pc = "pmm"
  /\ reserve_region(Pmm, IF ModuleLoaded(boot) THEN "module" ELSE "pfa")
  /\ UNCHANGED <<boot, mmap, mbr, unsorted, seg, nth, pmm_addr, pfa, pfa_area>>

ReserveModule ==
  /\ pc = "module"
  /\ reserve_region(Module(boot), "pfa")
  /\ UNCHANGED <<boot, mmap, mbr, unsorted, seg, nth, pmm_addr, pfa, pfa_area>>

-----------------------------------------------------------------------------
(* pfa_init() *)

\* The length of an entry from its first page boundary on.
AlignedLen(e) == W(e.len - (page_align(e.addr) - e.addr))

is_valid_region(e) ==
  /\ e.type = AVAILABLE
  /\ e.addr >= LowMem
  /\ \/ e.addr % PageSize = 0
     \/ page_align(e.addr) >= e.addr /\ page_align(e.addr) < W(e.addr + e.len)
  /\ AlignedLen(e) \div PageSize > 0

Valid == {i \in DOMAIN pmm : is_valid_region(pmm[i])}

\* Faulty variant: the bytes before the first page boundary are counted.
EntryPages_NotAligned(i) == pmm[i].len \div PageSize

EntryPages(i) == AlignedLen(pmm[i]) \div PageSize

\* The loop of pfa_meta_size(): the bytes that the metadata needs.
MetaBytes ==
  LET size[i \in 0..Len(pmm)] ==
        IF i = 0 THEN Sizeof.pfa
        ELSE IF is_valid_region(pmm[i])
          THEN size[i - 1] + Sizeof.ptr + Sizeof.region + EntryPages(i)
          ELSE size[i - 1]
  IN  size[Len(pmm)]

pfa_meta_size == page_align(MetaBytes)

\* The entries that find_hosting_region() may choose from: it takes the first.
Hosts(pfa_size) == {i \in Valid : AlignedLen(pmm[i]) >= pfa_size}

\* The region of entry i; the host gives its first pages to the metadata.
RegionOf(i, host, pfa_size) ==
  LET meta == IF i = host THEN pfa_size ELSE 0
  IN  [first_page |-> page_align(pmm[i].addr) + meta,
       nb_pages   |-> EntryPages(i) - meta \div PageSize]

\* The first loop of reserve_regions(): the place behind the region pointers.
FirstRegion ==
  LET new_region[i \in 0..Len(pmm)] ==
        IF i = 0 THEN Sizeof.pfa
        ELSE IF is_valid_region(pmm[i]) THEN new_region[i - 1] + Sizeof.ptr
        ELSE new_region[i - 1]
  IN  new_region[Len(pmm)]

\* A round of its second loop: the region of valid entry i, with its pagemap,
\* is put behind those that are done.
AddRegion(done, i, host, pfa_size) ==
  LET r   == RegionOf(i, host, pfa_size)
      end == done.new_region + Sizeof.region + r.nb_pages
  IN  [regions    |-> Append(done.regions, [first_page |-> r.first_page,
                                            nb_pages   |-> r.nb_pages,
                                            end        |-> end]),
       new_region |-> end]

\* The regions of the valid entries, in the order of the map.
reserve_regions(host, pfa_size) ==
  LET after[i \in 0..Len(pmm)] ==
        IF i = 0 THEN [regions |-> <<>>, new_region |-> FirstRegion]
        ELSE IF is_valid_region(pmm[i])
          THEN AddRegion(after[i - 1], i, host, pfa_size)
          ELSE after[i - 1]
  IN  after[Len(pmm)].regions

pfa_init ==
  /\ pc = "pfa"
  /\ LET pfa_size == pfa_meta_size
         host     == Min(Hosts(pfa_size))
     IN  IF Hosts(pfa_size) = {}
           THEN Panic /\ UNCHANGED <<pmm, pfa, pfa_area>>
           ELSE /\ pfa' = reserve_regions(host, pfa_size)
                /\ pfa_area' = Area(page_align(pmm[host].addr), pfa_size)
                /\ pmm' = [i \in DOMAIN pmm |->
                             IF i \in Valid THEN [pmm[i] EXCEPT !.type = RESERVED]
                                            ELSE pmm[i]]
                /\ pc' = "paging"
  /\ UNCHANGED <<boot, mmap, mbr, unsorted, seg, nth, pmm_addr, nb_reserved>>

-----------------------------------------------------------------------------
(* paging_setup() *)

\* The pages, by number, of the loops that map the addresses from..(to - 1).
PagesOf(from, to) == (from \div PageSize)..((to - 1) \div PageSize)

MetaPages == PagesOf(pfa_area.addr, pfa_area.addr + pfa_area.len)

\* The kernel, the video memory, the metadata and the module, in this order.
BootstrapPages ==
  <<PagesOf(kernel_start, page_align(boot.kernel_end + 1)),
    PagesOf(VramStart, LowMem), MetaPages>>
    \o IF ModuleLoaded(boot) THEN <<PagesOf(boot.mod_start, boot.mod_end)>>
                             ELSE <<>>

\* The page directory entries that bootstrap_mapping() needs.
BootstrapPdes ==
  {p \div PtPages : p \in UNION {BootstrapPages[i] : i \in DOMAIN BootstrapPages}}

\* The frames that pfa_alloc(1) can hand out, one with each call.
RegionPages(r) ==
  (r.first_page \div PageSize)..(r.first_page \div PageSize + r.nb_pages - 1)

Frames == UNION {RegionPages(pfa[i]) : i \in DOMAIN pfa}

\* A frame for the page directory, and one for each page table.
FramesToSetUp == 1 + Cardinality(BootstrapPdes)

\* The page directory is allocated, then bootstrap_mapping() maps the pages.  It
\* panics when there is no frame for the directory or for a page table, and
\* map_page() does on a page that is mapped already.
paging_setup ==
  /\ pc = "paging"
  /\ IF \/ Cardinality(Frames) < FramesToSetUp
        \/ \E i, j \in DOMAIN BootstrapPages :
             i # j /\ BootstrapPages[i] \cap BootstrapPages[j] # {}
       THEN Panic
       ELSE pc' = "done"
  /\ UNCHANGED <<boot, mmap, mbr, unsorted, seg, nth, pmm_addr, pmm, nb_reserved,
                 pfa, pfa_area>>

Next ==
  \/ CheckFlags \/ sort_phys_mmap \/ sort_multiboot_mmap
  \/ NextSegment \/ AvoidStructure \/ CheckRange \/ fill_phys_mmap
  \/ ReserveKernel \/ ReservePmm \/ ReserveModule
  \/ pfa_init \/ paging_setup

\* The boot is one thread of control with the interrupts off: it goes on.
Spec == Init /\ [][Next]_vars /\ WF_vars(Next)

-----------------------------------------------------------------------------
(* Properties *)

\* Apart(a, b) for an area and every area of a sequence.
ApartFromAll(a, areas) == \A i \in DOMAIN areas : Apart(a, areas[i])

Located == pc \in {"fill", "kernel", "pmm", "module", "pfa", "paging", "done"}

(***************************************************************************)
(* The place find_pmm_location() chooses for the map is in one available   *)
(* region and overlaps neither the kernel nor any multiboot structure nor  *)
(* the module, all of which are still read while the map is being written. *)
(***************************************************************************)
MapLocationIsSafe ==
  Located =>
    /\ ApartFromAll(Pmm, MultibootAreas(boot))
    /\ Apart(Pmm, Kernel(boot))
    /\ \E i \in DOMAIN boot.mmap :
         boot.mmap[i].type = AVAILABLE /\ Inside(Pmm, Shrunk(boot.mmap[i]))

\* The bytes of the given type in a map, below 4 GiB.
TypeBytes(map, type) ==
  (UNION {Bytes(map[i]) : i \in {j \in DOMAIN map : map[j].type = type}})
    \cap 0..(AddrSpace - 1)

\* The areas reserved so far: those that reserve_region() was called for.
Taken ==
  UNION {Bytes((<<Kernel(boot), Pmm, Module(boot)>>)[i]) : i \in 1..nb_reserved}

(***************************************************************************)
(* While reserve_region() splits and marks entries the map stays sorted    *)
(* and free of overlaps, no byte of the machine gets lost or changes its   *)
(* type but for the areas reserved so far, exactly these, and the entries  *)
(* never outgrow the room phys_mem_map_size() computed.                    *)
(***************************************************************************)
MapIsExact ==
  pc \in {"kernel", "pmm", "module", "pfa"} =>
    /\ Len(pmm) <= MapEntries(boot)
    /\ \A i \in 1..(Len(pmm) - 1) : pmm[i].addr + pmm[i].len <= pmm[i + 1].addr
    /\ TypeBytes(pmm, AVAILABLE) = TypeBytes(boot.mmap, AVAILABLE) \ Taken
    /\ TypeBytes(pmm, RESERVED) = TypeBytes(boot.mmap, RESERVED) \cup Taken

PageArea(p) == Area(p * PageSize, PageSize)

InUse == <<Kernel(boot), Pmm>>
           \o IF ModuleLoaded(boot) THEN <<Module(boot)>> ELSE <<>>

\* The whole pages of available entry m outside low memory that are not used
\* by the kernel, the map or the module.
FreePagesOf(m) ==
  {p \in (LowMem \div PageSize)..(AddrSpace \div PageSize - 1) :
     /\ m.type = AVAILABLE
     /\ Inside(PageArea(p), m)
     /\ ApartFromAll(PageArea(p), InUse)}

FreePages == UNION {FreePagesOf(boot.mmap[i]) : i \in DOMAIN boot.mmap}

(***************************************************************************)
(* The regions of the page frame allocator hold exactly the free pages of  *)
(* the machine but for those of its metadata, each page once; the metadata *)
(* fits its pages; and the bootstrap maps no frame, unless the kernel ends *)
(* on a page boundary, and nothing in the last page table.  This is what   *)
(* modules PfaOps and Paging assume of the layout.                         *)
(***************************************************************************)
FramesAreTheFreePages ==
  pc \in {"paging", "done"} =>
    /\ Frames \cup MetaPages = FreePages
    /\ Frames \cap MetaPages = {}
    /\ \A i, j \in DOMAIN pfa :
         i # j => RegionPages(pfa[i]) \cap RegionPages(pfa[j]) = {}
    /\ \A i \in DOMAIN pfa : pfa[i].end <= pfa_area.len
    /\ boot.kernel_end % PageSize # 0 =>
         \A i \in DOMAIN BootstrapPages : BootstrapPages[i] \cap Frames = {}
    /\ \A i \in DOMAIN BootstrapPages : \A p \in BootstrapPages[i] :
         p * PageSize < AddrSpace - PtPages * PageSize

\* Entry m reaches 4 GiB: the sums that should be its end are 0.
EndWraps(m) == m.addr + m.len >= AddrSpace

\* There is room for the map at p, behind the pages of the kernel, in entry m.
Room(p, m) ==
  LET a == Area(p, phys_mem_map_size(boot))
  IN  /\ Usable(m) /\ Inside(a, m) /\ p + a.len <= AddrSpace
      /\ p % PageSize = 0 \/ p = m.addr
      /\ p >= page_align(boot.kernel_end + 1)
      /\ ApartFromAll(a, MultibootAreas(boot))

\* There are enough free pages in a row in entry m for the metadata.
MetaRoom(m) ==
  LET free == FreePagesOf(m)
      n    == pfa_meta_size \div PageSize
  IN  \E p \in free : p..(p + n - 1) \subseteq free

\* There are too few free pages for the page directory and the page tables.
TooFewFrames == Cardinality(FreePages \ MetaPages) < FramesToSetUp

\* The page behind a kernel that ends on a page boundary is in use.
NextPageUsed ==
  /\ boot.kernel_end % PageSize = 0
  /\ boot.kernel_end \div PageSize \in
       MetaPages \cup (IF ModuleLoaded(boot)
                        THEN PagesOf(boot.mod_start, boot.mod_end) ELSE {})

\* A step that panics has one of the known reasons.
ExplainedPanic ==
  pc' = "panic" =>
    \/ pc = "flags" /\ (~boot.mem_map \/ (boot.mods /\ boot.mods_count > 1))
    \/ /\ pc = "locate"
       /\ \A i \in DOMAIN mmap : \A p \in LowMem..(AddrSpace - 1) :
            Room(p, mmap[i]) => EndWraps(mmap[i])
    \/ /\ pc = "module"
       /\ \/ boot.mod_start = boot.mod_end
          \/ \A i \in DOMAIN mmap :
               mmap[i].type = AVAILABLE /\ Inside(Module(boot), mmap[i])
                 => EndWraps(mmap[i])
    \/ pc = "pfa" /\ ~\E i \in DOMAIN mmap : MetaRoom(mmap[i])
    \/ pc = "paging" /\ (TooFewFrames \/ NextPageUsed)

(***************************************************************************)
(* Why mem_init() may panic, and nothing else.  The machine is hopeless:   *)
(* there is no memory map, or several modules, no place for the map on a   *)
(* page boundary or at the start of a region behind the pages counted for  *)
(* the kernel, no row of pages for the metadata, too few frames for the    *)
(* page directory and the page tables, or a module that is empty or not in *)
(* one available region.  Or the code misses what is there: there is room  *)
(* for the map, or the module is, but in a region that reaches 4 GiB,      *)
(* which find_pmm_location() shrinks in order to use it                    *)
(* (phys_mem_map.c:404) and then refuses since its end wraps to 0 (line    *)
(* 443), as does reserve_region() (line 221); or the page behind a kernel  *)
(* that ends on a page boundary is mapped twice (paging.c:124).  The       *)
(* kernel and the map can always be reserved.                              *)
(***************************************************************************)
PanicIsExplained == [][ExplainedPanic]_vars

(***************************************************************************)
(* "This must NEVER failed" (src/kernel/mem/paging.c:90): when there are   *)
(* frames for the page directory and all page tables, bootstrap_mapping()  *)
(* succeeds.                                                               *)
(***************************************************************************)
BootstrapNeverFails == [][pc = "paging" /\ ~TooFewFrames => pc' = "done"]_vars

(***************************************************************************)
(* The sorts and the goto retry of reserve_region() end: mem_init()        *)
(* returns or panics.                                                      *)
(***************************************************************************)
BootEnds == <>(pc \in {"done", "panic"})

=============================================================================
