----------------------------- MODULE KernelHeap -----------------------------
(***************************************************************************)
(* kmalloc() and kfree() (src/kernel/mem/kmalloc.c) over the page tables   *)
(* and the page frame allocator.  They are only called from the one task   *)
(* of the kernel, never from an interrupt handler, so a call is one step.  *)
(*                                                                         *)
(* heap is the memory state of module Paging with two more fields:         *)
(*   blocks  aha_block_list: pages cut into chunks of one size.  used is   *)
(*           the set of chunks the chunkmap marks CHUNK_USED               *)
(*   bigs    aha_big_list: whole pages, with their metadata in a chunk     *)
(* The lists are sequences; list_add() inserts at the front.               *)
(***************************************************************************)
EXTENDS Paging, Sequences, FiniteSets

CONSTANTS
  HeaderSize,   \* sizeof(struct aha_block): 24
  PtrSize,      \* sizeof(void*): 4
  MetaSize,     \* sizeof(struct aha_big_meta): 16
  MinSize,      \* the smallest chunk: 8
  WordBits,     \* the width of size_t: 32
  Sizes,        \* the sizes the callers ask for
  WildPointers  \* pointers a caller passes to kfree() by mistake

VARIABLES
  heap,         \* the memory state of the kernel
  objects,      \* history: the areas the callers hold, [ptr, size]
  ret           \* the last pointer kmalloc() returned

vars == <<heap, objects, ret>>

NULL == 0

ASSUME HeapAssumption ==
  /\ HeaderSize \in Nat /\ PtrSize \in Nat \ {0} /\ MinSize \in Nat \ {0}
  /\ WordBits \in Nat
  /\ AddrPages * PageSize = 2^WordBits
  /\ PageSize \in {2^k : k \in 0..WordBits}
  /\ MetaSize \in MinSize..(PageSize \div 2)
  /\ HeaderSize + PtrSize + PageSize \div 2 < PageSize
  /\ Sizes \subseteq 0..(2^WordBits - 1)

\* The definition of the powers of two, which the provers do not have.
ASSUME PowersAssumption == \A k \in 1..WordBits : 2^k = 2 * 2^(k - 1)

\* No size is above 2^31, see next_highest_power_of_two().
SizesFit == \A size \in Sizes : \E k \in 0..(WordBits - 1) : size <= 2^k

\* The smallest power of two that is at least @size, as a size_t: 0 when that
\* is 2^WordBits.
next_highest_power_of_two(size) ==
  LET powers == {2^k : k \in 0..WordBits}
      p == CHOOSE q \in powers :
             q >= size /\ \A s \in powers : s >= size => q <= s
  IN  p % 2^WordBits

\* The size of the chunk or of the pages that hold @size bytes.
Rounded(size) ==
  next_highest_power_of_two(IF size < MinSize THEN MinSize ELSE size)

-----------------------------------------------------------------------------
(* Blocks *)

\* The start of the block in memory, and its first chunk: after the header and
\* the chunkmap, on a pointer boundary.
Base(page) == page * PageSize

\* Faulty variant: no room for the chunkmap.
FirstPtr_OnChunkmap(page, nb_elts) ==
  ((Base(page) + HeaderSize + PtrSize - 1) \div PtrSize) * PtrSize

FirstPtr(page, nb_elts) ==
  ((Base(page) + HeaderSize + nb_elts + PtrSize - 1) \div PtrSize) * PtrSize

\* One byte of chunkmap for every chunk; PtrSize bytes are left for alignment.
NbElts(elt_size) == (PageSize - HeaderSize - PtrSize) \div (1 + elt_size)

NewBlock(page, elt_size) ==
  [page |-> page, elt_size |-> elt_size, tot_elts |-> NbElts(elt_size),
   nb_frees |-> NbElts(elt_size), first_ptr |-> FirstPtr(page, NbElts(elt_size)),
   used |-> {}]

\* The page of the block is mapped in m: the block goes to the front of the
\* list.
AddBlock(m, page, elt_size) ==
  IF m.panicked THEN [heap |-> m, ok |-> FALSE]
  ELSE [heap |-> [m EXCEPT !.blocks = <<NewBlock(page, elt_size)>> \o @], ok |-> TRUE]

\* ok is false when new_block() returns NULL.
new_block(h, elt_size) ==
  LET pgf == pfa_alloc(h, 1)
  IN  IF NbElts(elt_size) = 0 THEN [heap |-> Panicked(h), ok |-> FALSE]
      ELSE IF pgf.ret = BAD_PAGE THEN [heap |-> h, ok |-> FALSE]
      ELSE AddBlock(map_page(pgf.mem, pgf.ret), pgf.ret, elt_size)

\* Faulty variant: full blocks are found as well.
find_non_full_block_Full(h, size, i) ==
  /\ i \in DOMAIN h.blocks
  /\ h.blocks[i].elt_size = size
  /\ \A k \in 1..(i - 1) : h.blocks[k].elt_size # size

\* find_non_full_block() returns the i-th block of the list.
find_non_full_block(h, size, i) ==
  LET Fits(k) == h.blocks[k].elt_size = size /\ h.blocks[k].nb_frees > 0
  IN  /\ i \in DOMAIN h.blocks
      /\ Fits(i)
      /\ \A k \in 1..(i - 1) : ~ Fits(k)

\* The first free chunk of the i-th block is handed out.
TakeChunk(h, i) ==
  LET b == h.blocks[i]
      free == (0..(b.tot_elts - 1)) \ b.used
      c == CHOOSE k \in free : \A l \in free : k <= l
  IN  IF free = {}
        THEN [heap |-> Panicked(h), ret |-> NULL]
        ELSE [heap |-> [h EXCEPT !.blocks[i].used = @ \cup {c},
                                 !.blocks[i].nb_frees = @ - 1],
              ret  |-> b.first_ptr + c * b.elt_size]

\* The first chunk of a new block, if there is one.
TakeFirst(new) ==
  IF new.ok THEN TakeChunk(new.heap, 1) ELSE [heap |-> new.heap, ret |-> NULL]

\* kmalloc() of a size (rounded) below PAGE_SIZE.
SmallAlloc(h, size) ==
  IF \E i \in DOMAIN h.blocks : find_non_full_block(h, size, i)
    THEN TakeChunk(h, CHOOSE i \in DOMAIN h.blocks : find_non_full_block(h, size, i))
    ELSE TakeFirst(new_block(h, size))

-----------------------------------------------------------------------------
(* Big allocations *)

\* The pages from head_page on become a big allocation with metadata at ptr.
\* The entry is in the list before the pages are mapped.
AddBig(h, head_page, size, ptr) ==
  [heap |-> map_pages([h EXCEPT !.bigs = <<[ptr |-> Base(head_page), size |-> size,
                                            meta |-> ptr]>> \o @],
                      head_page, size \div PageSize),
   ret  |-> Base(head_page)]

\* Faulty variant: the frames are kept when there is no metadata.
WithMeta_NoRollback(meta, head_page, size) ==
  IF meta.heap.panicked \/ meta.ret = NULL THEN meta
  ELSE AddBig(meta.heap, head_page, size, meta.ret)

\* The metadata was asked for; without it the frames are given back.
WithMeta(meta, head_page, size) ==
  IF meta.heap.panicked THEN meta
  ELSE IF meta.ret = NULL
    THEN [heap |-> pfa_free(meta.heap, head_page), ret |-> NULL]
  ELSE AddBig(meta.heap, head_page, size, meta.ret)

\* First the frames, then the metadata from kmalloc() itself.
big_alloc(h, size) ==
  LET pgf == pfa_alloc(h, size \div PageSize)
  IN  IF pgf.ret = BAD_PAGE THEN [heap |-> h, ret |-> NULL]
      ELSE WithMeta(SmallAlloc(pgf.mem, Rounded(MetaSize)), pgf.ret, size)

Kmalloc(h, size) ==
  IF size = 0 THEN [heap |-> h, ret |-> NULL]
  ELSE IF Rounded(size) >= PageSize THEN big_alloc(h, Rounded(size))
  ELSE SmallAlloc(h, Rounded(size))

-----------------------------------------------------------------------------
(* Release *)

\* The block kfree() takes for the one @ptr belongs to: the i-th of the list.
HostBlock(h, ptr, i) ==
  LET In(k) == /\ h.blocks[k].first_ptr <= ptr
               /\ ptr < Base(h.blocks[k].page) + PageSize
  IN  /\ i \in DOMAIN h.blocks
      /\ In(i)
      /\ \A k \in 1..(i - 1) : ~ In(k)

HasHostBlock(h, ptr) == \E i \in DOMAIN h.blocks : HostBlock(h, ptr, i)

\* Faulty variant: no test for a double free.
FreeChunk_Twice(h, ptr) ==
  LET i == CHOOSE k \in DOMAIN h.blocks : HostBlock(h, ptr, k)
      b == h.blocks[i]
      at == {k \in 0..(b.tot_elts - 1) : b.first_ptr + k * b.elt_size = ptr}
      c == CHOOSE k \in at : \A l \in at : k <= l
  IN  IF at = {}
        THEN Panicked(h)    \* no matching chunk
        ELSE [h EXCEPT !.blocks[i].used = @ \ {c}, !.blocks[i].nb_frees = @ + 1]

\* The chunk at @ptr becomes free: the first of the block at that address.
FreeChunk(h, ptr) ==
  LET i == CHOOSE k \in DOMAIN h.blocks : HostBlock(h, ptr, k)
      b == h.blocks[i]
      at == {k \in 0..(b.tot_elts - 1) : b.first_ptr + k * b.elt_size = ptr}
      c == CHOOSE k \in at : \A l \in at : k <= l
  IN  IF at = {} \/ c \notin b.used
        THEN Panicked(h)    \* no matching chunk, or a double free
        ELSE [h EXCEPT !.blocks[i].used = @ \ {c}, !.blocks[i].nb_frees = @ + 1]

\* Faulty variant: the frames are not given back.
Unmapped_KeepsFrames(m, page) == m

\* The pages of a big allocation are unmapped: its frames are given back.
Unmapped(m, page) == IF m.panicked THEN m ELSE pfa_free(m, page)

\* The entry is removed, and the metadata, a chunk of a block, is freed.
DropBig(m, i) ==
  LET out == [m EXCEPT !.bigs = SubSeq(@, 1, i - 1) \o SubSeq(@, i + 1, Len(@))]
      meta == m.bigs[i].meta
  IN  IF m.panicked THEN m
      ELSE IF HasHostBlock(out, meta) THEN FreeChunk(out, meta)
      ELSE Panicked(out)

\* The i-th big allocation.
big_free(h, i) ==
  LET first == h.bigs[i].ptr \div PageSize
  IN  DropBig(Unmapped(unmap_pages(h, first, h.bigs[i].size \div PageSize), first), i)

Kfree(h, ptr) ==
  IF ptr = NULL THEN Panicked(h)
  ELSE IF HasHostBlock(h, ptr) THEN FreeChunk(h, ptr)
  ELSE IF \E i \in DOMAIN h.bigs : h.bigs[i].ptr = ptr
    THEN big_free(h, CHOOSE i \in DOMAIN h.bigs :
                       /\ h.bigs[i].ptr = ptr
                       /\ \A k \in 1..(i - 1) : h.bigs[k].ptr # ptr)
  ELSE Panicked(h)

-----------------------------------------------------------------------------
(* The state machine *)

Init ==
  /\ LET m == paging_setup(FreshPagemap)
     IN  heap = [pagemap |-> m.pagemap, tables |-> m.tables, mapped |-> m.mapped,
                 panicked |-> m.panicked, blocks |-> <<>>, bigs |-> <<>>]
  /\ objects = {}
  /\ ret = NULL

kmalloc(size) ==
  /\ ~ heap.panicked
  /\ \E r \in {Kmalloc(heap, size)} :
       /\ heap' = r.heap
       /\ ret' = IF r.heap.panicked THEN ret ELSE r.ret
       /\ objects' = IF r.heap.panicked \/ r.ret = NULL THEN objects
                     ELSE objects \cup {[ptr |-> r.ret, size |-> size]}

kfree(ptr) ==
  /\ ~ heap.panicked
  /\ heap' = Kfree(heap, ptr)
  /\ objects' = IF heap'.panicked THEN objects
                ELSE {o \in objects : o.ptr # ptr}
  /\ UNCHANGED ret

\* The chunks that hold the metadata of the big allocations: a caller never
\* sees their addresses.
Metas == {[ptr |-> heap.bigs[i].meta, size |-> MetaSize] : i \in DOMAIN heap.bigs}

Pointers == {o.ptr : o \in objects} \cup (WildPointers \ {o.ptr : o \in Metas})

Next ==
  \/ \E size \in Sizes : kmalloc(size)
  \/ \E ptr \in Pointers : kfree(ptr)

Spec == Init /\ [][Next]_vars

-----------------------------------------------------------------------------
(* Properties *)

UsedFrames ==
  {Frame(p[1], p[2]) : p \in {q \in AllPages : heap.pagemap[q[1]][q[2]] # PAGE_FREE}}

TableFrames == {heap.tables[pd] : pd \in {p \in PdEntries : heap.tables[p] # BAD_PAGE}}

BlockPages == {heap.blocks[i].page : i \in DOMAIN heap.blocks}

BigPages(b) == (b.ptr \div PageSize)..((b.ptr + b.size) \div PageSize - 1)

AllBigPages == UNION {BigPages(heap.bigs[i]) : i \in DOMAIN heap.bigs}

\* Exactly the bootstrap pages and the pages of the heap are mapped: no page
\* of the heap faults, and no page given back stays mapped (its next user
\* would panic in map_page()).
MappedPagesAreOwned ==
  heap.mapped = BootPages \cup BlockPages \cup AllBigPages

\* Every frame the frame allocator has given away has exactly one owner: the
\* page directory, a page table, a block or a big allocation, and the mapping
\* follows.  No allocation, release or failed allocation leaks a frame, lets
\* two owners share one, or leaves a page of the heap unmapped or another
\* mapped.
EveryFrameHasOneOwner ==
  ~ heap.panicked =>
    /\ UsedFrames = TableFrames \cup BlockPages \cup AllBigPages
    /\ Cardinality(UsedFrames) =
         Cardinality({pd \in PdEntries : heap.tables[pd] # BAD_PAGE})
           + Cardinality(DOMAIN heap.blocks)
           + Cardinality({q \in (DOMAIN heap.bigs) \X (0..AddrPages) :
                            q[2] \in BigPages(heap.bigs[q[1]])})
    /\ MappedPagesAreOwned

\* The bytes of the header and of the chunkmap of a block.
BlockHeader(b) == Base(b.page)..(Base(b.page) + HeaderSize + b.tot_elts - 1)

Bytes(o) == o.ptr..(o.ptr + o.size - 1)

\* The areas of callers and metadata of big allocations never overlap, lie on
\* mapped pages and never cover the header or the chunkmap of a block, a page
\* table or the page directory; the blocks count their free chunks right.
AreasAreUsable ==
  ~ heap.panicked =>
    /\ \A o \in objects \cup Metas :
         /\ \A p \in objects \cup Metas : p # o => Bytes(o) \cap Bytes(p) = {}
         /\ \A a \in Bytes(o) : /\ a \div PageSize \in heap.mapped
                                /\ a \div PageSize \notin TableFrames
         /\ \A i \in DOMAIN heap.blocks :
              Bytes(o) \cap BlockHeader(heap.blocks[i]) = {}
    /\ \A i \in DOMAIN heap.blocks :
         LET b == heap.blocks[i]
         IN  b.nb_frees = b.tot_elts - Cardinality(b.used)

\* A kmalloc() that returns NULL leaves the memory as it was: the rollback of
\* big_alloc() gives back exactly what it took.
FailedKmallocChangesNothing ==
  [][\A size \in Sizes : kmalloc(size) /\ ~ heap'.panicked /\ ret' = NULL
                           => heap' = heap]_vars

\* kmalloc() panics only when no page frame is left for a page table; the
\* sanity checks of the allocators never fire.
PanicMeansOutOfFrames ==
  [][\A size \in Sizes : kmalloc(size) /\ heap'.panicked
                           => NoneServes(heap'.pagemap, 1)]_vars

\* kfree() of an area the caller holds never panics, and every other kfree()
\* panics before it changes anything.
KfreeTellsRightFromWrong ==
  [][\A ptr \in Pointers :
       kfree(ptr) => IF \E o \in objects : o.ptr = ptr
                       THEN ~ heap'.panicked
                       ELSE heap' = [heap EXCEPT !.panicked = TRUE]]_vars

=============================================================================
