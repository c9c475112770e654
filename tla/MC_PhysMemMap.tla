---------------------------- MODULE MC_PhysMemMap ----------------------------
(* A machine of 32 pages of 16 bytes: two pages of low memory, the kernel   *)
(* behind them, and one or two regions of memory, which the bootloader      *)
(* lists in any order.                                                      *)
EXTENDS PhysMemMap

Entry(addr, len, type) == [addr |-> addr, len |-> len, type |-> type]

MCSizeof == [mbi |-> 3, mmap |-> 2, mod |-> 2, pmm |-> 1, pmme |-> 1,
             pfa |-> 1, ptr |-> 1, region |-> 2]

Low   == Entry(0, 16, AVAILABLE)
Hole  == Entry(128, 10, RESERVED)
Above == Entry(512, 64, AVAILABLE)

\* The region of the kernel, with and without an end on a page boundary.
First == {Entry(32, 96, AVAILABLE), Entry(32, 67, AVAILABLE),
          Entry(32, 16, AVAILABLE)}

\* A second one: ordinary, not aligned, exactly as long as a map, up to 4 GiB,
\* and too long for 32 bits.
Second == {Entry(160, 64, AVAILABLE), Entry(165, 50, AVAILABLE),
           Entry(160, 13, AVAILABLE), Entry(160, 352, AVAILABLE),
           Entry(160, 600, AVAILABLE)}

\* The orders of the elements of a set of entries.
Orders(S) ==
  {s \in [1..Cardinality(S) -> S] :
     \A i, j \in DOMAIN s : s[i] = s[j] => i = j}

Maps == UNION {Orders({f, s} \cup more) :
                 f \in First, s \in Second, more \in {{}, {Low}, {Hole}, {Above}}}

\* The multiboot structures in low memory, behind the kernel, or scattered.
Places == {<<1, 4, 12>>, <<60, 48, 56>>, <<84, 66, 188>>}

\* None, behind the kernel, further up, in the second region, empty, in the
\* hole between the regions.
Modules == {<<0, 0>>, <<48, 58>>, <<64, 84>>, <<176, 186>>, <<96, 96>>,
            <<144, 150>>}

Machine(map, kend, place, mod, memmap, count) ==
  [mem_map |-> memmap, mods |-> count > 0 \/ mod[1] = 0, mods_count |-> count,
   mmap |-> map, mbi |-> place[1], mmap_addr |-> place[2],
   mods_addr |-> place[3], mod_start |-> mod[1], mod_end |-> mod[2],
   kernel_end |-> kend]

MCMachines ==
  {b \in {Machine(map, kend, place, mod, TRUE, IF mod[1] = 0 THEN 0 ELSE 1) :
            map \in Maps, kend \in {44, 48}, place \in Places, mod \in Modules}
         \cup {Machine(map, 44, <<1, 4, 12>>, <<64, 84>>, FALSE, 1) : map \in Maps}
         \cup {Machine(map, 44, <<1, 4, 12>>, <<64, 84>>, TRUE, 2) : map \in Maps} :
     WellLoaded(b)}

=============================================================================
