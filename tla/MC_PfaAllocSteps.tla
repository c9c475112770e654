-------------------------- MODULE MC_PfaAllocSteps --------------------------
(***************************************************************************)
(* Every pattern of free and used pages of three regions of 6, 0 and 3     *)
(* pages (the second lost all its pages to the metadata): 512 pagemaps,    *)
(* with runs of every length before and after a used page.                 *)
(***************************************************************************)
EXTENDS PfaAllocSteps

MCFirstPage == <<1, 8, 9>>
MCNbPages   == <<6, 0, 3>>
MCCounts    == 0..4 \cup {7}

Patterns(r) == [Pages(r) -> {PAGE_FREE, PAGE_USED}]

MCPagemaps == {<<a, b, c>> : a \in Patterns(1), b \in Patterns(2), c \in Patterns(3)}

=============================================================================
