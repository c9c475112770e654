------------------------------- MODULE MC_Pfa -------------------------------
(***************************************************************************)
(* Two regions of 5 and 3 frames with a hole between them; requests of up  *)
(* to 4 frames (served by the first region only) and of 6 (by none).       *)
(***************************************************************************)
EXTENDS PageFrameAllocator

MCFirstPage == <<2, 9>>
MCNbPages   == <<5, 3>>
MCRequests  == {0, 1, 2, 4, 6}

\* The layout keeps clear of the top of the address space, where the bound
\* that find_region() computes would wrap.
ASSUME TopIsFree

=============================================================================
