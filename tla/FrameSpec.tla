------------------------------ MODULE FrameSpec ------------------------------
(***************************************************************************)
(* What the page frame allocator promises its callers, without a pagemap:  *)
(* a set of free frames and the blocks the callers hold.  A request gets a *)
(* run of free frames inside one region and is refused only when no region *)
(* has one; giving a block back frees exactly its frames; every other use  *)
(* of pfa_free() halts the kernel and changes nothing.                     *)
(***************************************************************************)
EXTENDS Integers

CONSTANTS
  Memory,    \* the regions, each a set of consecutive frames
  Requests,  \* the numbers of frames the callers ask for
  BadPage    \* the answer to a request that cannot be served

VARIABLES
  free,      \* the frames nobody holds
  held,      \* the blocks the callers hold: [pgf: first frame, n: frames]
  req,       \* the last request
  ret,       \* its answer
  halted     \* the kernel panicked

vars == <<free, held, req, ret, halted>>

Run(f, n) == f..(f + n - 1)

Available(f, n) == Run(f, n) \subseteq free /\ \E R \in Memory : Run(f, n) \subseteq R

Init ==
  /\ free = UNION Memory
  /\ held = {}
  /\ req = 0
  /\ ret = BadPage
  /\ halted = FALSE

Alloc(f, n) ==
  /\ ~ halted
  /\ n > 0
  /\ Available(f, n)
  /\ free' = free \ Run(f, n)
  /\ held' = held \cup {[pgf |-> f, n |-> n]}
  /\ req' = n
  /\ ret' = f
  /\ UNCHANGED halted

Refuse(n) ==
  /\ ~ halted
  /\ n > 0 => \A f \in free : ~ Available(f, n)
  /\ req' = n
  /\ ret' = BadPage
  /\ UNCHANGED <<free, held, halted>>

Free(b) ==
  /\ ~ halted
  /\ free' = free \cup Run(b.pgf, b.n)
  /\ held' = held \ {b}
  /\ UNCHANGED <<req, ret, halted>>

Misuse ==
  /\ ~ halted
  /\ halted' = TRUE
  /\ UNCHANGED <<free, held, req, ret>>

Next ==
  \/ \E n \in Requests : Refuse(n) \/ \E f \in free : Alloc(f, n)
  \/ \E b \in held : Free(b)
  \/ Misuse

Spec == Init /\ [][Next]_vars

=============================================================================
