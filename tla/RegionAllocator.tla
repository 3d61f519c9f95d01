--------------------------- MODULE RegionAllocator ---------------------------
(***************************************************************************)
(* What the virtual memory manager promises about address ranges: a region *)
(* handed out is fresh, it starts where the last one ended, and it belongs *)
(* to its owner until the owner gives it back; a request may be refused,   *)
(* and then nothing changes.  Vmm implements this specification, Process   *)
(* is built on it.                                                         *)
(***************************************************************************)
EXTENDS Naturals

CONSTANT Counts      \* the page counts clients ask for

VARIABLES
    next,            \* the first page never handed out
    regions          \* the regions in their owners' hands: [vaddr, pages]

vars == <<next, regions>>

Init == next \in Nat /\ regions = {}

Alloc == \E n \in Counts :
    /\ regions' = regions \cup {[vaddr |-> next, pages |-> n]}
    /\ next' = next + n

Free == \E r \in regions :
    /\ regions' = regions \ {r}
    /\ UNCHANGED next

Next == Alloc \/ Free

Spec == Init /\ [][Next]_vars
=============================================================================
