--------------------------- MODULE FrameAllocator ---------------------------
(***************************************************************************)
(* What a physical frame allocator promises to its clients: there is a     *)
(* fixed pool of frames, every frame of the pool is either available or    *)
(* owned by exactly one client, Alloc moves some available frame to the    *)
(* owned ones, Free moves an owned frame back.  Nothing is said of WHICH   *)
(* available frame is returned.  Pmm implements this specification.        *)
(***************************************************************************)
CONSTANT Frames

VARIABLES avail, owned

vars == <<avail, owned>>

Init == avail \in SUBSET Frames /\ owned = {}

Alloc == \E f \in avail : /\ avail' = avail \ {f}
                          /\ owned' = owned \cup {f}

Free == \E f \in owned : /\ avail' = avail \cup {f}
                         /\ owned' = owned \ {f}

Next == Alloc \/ Free

Spec == Init /\ [][Next]_vars
=============================================================================
