-------------------------------- MODULE Pmm --------------------------------
(***************************************************************************)
(* The physical memory manager, kernel/modules/mem/pmm.c, as a state       *)
(* machine: its two statics and the calls of its clients.                  *)
(***************************************************************************)
EXTENDS PmmBitmap

(* mmap and held are not variables of pmm.c: mmap is the map passed to     *)
(* pmm_init, held the frames that clients were given and have not freed.   *)
(* Clients free what they hold, once.                                      *)

VARIABLES
    mmap,
    pmm_bitmap,
    total_frames,
    held

pmm_vars == <<mmap, pmm_bitmap, total_frames, held>>

(* Before pmm_init both statics are zero.                                  *)
PmmInit ==
    /\ mmap \in MMaps
    /\ pmm_bitmap = {}
    /\ total_frames = 0
    /\ held = {}

pmm_init ==
    /\ total_frames = 0
    /\ total_frames' = NFrames
    /\ pmm_bitmap' = InitialBitmap(mmap)
    /\ UNCHANGED <<mmap, held>>

(* A call of pmm_alloc_frame: the client holds what it returned, unless it *)
(* returned NULL.                                                          *)
pmm_alloc_frame ==
    LET a == AllocFrame(pmm_bitmap, total_frames)
    IN  /\ total_frames # 0
        /\ pmm_bitmap' = a.bits
        /\ held' = IF a.frame = NULL THEN held ELSE held \cup {a.frame}
        /\ UNCHANGED <<mmap, total_frames>>

pmm_free_frame(f) ==
    /\ f \in held
    /\ pmm_bitmap' = FreeFrame(pmm_bitmap, f)
    /\ held' = held \ {f}
    /\ UNCHANGED <<mmap, total_frames>>

PmmNext == pmm_init \/ pmm_alloc_frame \/ (\E f \in held : pmm_free_frame(f))

PmmSpec == PmmInit /\ [][PmmNext]_pmm_vars

-----------------------------------------------------------------------------
(* Properties                                                              *)

(* Type correctness of the allocator's statics.                            *)
PmmTypeOK ==
    /\ mmap \in MMaps
    /\ pmm_bitmap \subseteq Frames
    /\ total_frames \in {0, NFrames}
    /\ held \subseteq Frames

(* pmm_alloc_frame, pmm_free_frame and the scan of pmm_init together never *)
(* lose a frame, never hand one out twice and never hand out one that is   *)
(* firmware's or the kernel's: after pmm_init the clear bits are exactly   *)
(* the usable frames no client holds, and clients hold usable frames only. *)
FrameAccounting ==
    total_frames # 0 =>
        /\ held \subseteq Usable(mmap)
        /\ Frames \ pmm_bitmap = Usable(mmap) \ held

(* The free-frame count that sysinfo, the shell and the panels display is  *)
(* the size of the usable memory less what is held, whatever the order of  *)
(* allocations and frees.                                                  *)
FreeCountExact ==
    total_frames # 0 =>
        pmm_get_free_frames(pmm_bitmap, total_frames)
            = Cardinality(Usable(mmap)) - Cardinality(held)

(* A NULL result means exhaustion and nothing else: in every state a call  *)
(* of pmm_alloc_frame would return NULL, which is also the address of      *)
(* frame 0, exactly when clients hold all usable memory.                   *)
NullMeansExhausted ==
    total_frames # 0 =>
        (AllocFrame(pmm_bitmap, total_frames).frame = NULL <=> Usable(mmap) \subseteq held)

(* pmm.c implements the abstract allocator: its pool is the usable memory  *)
(* of the map, available from the start, the clear bits after pmm_init.    *)
Abstract == INSTANCE FrameAllocator
    WITH Frames <- Frames,
         avail <- IF total_frames = 0 THEN Usable(mmap) ELSE Frames \ pmm_bitmap,
         owned <- held

PmmImplementsFrameAllocator == Abstract!Spec
=============================================================================
