------------------------------ MODULE PmmBitmap ------------------------------
(***************************************************************************)
(* The bitmap of the physical memory manager, kernel/modules/mem/pmm.c, as *)
(* operators that take and return a bitmap, so that the state machines     *)
(* built on it (Pmm, Heap, Vmm) call it as the C code does.                *)
(*                                                                         *)
(* A physical address is modelled by its frame number (address divided by  *)
(* PAGE_SIZE), so the pointer NULL and the address of frame 0 are the same *)
(* value, exactly as in the code.  A bitmap is the set of the frames whose *)
(* bit is 1.                                                               *)
(***************************************************************************)
EXTENDS Naturals, Sequences, FiniteSets

CONSTANTS
    NFrames,    \* MAX_MEM / PAGE_SIZE: the number of frames the bitmap covers
    Reserved,   \* 8 MB / PAGE_SIZE: the low frames pmm_init never gives out
    MMaps       \* the memory maps the boot loader may hand over

(* A memory map is a sequence of UEFI descriptors.                         *)
Descriptor == [type : Nat, start : Nat, pages : Nat]

ASSUME NFramesAssumption == NFrames \in Nat
ASSUME ReservedAssumption == Reserved \in Nat \ {0}
ASSUME MMapsAssumption == MMaps \subseteq Seq(Descriptor)

EFI_CONVENTIONAL_MEMORY == 7

Frames == 0 .. NFrames - 1

NULL == 0

-----------------------------------------------------------------------------
(* The bitmap                                                              *)

set_bit(bm, i) == IF i < NFrames THEN bm \cup {i} ELSE bm

clear_bit(bm, i) == IF i < NFrames THEN bm \ {i} ELSE bm

test_bit(bm, i) == i >= NFrames \/ i \in bm

(* The frames the first loop of pmm_init passes to clear_bit.              *)
ConventionalFrames(m) ==
    UNION { m[i].start .. (m[i].start + m[i].pages - 1) :
                i \in { j \in DOMAIN m : m[j].type = EFI_CONVENTIONAL_MEMORY } }

(* Mutant: the low frames are not set again.                               *)
InitialBitmap_noReserve(m) == Frames \ ConventionalFrames(m)

(* All bits set, then conventional memory cleared, then the low frames set *)
(* again; clear_bit and set_bit ignore what is not in Frames.              *)
InitialBitmap(m) ==
    (Frames \ ConventionalFrames(m)) \cup { f \in Frames : f < Reserved }

(* Mutant: the scan stops one frame early.                                 *)
ClearFrames_short(bm, n) == { i \in 0 .. n - 1 : i + 1 < n /\ ~ test_bit(bm, i) }

(* The frames the scan of pmm_alloc_frame would accept.                    *)
ClearFrames(bm, n) == { i \in 0 .. n - 1 : ~ test_bit(bm, i) }

(* Mutant: the scan runs downwards.                                        *)
Lowest_highest(S) == CHOOSE i \in S : \A j \in S : i >= j

Lowest(S) == CHOOSE i \in S : \A j \in S : i <= j

(* Mutant: the bit of the frame returned is not set.                       *)
AllocFrame_unmarked(bm, n) ==
    [frame |-> IF ClearFrames(bm, n) = {} THEN NULL ELSE Lowest(ClearFrames(bm, n)),
     bits |-> bm]

(* pmm_alloc_frame as a function of the bitmap and total_frames: the frame *)
(* returned (NULL when there is none) and the bitmap it leaves.            *)
AllocFrame(bm, n) ==
    LET clear == ClearFrames(bm, n)
    IN  IF clear = {}
        THEN [frame |-> NULL, bits |-> bm]
        ELSE [frame |-> Lowest(clear), bits |-> set_bit(bm, Lowest(clear))]

(* Mutant: the frame is not given back.                                    *)
FreeFrame_lost(bm, f) == bm

FreeFrame(bm, f) == clear_bit(bm, f)

pmm_get_free_frames(bm, n) == Cardinality(ClearFrames(bm, n))

(* The frames a client may ever get: conventional memory that the bitmap   *)
(* covers, above the first 8 MB.                                           *)
Usable(m) == { f \in ConventionalFrames(m) : f < NFrames /\ f >= Reserved }
=============================================================================
