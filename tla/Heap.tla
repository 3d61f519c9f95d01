-------------------------------- MODULE Heap --------------------------------
(***************************************************************************)
(* The kernel heap, kernel/modules/mem/mem.c, on top of the physical       *)
(* memory manager.  mem_alloc takes one frame for each page of the block   *)
(* and assumes that they are consecutive; mem_free computes the frames it  *)
(* gives back from the address of the block and the header it stored in    *)
(* front of it.  The ghost variable blocks remembers what mem_alloc really *)
(* obtained, so that the assumption can be stated.                         *)
(***************************************************************************)
EXTENDS Pmm

CONSTANTS
    PageSize,    \* PAGE_SIZE, in the units sizes are counted in
    HeaderSize,  \* sizeof(MemHeader)
    Sizes,       \* the sizes clients ask for
    MaxBlocks,   \* bound on the number of live blocks
    Junk         \* what a client's own data looks like when read as a header

ASSUME PageSizeAssumption == PageSize \in Nat \ {0}
ASSUME HeaderSizeAssumption == HeaderSize \in 1 .. PageSize
ASSUME SizesAssumption == Sizes \subseteq Nat
ASSUME JunkAssumption == Junk \in Nat

VARIABLES
    total_ram,   \* total_ram_bytes, counted in pages
    header,      \* the first word of every frame, where a MemHeader may be
    blocks,      \* ghost: the live blocks [base, size, got]
    intact,      \* ghost: every block so far got consecutive frames
    fresh        \* ghost: nothing has been freed yet

heap_vars == <<total_ram, header, blocks, intact, fresh>>

-----------------------------------------------------------------------------
(* Mutant: the header is forgotten.                                        *)
Pages_noHeader(size) == (size + PageSize - 1) \div PageSize

(* Pages that mem_alloc rounds a request up to.                            *)
Pages(size) == (size + HeaderSize + PageSize - 1) \div PageSize

(* The frames that the addresses of a block of n pages at base fall into.  *)
Extent(base, n) == base .. (base + n - 1)

(* Mutant: the first descriptor is missed.                                 *)
ConventionalPages_skipFirst(m) ==
    LET sum[i \in 0 .. Len(m)] ==
            IF i <= 1 THEN 0
            ELSE sum[i-1] + IF m[i].type = EFI_CONVENTIONAL_MEMORY
                            THEN m[i].pages ELSE 0
    IN  sum[Len(m)]

(* Pages of conventional memory in a map, as mem_init adds them up: every  *)
(* descriptor counts, whatever lies below 8 MB, above 4 GB or is repeated. *)
ConventionalPages(m) ==
    LET sum[i \in 0 .. Len(m)] ==
            IF i = 0 THEN 0
            ELSE sum[i-1] + IF m[i].type = EFI_CONVENTIONAL_MEMORY
                            THEN m[i].pages ELSE 0
    IN  sum[Len(m)]

(* The frames and the bitmap after k calls of pmm_alloc_frame, for every   *)
(* k <= n.  Results of the later calls are dropped by the code, a NULL     *)
(* among them too.                                                         *)
Takes(bm, n) ==
    LET t[k \in 0 .. n] ==
            IF k = 0 THEN [bits |-> bm, got |-> {}]
            ELSE LET a == AllocFrame(t[k-1].bits, total_frames)
                 IN  [bits |-> a.bits, got |-> t[k-1].got \cup ({a.frame} \ {NULL})]
    IN  t[n]

-----------------------------------------------------------------------------
HeapInit ==
    /\ PmmInit
    /\ total_ram = 0
    /\ header = [f \in Frames |-> 0]
    /\ blocks = {}
    /\ intact = TRUE
    /\ fresh = TRUE

mem_init ==
    /\ pmm_init
    /\ total_ram' = ConventionalPages(mmap)
    /\ UNCHANGED <<header, blocks, intact, fresh>>

(* A call that finds no frame returns NULL; any other call succeeds.       *)
mem_alloc(size) ==
    LET n     == Pages(size)
        first == AllocFrame(pmm_bitmap, total_frames).frame
        all   == Takes(pmm_bitmap, n)
    IN  /\ total_frames # 0
        /\ Cardinality(blocks) < MaxBlocks
        /\ first # NULL
        /\ header' = [header EXCEPT ![first] = n]
        /\ pmm_bitmap' = all.bits
        /\ blocks' = blocks \cup {[base |-> first, size |-> size, got |-> all.got]}
        /\ intact' = (intact /\ all.got = Extent(first, n))
        /\ UNCHANGED <<mmap, total_frames, held, total_ram, fresh>>

(* Mutant: only the first frame of the block is freed.                     *)
mem_free_firstOnly(b) ==
    /\ b \in blocks
    /\ pmm_bitmap' = FreeFrame(pmm_bitmap, b.base)
    /\ blocks' = blocks \ {b}
    /\ fresh' = FALSE
    /\ UNCHANGED <<mmap, total_frames, held, total_ram, header, intact>>

mem_free(b) ==
    /\ b \in blocks
    /\ pmm_bitmap' = { f \in pmm_bitmap : f \notin Extent(b.base, header[b.base]) }
    /\ blocks' = blocks \ {b}
    /\ fresh' = FALSE
    /\ UNCHANGED <<mmap, total_frames, held, total_ram, header, intact>>

(* The owner of a block fills it (fb_put_pixel, fb_clear): the payload     *)
(* reaches into every frame of the extent behind the header.               *)
fill(b) ==
    /\ b \in blocks
    /\ header' = [f \in Frames |->
                    IF f \in Extent(b.base, Pages(b.size)) \ {b.base}
                    THEN Junk ELSE header[f]]
    /\ UNCHANGED <<pmm_vars, total_ram, blocks, intact, fresh>>

(* Clients that take single frames from the same bitmap.                   *)
frame_client ==
    \/ pmm_alloc_frame /\ UNCHANGED heap_vars
    \/ /\ \E f \in held : pmm_free_frame(f)
       /\ fresh' = FALSE
       /\ UNCHANGED <<total_ram, header, blocks, intact>>

HeapNext ==
    \/ mem_init
    \/ \E size \in Sizes : mem_alloc(size)
    \/ \E b \in blocks : mem_free(b) \/ fill(b)
    \/ frame_client

HeapSpec == HeapInit /\ [][HeapNext]_<<pmm_vars, heap_vars>>

-----------------------------------------------------------------------------
(* Properties                                                              *)

Taken == UNION { b.got : b \in blocks }

HeapTypeOK ==
    /\ PmmTypeOK
    /\ total_ram \in Nat
    /\ header \in [Frames -> Nat]
    /\ \A b \in blocks : b.base \in Frames /\ b.size \in Sizes /\ b.got \subseteq Frames
    /\ intact \in BOOLEAN
    /\ fresh \in BOOLEAN

(* While every block has got consecutive frames, blocks are what mem.c     *)
(* takes them for: the frames a block's addresses fall into are its own,   *)
(* no other block's and no other client's, its payload fits, and no client *)
(* writing its own payload ever destroys the page count in a header.       *)
BlocksSound ==
    intact =>
        \A b \in blocks :
            /\ b.got = Extent(b.base, header[b.base])
            /\ HeaderSize + b.size <= PageSize * Cardinality(b.got)
            /\ b.got \cap held = {}
            /\ \A c \in blocks \ {b} : b.got \cap c.got = {}

(* While every block has got consecutive frames, mem_alloc and mem_free    *)
(* lose no frame and release no frame that somebody still uses.            *)
HeapAccounting ==
    intact /\ total_frames # 0 =>
        Frames \ pmm_bitmap = Usable(mmap) \ (held \cup Taken)

GapFree(S) == \A f, g \in S : f .. g \subseteq S

(* Holes in the memory map, earlier frees and exhaustion are the only ways *)
(* for a block to get scattered frames: as long as nothing has been freed, *)
(* memory above 8 MB is one run of frames and some of it is left, every    *)
(* block is consecutive.  The back buffer, the only block of the kernel,   *)
(* relies on this at boot.                                                 *)
ScatterCauses ==
    fresh /\ GapFree(Usable(mmap)) /\ ClearFrames(pmm_bitmap, total_frames) # {}
        => intact

(* sysinfo subtracts the free frames from total_ram_bytes / PAGE_SIZE in   *)
(* unsigned arithmetic: while the heap is sound there are never more free  *)
(* frames than pages of RAM, so the memory shown as used does not wrap.    *)
UsageNeverNegative ==
    intact /\ total_frames # 0 =>
        pmm_get_free_frames(pmm_bitmap, total_frames) <= total_ram

(* "Allocate remaining pages" (mem.c:65): the pages of a block are frames  *)
(* that mem_alloc has obtained for it.                                     *)
BlockPagesAllocated ==
    \A b \in blocks : Extent(b.base, Pages(b.size)) \subseteq b.got
=============================================================================
