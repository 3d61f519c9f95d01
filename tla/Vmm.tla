-------------------------------- MODULE Vmm --------------------------------
(***************************************************************************)
(* The virtual memory manager, kernel/modules/mem/vmm.c, on top of Paging. *)
(* Its calls run to completion (no interrupt handler touches memory        *)
(* management), so each is one step.  Virtual addresses are page numbers.  *)
(***************************************************************************)
EXTENDS Paging

CONSTANTS
    StartVaddrs,   \* possible values of next_vaddr when the history starts
    MaxPages,      \* bound: pages handed out from the start of the history
    Counts,        \* page counts clients ask for
    MaxVma,        \* size of vma_nodes (128)
    Boots,         \* the memory the firmware may leave: [mmap, mem]
    KernelPage,    \* a page the kernel itself runs from
    UserWord       \* a word clients store in their memory

ASSUME StartVaddrsAssumption == StartVaddrs \subseteq Nat \ {0}
ASSUME CountsAssumption == Counts \subseteq Nat \ {0}
ASSUME MaxVmaAssumption == MaxVma \in Nat
ASSUME MaxPagesAssumption == MaxPages \in Nat
ASSUME BootsAssumption == \A b \in Boots : b.mmap \in Seq(Descriptor) /\ b.mem \in Memory
ASSUME KernelPageAssumption == KernelPage \in Nat \ {NULL}
ASSUME UserWordAssumption == UserWord \in Word

VARIABLES
    machine,       \* physical memory and the bitmap, see Paging
    vma_list,      \* the list, first node first: [vaddr, pages]
    vma_count,
    next_vaddr,
    live,          \* ghost: regions handed out and not given back,
                   \*        with the frames taken for their pages
    history,       \* ghost: what has gone wrong so far
    panicked       \* a NULL dereference ended in a page fault

vmm_vars == <<machine, vma_list, vma_count, next_vaddr, live, history, panicked>>

(* What may go wrong: a ref_count overlaps something in use, a request     *)
(* runs out of data frames, a table is refused a frame, a NULL table is    *)
(* dereferenced, the node array is full, the word that paging.c takes for  *)
(* the ref_count of a firmware table cannot count, see Uncounted.          *)
Mishaps == {"overlap", "oom", "starved", "wild", "unlisted", "uncounted"}

-----------------------------------------------------------------------------
(* The loop of vmm_alloc: the machine and the frames taken after i pages,  *)
(* oom once pmm_alloc_frame has returned NULL.                             *)
MapPages(m, v, n) ==
    LET step[i \in 0 .. n] ==
            IF i = 0 THEN [m |-> m, frames |-> << >>, oom |-> FALSE]
            ELSE LET s == step[i-1]
                     a == AllocFrame(s.m.bits, NFrames)
                 IN  IF s.oom \/ a.frame = NULL
                     THEN [s EXCEPT !.oom = TRUE]
                     ELSE [m |-> paging_map(Take(s.m, a, HoldsCount(s.m, a.frame)),
                                            v + i - 1, a.frame),
                           frames |-> Append(s.frames, a.frame),
                           oom |-> FALSE]
    IN  step[n]

(* The loop of vmm_free.                                                   *)
UnmapPages(m, v, n) ==
    LET step[i \in 0 .. n] ==
            IF i = 0 THEN m
            ELSE LET s == step[i-1]
                     p == paging_get_physical(s, v + i - 1)
                     u == paging_unmap(s, v + i - 1)
                 IN  IF p = NULL THEN s
                     ELSE [u EXCEPT !.bits = FreeFrame(@, p)]
    IN  step[n]

(* The search of vmm_free: positions of the nodes with the given address.  *)
Found(list, v) == { i \in 1 .. Len(list) : list[i].vaddr = v }

(* Mutant: the rest of the list is cut off.                                *)
Without_rest(list, i) == SubSeq(list, 1, i - 1)

Without(list, i) == SubSeq(list, 1, i - 1) \o SubSeq(list, i + 1, Len(list))

NodeLeft == vma_count < MaxVma

(* Mutant: the bump pointer moves by one page.                             *)
RegionEnd_onePage(v, n) == v + 1

RegionEnd(v, n) == v + n

(* The tables that paging.c has made: those in frames of pmm.c's pool.     *)
KernelTables(m) == ReachableTables(m) \cap m.pool

(* The word behind a firmware table is zero, so that the table is released *)
(* with its first entry of the kernel's, or so large that it gets there by *)
(* counting the entries of the kernel's up.                                *)
Uncounted(m) ==
    \E t \in ReachableTables(m) : ref_count(m, t) \notin 1 .. WordCount - 1 - Entries

-----------------------------------------------------------------------------
(* The state after mem_init has run pmm_init, paging_init and vmm_init.    *)
VmmInit ==
    /\ \E b \in Boots :
          machine = [mem |-> b.mem, bits |-> InitialBitmap(b.mmap),
                     pool |-> Usable(b.mmap),
                     starved |-> FALSE, wild |-> FALSE, shared |-> FALSE]
    /\ vma_list = << >>
    /\ vma_count = 0
    /\ next_vaddr \in StartVaddrs
    /\ live = {}
    /\ history = [h \in Mishaps |->
                     (h = "overlap" /\ Overlap(machine)) \/ (h = "uncounted" /\ Uncounted(machine))]
    /\ panicked = FALSE

(* A call records its own mishaps.                                         *)
Watched(m) == [[[m EXCEPT !.starved = FALSE] EXCEPT !.wild = FALSE] EXCEPT !.shared = FALSE]

(* A call that runs out of frames returns NULL and leaves the pages it has *)
(* mapped so far as they are.                                              *)
vmm_alloc(n) ==
    LET r == MapPages(Watched(machine), next_vaddr, n)
    IN  /\ ~ panicked
        /\ \E v \in StartVaddrs : next_vaddr + n \in v .. v + MaxPages
        /\ machine' = r.m
        /\ panicked' \in (IF r.m.wild THEN BOOLEAN ELSE {FALSE})
        /\ history' = [overlap |-> history.overlap \/ r.m.shared,
                       oom |-> history.oom \/ r.oom,
                       starved |-> history.starved \/ r.m.starved,
                       wild |-> history.wild \/ r.m.wild,
                       unlisted |-> history.unlisted \/ (~ r.oom /\ ~ NodeLeft),
                       uncounted |-> history.uncounted]
        /\ IF r.oom
           THEN UNCHANGED <<vma_list, vma_count, next_vaddr, live>>
           ELSE /\ IF NodeLeft
                   THEN /\ vma_list' = <<[vaddr |-> next_vaddr, pages |-> n]>> \o vma_list
                        /\ vma_count' = vma_count + 1
                   ELSE UNCHANGED <<vma_list, vma_count>>
                /\ next_vaddr' = RegionEnd(next_vaddr, n)
                /\ live' = live \cup {[vaddr |-> next_vaddr, pages |-> n,
                                       frames |-> r.frames]}

(* The owner of r gives it back; a region without a node is not found.     *)
vmm_free(r) ==
    /\ ~ panicked
    /\ r \in live
    /\ live' = live \ {r}
    /\ IF Found(vma_list, r.vaddr) = {}
       THEN UNCHANGED <<machine, vma_list>>
       ELSE LET i == Lowest(Found(vma_list, r.vaddr))
                m == UnmapPages(machine, vma_list[i].vaddr, vma_list[i].pages)
            IN  /\ machine' = m
                /\ vma_list' = Without(vma_list, i)
    /\ UNCHANGED <<vma_count, next_vaddr, history, panicked>>

(* The owner of r stores a word at its start (run_vmm_test).  The address  *)
(* is translated by the processor; an unmapped one faults.                 *)
store(r) ==
    LET f == Translate(machine, r.vaddr)
    IN  /\ ~ panicked
        /\ r \in live
        /\ panicked' = (f = NULL)
        /\ machine' = IF f = NULL THEN machine ELSE SetWord(machine, f, 0, UserWord)
        /\ UNCHANGED <<vma_list, vma_count, next_vaddr, live, history>>

VmmNext ==
    \/ \E n \in Counts : vmm_alloc(n)
    \/ \E r \in live : vmm_free(r) \/ store(r)

VmmSpec == VmmInit /\ [][VmmNext]_vmm_vars

-----------------------------------------------------------------------------
(* Properties                                                              *)

PagesOf(r) == r.vaddr .. (r.vaddr + r.pages - 1)

VmmTypeOK ==
    /\ machine.mem \in Memory
    /\ machine.bits \subseteq Frames
    /\ vma_list \in Seq([vaddr : Nat, pages : Counts])
    /\ vma_count \in 0 .. MaxVma
    /\ next_vaddr \in Nat
    /\ \A r \in live : r.vaddr \in Nat /\ r.pages \in Counts /\ r.frames \in Seq(Frames)
    /\ history \in [Mishaps -> BOOLEAN]
    /\ panicked \in BOOLEAN

(* The VMA list and the bump pointer agree with what owners hold, whatever *)
(* happens to memory underneath: regions in owners' hands never overlap    *)
(* and end below next_vaddr, every node is such a region, no address has   *)
(* two nodes, and only a full node array leaves a region without one.      *)
VmaListSound ==
    /\ \A r \in live : r.vaddr + r.pages <= next_vaddr
    /\ \A r, s \in live : r # s => PagesOf(r) \cap PagesOf(s) = {}
    /\ \A i \in 1 .. Len(vma_list) :
          \E r \in live : vma_list[i] = [vaddr |-> r.vaddr, pages |-> r.pages]
    /\ \A i, j \in 1 .. Len(vma_list) : vma_list[i].vaddr = vma_list[j].vaddr => i = j
    /\ Len(vma_list) <= vma_count
    /\ ~ history.unlisted =>
          \A r \in live : Found(vma_list, r.vaddr) # {}

(* "Increment parent ref count" (paging.c:35): every table paging.c made   *)
(* counts its own present entries.                                         *)
RefCountExact ==
    \A t \in KernelTables(machine) :
        ref_count(machine, t) = Cardinality({ i \in Index : Present(machine.mem[t][i]) })

(* As long as no frame was taken that shares a ref_count, the words behind *)
(* the firmware's tables can count and no NULL table is written through,   *)
(* the counts are right through every order of allocations, failures and   *)
(* frees.                                                                  *)
CountsApart == ~ history.overlap /\ ~ history.uncounted

RefCountExactApart == CountsApart /\ ~ history.wild => RefCountExact

(* As long as counts are apart and no table was refused a frame, owners    *)
(* can rely on their memory: the processor and paging_get_physical both    *)
(* map every page of a region to the frame taken for it, that frame is     *)
(* marked used, and it is no table's and no other page's.                  *)
RegionsBacked ==
    CountsApart /\ ~ history.starved =>
        /\ \A r \in live : \A i \in 1 .. r.pages :
              LET f == r.frames[i]
              IN  /\ Translate(machine, r.vaddr + i - 1) = f
                  /\ paging_get_physical(machine, r.vaddr + i - 1) = f
                  /\ f \in InUse(machine)
                  /\ f \notin ReachableTables(machine)
        /\ \A r, s \in live : \A i \in 1 .. r.pages : \A j \in 1 .. s.pages :
              r.frames[i] = s.frames[j] => r = s /\ i = j

(* Nothing leaks and nothing is freed early: unless a request ran out of   *)
(* memory, a region got no node or a ref_count overlapped something, the   *)
(* used frames are exactly the pages in owners' hands and the tables that  *)
(* have at least one entry.                                                *)
NoLeak ==
    (\A h \in Mishaps : ~ history[h]) =>
        /\ InUse(machine) =
              KernelTables(machine) \cup
              UNION { { r.frames[i] : i \in 1 .. r.pages } : r \in live }
        /\ \A t \in KernelTables(machine) : \E i \in Index : Present(machine.mem[t][i])

(* Freeing regions never takes away the firmware's mapping of the kernel,  *)
(* as long as counts are apart and no NULL table is written through: the   *)
(* firmware's tables are never released.                                   *)
KernelStaysMapped ==
    CountsApart /\ ~ history.wild => Translate(machine, KernelPage) = KernelPage

(* "Unmap and free frames" (vmm.c:54): when the owner of a listed region   *)
(* frees it, the frames taken for its pages are free again.                *)
FreeReleasesFrames ==
    [][\A r \in live :
          vmm_free(r) /\ Found(vma_list, r.vaddr) # {} =>
              \A i \in 1 .. r.pages : r.frames[i] \notin machine'.bits]_vmm_vars

(* vmm.c implements the abstract allocator of address ranges.              *)
Regions == INSTANCE RegionAllocator
    WITH Counts <- Counts,
         next <- next_vaddr,
         regions <- { [vaddr |-> r.vaddr, pages |-> r.pages] : r \in live }

VmmImplementsRegionAllocator == Regions!Spec
=============================================================================
