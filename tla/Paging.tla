------------------------------- MODULE Paging -------------------------------
(***************************************************************************)
(* The page-table code, kernel/modules/mem/paging.c, as operators on the   *)
(* physical memory.  Physical memory is identity mapped, so a PageTable *  *)
(* is a frame number and NULL is frame 0.                                  *)
(*                                                                         *)
(* A machine is a record: mem gives the words of every frame, bits the     *)
(* bitmap of pmm.c.  The rest are ghosts: pool, the frames pmm.c may give  *)
(* out; starved, a frame for a table was refused; wild, a NULL table was   *)
(* dereferenced; shared, a frame was taken that a ref_count shares.        *)
(*                                                                         *)
(* struct PageTable is 512 entries FOLLOWED by ref_count, while a table    *)
(* gets one frame: the ref_count of the table in frame t is the first word *)
(* of frame t + 1.  A word is frame * PageUnit + flags; MAX_MEM is 2^32,   *)
(* so the 32 bits of ref_count are exactly the words of frames below       *)
(* MAX_MEM.                                                                *)
(***************************************************************************)
EXTENDS PmmBitmap

CONSTANTS
    Entries,     \* entries of a table (512)
    PageUnit,    \* PAGE_SIZE as the weight of a frame number in a word
    Root         \* the frame in cr3, static pml4 after paging_init

ASSUME EntriesAssumption == Entries \in Nat \ {0, 1}
ASSUME PageUnitAssumption ==
    PageUnit \in Nat /\ PageUnit > 7 /\ PageUnit % 8 = 0 /\ PageUnit > Entries
ASSUME RootAssumption == Root \in Frames \ {NULL}

PAGE_PRESENT == 1
PAGE_WRITABLE == 2
PAGE_HUGE == 4       \* the PS bit: tested by the processor, never by paging.c

WordCount == NFrames * PageUnit
Word == 0 .. WordCount - 1
Index == 0 .. Entries - 1

(* One frame more than the bitmap covers, for the ref_count of the last.   *)
Memory == [0 .. NFrames -> [Index -> Word]]

Present(w) == w % 2 = 1
FrameOf(w) == w \div PageUnit
EntryFor(f) == f * PageUnit + PAGE_PRESENT + PAGE_WRITABLE

-----------------------------------------------------------------------------
(* The pages below an entry of the given level: 3 is the PML4, 0 the page  *)
(* table.                                                                  *)
Span(level) ==
    <<1, Entries, Entries * Entries, Entries * Entries * Entries>>[level + 1]

(* Index of page number v in the table of the given level.                 *)
IndexAt(v, level) == (v \div Span(level)) % Entries

ref_count(m, t) == m.mem[t + 1][0]

SetWord(m, f, i, w) == [m EXCEPT !.mem[f][i] = w % WordCount]
SetRef(m, t, n) == SetWord(m, t + 1, 0, (n + WordCount) % WordCount)

memset0(m, f) == [m EXCEPT !.mem[f] = [i \in Index |-> 0]]

Touch(m, t) == [m EXCEPT !.wild = @ \/ t = NULL]

-----------------------------------------------------------------------------
(* The tables in use, as the processor finds them: below the tables in S,  *)
(* and by level.  An entry of the upper levels with the PS bit leads to no *)
(* table.                                                                  *)
Huge(w) == (w \div PAGE_HUGE) % 2 = 1

Leads(w) == Present(w) /\ ~ Huge(w)

Below(m, S) == UNION { { FrameOf(m.mem[t][i]) : i \in { j \in Index : Leads(m.mem[t][j]) } } : t \in S }

Levels(m) ==
    LET pdpts == Below(m, {Root})
        pds   == Below(m, pdpts)
    IN  [level \in 0 .. 3 |->
            IF level = 3 THEN {Root} ELSE IF level = 2 THEN pdpts
            ELSE IF level = 1 THEN pds ELSE Below(m, pds)]

(* All tables but the root.                                                *)
ReachableTables(m) == LET L == Levels(m) IN L[0] \cup L[1] \cup L[2]

Tables(m) == ReachableTables(m) \cup {Root}

InUse(m) == m.pool \cap m.bits

(* Frame f holds the word paging.c takes for the ref_count of a table; the *)
(* ref_count of a table in frame f would lie in a frame that is in use.    *)
HoldsCount(m, f) == \E t \in Tables(m) : t + 1 = f
CountInUse(m, f) == f + 1 \in Tables(m) \cup InUse(m)

(* A ref_count shares a frame with something in use.                       *)
Overlap(m) == \E t \in Tables(m) : CountInUse(m, t)

(* pmm_alloc_frame has answered a; shares: its frame shares a ref_count.   *)
Take(m, a, shares) == [[m EXCEPT !.bits = a.bits] EXCEPT !.shared = @ \/ shares]

-----------------------------------------------------------------------------

(* A new, empty table in frame f, entered at index i of table t.           *)
AddTable(m, t, i, f) ==
    LET m1 == SetRef(SetWord(memset0(m, f), t, i, EntryFor(f)), f, 0)
    IN  SetRef(m1, t, ref_count(m1, t) + 1)

(* get_next_table with create = 0: the table at index i of table t, NULL   *)
(* if there is none.                                                       *)
NextTable(m, t, i) ==
    IF Present(m.mem[t][i]) THEN FrameOf(m.mem[t][i]) ELSE NULL

(* get_next_table with create = 1: the machine after the call and the      *)
(* table it returns.  A NULL table is not noticed.                         *)
get_next_table(m, t, i) ==
    LET a  == AllocFrame(m.bits, NFrames)
        m0 == Take(m, a, HoldsCount(m, a.frame) \/ CountInUse(m, a.frame))
        m1 == AddTable(m0, t, i, a.frame)
    IN  IF Present(m.mem[t][i])
        THEN [m |-> Touch(m, t), table |-> NextTable(m, t, i)]
        ELSE IF a.frame = NULL
        THEN [m |-> [Touch(m, t) EXCEPT !.starved = TRUE], table |-> NULL]
        ELSE [m |-> Touch(m1, t), table |-> NextTable(m1, t, i)]

(* The end of paging_map, with r the page table and the machine so far.    *)
MapEntry(r, i, p) ==
    IF r.table = NULL THEN r.m
    ELSE SetWord(IF Present(r.m.mem[r.table][i]) THEN r.m
                 ELSE SetRef(r.m, r.table, ref_count(r.m, r.table) + 1),
                 r.table, i, EntryFor(p))

paging_map(m, v, p) ==
    LET down(r, level) == get_next_table(r.m, r.table, IndexAt(v, level))
    IN  MapEntry(down(down(down([m |-> m, table |-> Root], 3), 2), 1), IndexAt(v, 0), p)

(* The three tables on the way to page v, NULL from the first missing one. *)
Tables3(m, v) ==
    LET next(t, level) == IF t = NULL THEN NULL ELSE NextTable(m, t, IndexAt(v, level))
    IN  [pdpt |-> next(Root, 3),
         pd   |-> next(next(Root, 3), 2),
         pt   |-> next(next(next(Root, 3), 2), 1)]

(* Mutant: the first entry of the parent is cleared.                       *)
DropTable_firstEntry(m, t, parent, i) ==
    SetWord([m EXCEPT !.bits = FreeFrame(@, t)], parent, 0, 0)

(* Release table t, reached through entry i of its parent.                 *)
DropTable(m, t, parent, i) ==
    SetWord([m EXCEPT !.bits = FreeFrame(@, t)], parent, i, 0)

(* Mutants: the count is not decremented, or twice.                        *)
DecRef_missing(m, t) == m
DecRef_twice(m, t) == SetRef(m, t, ref_count(m, t) - 2)

DecRef(m, t) == SetRef(m, t, ref_count(m, t) - 1)

(* The nested releases of paging_unmap, innermost first; w holds the three *)
(* tables on the way to page v.                                            *)
ReleasePdpt(m, w, v) ==
    IF ref_count(m, w.pdpt) # 0 THEN m
    ELSE DropTable(m, w.pdpt, Root, IndexAt(v, 3))

ReleasePd(m, w, v) ==
    IF ref_count(m, w.pd) # 0 THEN m
    ELSE ReleasePdpt(DecRef(DropTable(m, w.pd, w.pdpt, IndexAt(v, 2)), w.pdpt), w, v)

ReleasePt(m, w, v) ==
    IF ref_count(m, w.pt) # 0 THEN m
    ELSE ReleasePd(DecRef(DropTable(m, w.pt, w.pd, IndexAt(v, 1)), w.pd), w, v)

UnmapEntry(m, w, v) ==
    LET i == IndexAt(v, 0)
    IN  IF w.pt = NULL \/ ~ Present(m.mem[w.pt][i]) THEN m
        ELSE ReleasePt(DecRef(SetWord(m, w.pt, i, m.mem[w.pt][i] - PAGE_PRESENT), w.pt), w, v)

paging_unmap(m, v) == UnmapEntry(m, Tables3(m, v), v)

(* The frame page v is mapped to according to the kernel, NULL if none.    *)
paging_get_physical(m, v) ==
    LET pt == Tables3(m, v).pt
    IN  IF pt = NULL THEN NULL ELSE NextTable(m, pt, IndexAt(v, 0))

-----------------------------------------------------------------------------
(* The processor's own walk (external): like the kernel's, except that an  *)
(* entry of the two middle levels with the PS bit maps a large page; in    *)
(* the PML4 the bit is reserved, and the walk faults.                      *)
Translate(m, v) ==
    LET e3 == m.mem[Root][IndexAt(v, 3)]
        e2 == m.mem[FrameOf(e3)][IndexAt(v, 2)]
        e1 == m.mem[FrameOf(e2)][IndexAt(v, 1)]
        e0 == m.mem[FrameOf(e1)][IndexAt(v, 0)]
    IN  IF ~ Leads(e3) \/ ~ Present(e2) THEN NULL
        ELSE IF Huge(e2) THEN FrameOf(e2) + (v % (Entries * Entries))
        ELSE IF ~ Present(e1) THEN NULL
        ELSE IF Huge(e1) THEN FrameOf(e1) + (v % Entries)
        ELSE IF ~ Present(e0) THEN NULL
        ELSE FrameOf(e0)
=============================================================================
