---------------------------- MODULE Paging_proofs ----------------------------
(***************************************************************************)
(* Proofs about paging.c and the loops of vmm.c that drive it, for every   *)
(* memory and every firmware that Firmware assumes.                        *)
(*                                                                         *)
(* TreeInv says what the tables of a machine must be for a walk to mean    *)
(* anything: below the root a tree of four levels whose entries are the    *)
(* firmware's or the kernel's, each table the kernel made counted by the   *)
(* word behind it, and that word in nobody's frame.  paging_map and        *)
(* paging_unmap keep it (MapPage, UnmapPage) as long as no frame taken     *)
(* holds a count, and so do the loops over the pages of a region           *)
(* (MapPagesProperty, UnmapPagesProperty).                                 *)
(***************************************************************************)
EXTENDS Firmware, FiniteSetTheorems, SequenceTheorems, TLAPS

Machine == [mem : Memory, bits : SUBSET Frames, pool : SUBSET Frames,
            starved : BOOLEAN, wild : BOOLEAN, shared : BOOLEAN]

-----------------------------------------------------------------------------
(* Words                                                                   *)

(* Quotient and remainder by the size of a page are unique.                *)
LEMMA QuotientUnique ==
    ASSUME NEW q \in Nat, NEW d \in Int,
           NEW r \in 0 .. PageUnit - 1, NEW s \in 0 .. PageUnit - 1,
           q * PageUnit + r = d * PageUnit + s
    PROVE  q = d
<1>1. CASE d > q
  <2> DEFINE k == d - q - 1
  <2>1. k \in Nat /\ k * PageUnit \in Nat
    BY <1>1, PageUnitAssumption
  <2>2. d * PageUnit = q * PageUnit + PageUnit + k * PageUnit
    BY <1>1, PageUnitAssumption
  <2> QED
    BY <2>1, <2>2, PageUnitAssumption
<1>2. CASE d < q
  <2> DEFINE k == q - d - 1
  <2>1. k \in Nat /\ k * PageUnit \in Nat
    BY <1>2, PageUnitAssumption
  <2>2. q * PageUnit = d * PageUnit + PageUnit + k * PageUnit
    BY <1>2, PageUnitAssumption
  <2> QED
    BY <2>1, <2>2, PageUnitAssumption
<1> QED
  BY <1>1, <1>2

(* The parts of a word: frame number and flags.                            *)
LEMMA WordParts ==
    ASSUME NEW w \in Nat
    PROVE  /\ FrameOf(w) \in Nat /\ w % PageUnit \in 0 .. PageUnit - 1
           /\ w = FrameOf(w) * PageUnit + (w % PageUnit)
<1>1. w \div PageUnit \in Int /\ w % PageUnit \in 0 .. PageUnit - 1
      /\ w = (w \div PageUnit) * PageUnit + (w % PageUnit)
  BY PageUnitAssumption
<1>2. w \div PageUnit >= 0
  <2> SUFFICES ASSUME w \div PageUnit < 0 PROVE FALSE
    BY <1>1
  <2> DEFINE k == 0 - (w \div PageUnit) - 1
  <2>1. k \in Nat /\ k * PageUnit \in Nat
    BY <1>1, PageUnitAssumption
  <2>2. (w \div PageUnit) * PageUnit = 0 - PageUnit - k * PageUnit
    BY <1>1, PageUnitAssumption
  <2> QED
    BY <1>1, <2>1, <2>2, PageUnitAssumption
<1> QED
  BY <1>1, <1>2 DEF FrameOf

(* There is a frame, and room in a word for every count.                   *)
LEMMA Sizes ==
    /\ NFrames \in Nat /\ NFrames > 1 /\ Root \in Frames /\ Root # 0
    /\ WordCount \in Nat /\ WordCount > Entries + 1 /\ WordCount >= 8
    /\ Entries \in Nat /\ Entries > 1 /\ 0 \in Index
    /\ 0 \in Word /\ \A w \in Word : w \in Nat
<1>1. NFrames \in Nat /\ NFrames > 1 /\ Root \in Frames /\ Root # 0
  BY NFramesAssumption, RootAssumption DEF Frames, NULL
<1>2. Entries \in Nat /\ Entries > 1 /\ 0 \in Index
  BY EntriesAssumption DEF Index
<1> DEFINE k == NFrames - 2
<1>3. k \in Nat /\ k * PageUnit \in Nat
  BY <1>1, PageUnitAssumption
<1>4. WordCount = k * PageUnit + 2 * PageUnit
  BY <1>1, PageUnitAssumption DEF WordCount
<1> HIDE DEF k
<1>5. WordCount \in Nat /\ WordCount > Entries + 1 /\ WordCount >= 8
  BY <1>2, <1>3, <1>4, PageUnitAssumption
<1> QED
  BY <1>1, <1>2, <1>5 DEF Word

(* The frame number of a word.                                             *)
LEMMA FrameOfWord == \A w \in Word : FrameOf(w) \in Frames
<1> SUFFICES ASSUME NEW w \in Word PROVE FrameOf(w) \in Frames
  OBVIOUS
<1>1. w \in Nat /\ w < NFrames * PageUnit
  BY Sizes DEF Word, WordCount
<1>2. FrameOf(w) \in Nat /\ w % PageUnit \in 0 .. PageUnit - 1
      /\ w = FrameOf(w) * PageUnit + (w % PageUnit)
  BY <1>1, WordParts
<1>3. FrameOf(w) < NFrames
  <2> SUFFICES ASSUME FrameOf(w) >= NFrames PROVE FALSE
    BY <1>2, Sizes
  <2> DEFINE k == FrameOf(w) - NFrames
  <2>1. k \in Nat /\ k * PageUnit \in Nat
    BY <1>2, Sizes, PageUnitAssumption
  <2>2. FrameOf(w) * PageUnit = NFrames * PageUnit + k * PageUnit
    BY <1>2, Sizes, PageUnitAssumption
  <2> QED
    BY <1>1, <1>2, <2>1, <2>2, Sizes, PageUnitAssumption
<1> QED
  BY <1>2, <1>3, Sizes DEF Frames

(* An entry of the kernel's is present, leads and names its frame.         *)
LEMMA EntryWord ==
    ASSUME NEW f \in Frames
    PROVE  /\ EntryFor(f) \in Word /\ FrameOf(EntryFor(f)) = f
           /\ Present(EntryFor(f)) /\ ~ Huge(EntryFor(f)) /\ Leads(EntryFor(f))
<1>1. EntryFor(f) = f * PageUnit + 3 /\ f \in Nat
  <2>1. f \in Nat /\ f * PageUnit \in Nat
    BY Sizes, PageUnitAssumption DEF Frames
  <2> QED
    BY <2>1 DEF EntryFor, PAGE_PRESENT, PAGE_WRITABLE
<1>2. f * PageUnit \in Nat /\ (f * PageUnit + 3) \in Nat
  BY <1>1, PageUnitAssumption
<1>3. FrameOf(EntryFor(f)) = f
  <2>1. /\ FrameOf(EntryFor(f)) \in Nat /\ EntryFor(f) % PageUnit \in 0 .. PageUnit - 1
        /\ EntryFor(f) = FrameOf(EntryFor(f)) * PageUnit + (EntryFor(f) % PageUnit)
    BY <1>1, <1>2, WordParts
  <2>2. 3 \in 0 .. PageUnit - 1
    BY PageUnitAssumption
  <2> QED
    BY <1>1, <2>1, <2>2, QuotientUnique
<1>4. Present(EntryFor(f)) /\ ~ Huge(EntryFor(f))
  <2>1. PICK k \in Nat : PageUnit = 8 * k
    <3>1. PageUnit = 8 * (PageUnit \div 8) /\ PageUnit \div 8 \in Nat
      BY PageUnitAssumption
    <3> QED
      BY <3>1
  <2>2. f * k \in Nat /\ f * PageUnit = 8 * (f * k)
    BY <1>1, <2>1
  <2> QED
    BY <1>1, <2>2 DEF Present, Huge, PAGE_HUGE
<1>5. EntryFor(f) < WordCount
  <2> DEFINE k == NFrames - 1 - f
  <2>1. k \in Nat /\ k * PageUnit \in Nat
    BY <1>1, Sizes, PageUnitAssumption DEF Frames
  <2>2. NFrames * PageUnit = f * PageUnit + PageUnit + k * PageUnit
    BY <1>1, Sizes, PageUnitAssumption
  <2> QED
    BY <1>1, <1>2, <2>1, <2>2, PageUnitAssumption DEF WordCount
<1> QED
  BY <1>1, <1>2, <1>3, <1>4, <1>5, Sizes DEF Word, Leads

(* Zero is no entry, nor is a present word less its present bit.           *)
LEMMA AbsentWord ==
    /\ ~ Present(0)
    /\ \A w \in Word : Present(w) => w - PAGE_PRESENT \in Word /\ ~ Present(w - PAGE_PRESENT)
BY Sizes DEF Present, PAGE_PRESENT, Word

(* The indices of a page.                                                  *)
LEMMA IndexIn == ASSUME NEW v \in Nat, NEW k \in 0 .. 3 PROVE IndexAt(v, k) \in Index
<1>1. Entries * Entries \in Nat /\ Entries * Entries > 0
  BY Sizes
<1>2. Entries * Entries * Entries \in Nat /\ Entries * Entries * Entries > 0
  BY <1>1, Sizes
<1>3. Span(k) \in Nat /\ Span(k) > 0
  <2>1. k = 0 \/ k = 1 \/ k = 2 \/ k = 3
    OBVIOUS
  <2> DEFINE x == Entries * Entries
             y == Entries * Entries * Entries
  <2>2. Span(k) = <<1, Entries, x, y>>[k + 1]
    BY DEF Span
  <2> HIDE DEF x, y
  <2>3. Span(k) \in {1, Entries, x, y}
    BY <2>1, <2>2
  <2> QED
    BY <1>1, <1>2, <2>3, Sizes DEF x, y
<1>4. v \div Span(k) \in Int
  BY <1>3
<1> QED
  BY <1>4, Sizes DEF IndexAt, Index

-----------------------------------------------------------------------------
(* Writing                                                                 *)

LEMMA MemoryFacts ==
    ASSUME NEW m \in Machine, NEW f \in 0 .. NFrames, NEW i \in Index
    PROVE  m.mem[f][i] \in Word
BY DEF Machine, Memory

(* All but the memory of a machine.                                        *)
Rest(m) == <<m.bits, m.pool, m.starved, m.wild, m.shared>>

LEMMA SetWordFacts ==
    ASSUME NEW m \in Machine, NEW f \in 0 .. NFrames, NEW i \in Index, NEW w \in Word
    PROVE  /\ SetWord(m, f, i, w) \in Machine
           /\ Rest(SetWord(m, f, i, w)) = Rest(m)
           /\ \A g \in 0 .. NFrames : \A j \in Index :
                 SetWord(m, f, i, w).mem[g][j] = IF g = f /\ j = i THEN w ELSE m.mem[g][j]
<1>1. w % WordCount = w
  BY Sizes DEF Word
<1> DEFINE mem2 == [m.mem EXCEPT ![f] = [m.mem[f] EXCEPT ![i] = w]]
<1>2. SetWord(m, f, i, w) = [m EXCEPT !.mem = mem2]
  BY <1>1 DEF SetWord
<1>3. m.mem \in [0 .. NFrames -> [Index -> Word]]
  BY DEF Machine, Memory
<1>4. mem2 \in Memory
  BY <1>3 DEF Memory
<1>5. \A g \in 0 .. NFrames : \A j \in Index :
         mem2[g][j] = IF g = f /\ j = i THEN w ELSE m.mem[g][j]
  BY <1>3
<1> HIDE DEF mem2
<1>6. [m EXCEPT !.mem = mem2] \in Machine /\ [m EXCEPT !.mem = mem2].mem = mem2
      /\ Rest([m EXCEPT !.mem = mem2]) = Rest(m)
  BY <1>4 DEF Machine, Rest
<1> QED
  BY <1>2, <1>5, <1>6

LEMMA SetRefFacts ==
    ASSUME NEW m \in Machine, NEW t \in Frames, NEW n \in -1 .. WordCount
    PROVE  /\ SetRef(m, t, n) \in Machine
           /\ Rest(SetRef(m, t, n)) = Rest(m)
           /\ \A g \in 0 .. NFrames : \A j \in Index :
                 SetRef(m, t, n).mem[g][j] =
                     IF g = t + 1 /\ j = 0 THEN (n + WordCount) % WordCount ELSE m.mem[g][j]
<1>1. (n + WordCount) % WordCount \in Word
  BY Sizes DEF Word
<1>2. t + 1 \in 0 .. NFrames /\ 0 \in Index
  BY Sizes DEF Frames
<1>3. SetRef(m, t, n) = SetWord(m, t + 1, 0, (n + WordCount) % WordCount)
  BY DEF SetRef
<1> DEFINE w == (n + WordCount) % WordCount
<1> HIDE DEF w
<1> QED
  BY <1>1, <1>2, <1>3, SetWordFacts DEF w

LEMMA memset0Facts ==
    ASSUME NEW m \in Machine, NEW f \in Frames
    PROVE  /\ memset0(m, f) \in Machine
           /\ Rest(memset0(m, f)) = Rest(m)
           /\ \A g \in 0 .. NFrames : \A j \in Index :
                 memset0(m, f).mem[g][j] = IF g = f THEN 0 ELSE m.mem[g][j]
<1> DEFINE mem2 == [m.mem EXCEPT ![f] = [i \in Index |-> 0]]
<1>1. m.mem \in [0 .. NFrames -> [Index -> Word]] /\ f \in 0 .. NFrames
  BY Sizes DEF Machine, Memory, Frames
<1>2. mem2 \in Memory
  BY <1>1, Sizes DEF Memory
<1>3. \A g \in 0 .. NFrames : \A j \in Index :
         mem2[g][j] = IF g = f THEN 0 ELSE m.mem[g][j]
  BY <1>1
<1>4. memset0(m, f) = [m EXCEPT !.mem = mem2]
  BY DEF memset0
<1> HIDE DEF mem2
<1>5. [m EXCEPT !.mem = mem2] \in Machine /\ [m EXCEPT !.mem = mem2].mem = mem2
      /\ Rest([m EXCEPT !.mem = mem2]) = Rest(m)
  BY <1>2 DEF Machine, Rest
<1> QED
  BY <1>3, <1>4, <1>5

LEMMA TouchFacts ==
    ASSUME NEW m \in Machine, NEW t
    PROVE  /\ Touch(m, t) \in Machine /\ Touch(m, t).mem = m.mem
           /\ Touch(m, t).bits = m.bits /\ Touch(m, t).pool = m.pool
           /\ Touch(m, t).starved = m.starved /\ Touch(m, t).shared = m.shared
           /\ Touch(m, t).wild = (m.wild \/ t = NULL)
<1>1. m.wild \in BOOLEAN
  BY DEF Machine
<1> DEFINE b == m.wild \/ t = NULL
<1>2. b \in BOOLEAN /\ Touch(m, t) = [m EXCEPT !.wild = b]
  BY <1>1 DEF Touch
<1> HIDE DEF b
<1>3. [m EXCEPT !.wild = b] \in Machine /\ [m EXCEPT !.wild = b].wild = b
  BY <1>2 DEF Machine
<1>4. /\ [m EXCEPT !.wild = b].mem = m.mem
      /\ [m EXCEPT !.wild = b].bits = m.bits /\ [m EXCEPT !.wild = b].pool = m.pool
      /\ [m EXCEPT !.wild = b].starved = m.starved /\ [m EXCEPT !.wild = b].shared = m.shared
  BY DEF Machine
<1> QED
  BY <1>2, <1>3, <1>4 DEF b

(* clear bit the scan of pmm_alloc_frame meets is well defined.            *)
LEMMA LowestProperty ==
    ASSUME NEW S \in SUBSET Nat, S # {}
    PROVE  Lowest(S) \in S /\ \A j \in S : Lowest(S) <= j
<1>1. \E x \in S : \A y \in S : ~ (<<y, x>> \in OpToRel(<, Nat))
  BY NatLessThanWellFounded, WFMin, Zenon
<1>2. PICK x \in S : \A y \in S : ~ (<<y, x>> \in OpToRel(<, Nat))
  BY <1>1
<1>3. \A y \in S : <<y, x>> \in Nat \X Nat /\ ~ (y < x)
  <2>1. \A y \in S : <<y, x>> \in Nat \X Nat
    BY <1>2
  <2>2. \A y \in S : <<y, x>>[1] = y /\ <<y, x>>[2] = x
    OBVIOUS
  <2> QED
    BY <1>2, <2>1, <2>2, Zenon DEF OpToRel
<1>4. \A y \in S : x <= y
  <2> TAKE y \in S
  <2>1. x \in Nat /\ y \in Nat
    BY <1>2
  <2>2. ~ (y < x)
    BY <1>3
  <2> QED
    BY <2>1, <2>2
<1> QED
  BY <1>4 DEF Lowest

(* pmm_alloc_frame: none, or a clear frame that is set.                    *)
LEMMA AllocFrameFacts ==
    ASSUME NEW bm \in SUBSET Frames, NEW a, a = AllocFrame(bm, NFrames)
    PROVE  \/ a.frame = NULL /\ a.bits = bm
           \/ a.frame \in Frames \ bm /\ a.bits = bm \cup {a.frame}
<1> DEFINE clear == ClearFrames(bm, NFrames)
<1>1. clear = Frames \ bm /\ NFrames \in Nat
  BY Sizes DEF ClearFrames, test_bit, Frames
<1>2. CASE clear = {}
  BY <1>2 DEF AllocFrame
<1>3. CASE clear # {}
  <2> DEFINE f == Lowest(clear)
  <2>1. clear \in SUBSET Nat
    BY <1>1 DEF Frames
  <2>2. clear # {}
    BY <1>3
  <2>3. f \in clear
    BY <2>1, <2>2, LowestProperty
  <2>4. AllocFrame(bm, NFrames) = [frame |-> f, bits |-> set_bit(bm, f)]
    BY <1>3 DEF AllocFrame
  <2> HIDE DEF f, clear
  <2>5. f \in Frames \ bm /\ f < NFrames
    BY <1>1, <2>3 DEF Frames
  <2> QED
    BY <2>4, <2>5 DEF set_bit
<1> QED
  BY <1>2, <1>3

-----------------------------------------------------------------------------
(* The invariant of the page tables.  b is the memory the firmware left,   *)
(* K the tables in use by level.                                           *)

AllIn(K) == K[0] \cup K[1] \cup K[2] \cup K[3]

(* Entry i of table t is the firmware's.                                   *)
Firm(b, t, i) == t \in Tables(b) /\ Present(b.mem[t][i])

(* The entries of table t that the kernel has made.                        *)
Added(m, b, t) == { i \in Index : Present(m.mem[t][i]) /\ ~ Firm(b, t, i) }

(* What the ref_count of table t started from.                             *)
Base(b, t) == IF t \in Tables(b) THEN b.mem[t + 1][0] ELSE 0

LinksUnique(m, S) ==
    \A t, u \in S : \A i, j \in Index :
        /\ Leads(m.mem[t][i]) /\ Leads(m.mem[u][j])
        /\ FrameOf(m.mem[t][i]) = FrameOf(m.mem[u][j])
        => t = u /\ i = j

(* The tables form a tree.                                                 *)
TreeShape(m, K) ==
    /\ K \in [0 .. 3 -> SUBSET Frames]
    /\ K[3] = {Root}
    /\ \A k \in 1 .. 3 : K[k - 1] = Below(m, K[k])
    /\ \A j, k \in 0 .. 3 : j # k => K[j] \cap K[k] = {}
    /\ \A k \in 1 .. 3 : LinksUnique(m, K[k])

(* No ref_count shares a frame with something in use.                      *)
CountsClear(m, K) == \A t \in AllIn(K) : t + 1 \notin AllIn(K) \cup InUse(m)

(* Every table is the firmware's or in a frame taken for it.               *)
TablesOwned(m, b, K) == \A t \in AllIn(K) : t # NULL /\ (t \in Tables(b) \/ t \in InUse(m))

(* The firmware's entries are as it left them.                             *)
FirmwareKept(m, b) ==
    \A t \in Tables(b) : \A i \in Index :
        Present(b.mem[t][i]) => m.mem[t][i] = b.mem[t][i]

(* The kernel's entries in the upper levels lead to tables of its own.     *)
LinksOwned(m, b, K) ==
    \A k \in 1 .. 3 : \A t \in K[k] : \A i \in Added(m, b, t) :
        Leads(m.mem[t][i]) /\ FrameOf(m.mem[t][i]) \in m.pool

(* A frame that is used for data, mapped or not.                           *)
Data(m, K) == InUse(m) \ AllIn(K)

(* No page is mapped to frame f, by the kernel.                            *)
NoLeaf(m, b, K, f) ==
    \A t \in K[0] : \A i \in Added(m, b, t) : FrameOf(m.mem[t][i]) # f

(* The kernel's entries in page tables lead to data, each frame once.      *)
LeavesOwned(m, b, K) ==
    /\ \A t \in K[0] : \A i \in Added(m, b, t) : FrameOf(m.mem[t][i]) \in Data(m, K)
    /\ \A t, u \in K[0] : \A i \in Added(m, b, t), j \in Added(m, b, u) :
          FrameOf(m.mem[t][i]) = FrameOf(m.mem[u][j]) => t = u /\ i = j

(* Every ref_count but the root's counts the kernel's entries.             *)
CountsExact(m, b, K) ==
    \A t \in AllIn(K) \ {Root} : ref_count(m, t) = Base(b, t) + Cardinality(Added(m, b, t))

(* What the boot hands over: constant.                                     *)
BootFacts(m, b) ==
    /\ b \in Boots
    /\ m.pool = Usable(b.mmap)
    /\ ~ Uncounted(b)

TreeInv(m, b, K) ==
    /\ m \in Machine
    /\ BootFacts(m, b)
    /\ Frames \ m.bits \subseteq m.pool
    /\ TreeShape(m, K)
    /\ CountsClear(m, K)
    /\ TablesOwned(m, b, K)
    /\ FirmwareKept(m, b)
    /\ LinksOwned(m, b, K)
    /\ LeavesOwned(m, b, K)
    /\ CountsExact(m, b, K)

(* Every table of the kernel's has an entry.                               *)
NoneEmpty(m, b, K) == \A t \in AllIn(K) : t \in Tables(b) \/ Added(m, b, t) # {}

(* c are the tables of the four levels on the way to page v, and all are   *)
(* there.                                                                  *)
Chain(m, v, c) ==
    /\ c \in [0 .. 3 -> Frames]
    /\ c[3] = Root
    /\ \A k \in 1 .. 3 : /\ Leads(m.mem[c[k]][IndexAt(v, k)])
                         /\ c[k - 1] = FrameOf(m.mem[c[k]][IndexAt(v, k)])

(* Page v is mapped to frame f.                                            *)
Maps(m, v, f) ==
    \E c : /\ Chain(m, v, c)
           /\ Present(m.mem[c[0]][IndexAt(v, 0)])
           /\ f = FrameOf(m.mem[c[0]][IndexAt(v, 0)])


-----------------------------------------------------------------------------
(* Facts about the definitions                                             *)

LEMMA BelowIff ==
    ASSUME NEW m, NEW S, NEW x
    PROVE  x \in Below(m, S) <=>
              \E t \in S : \E i \in Index :
                  Leads(m.mem[t][i]) /\ x = FrameOf(m.mem[t][i])
BY DEF Below

LEMMA AllIff == ASSUME NEW K, NEW x PROVE x \in AllIn(K) <=> \E k \in 0 .. 3 : x \in K[k]
BY DEF AllIn

(* Only memory matters to what the tables say.                             *)
LEMMA SameMemory ==
    ASSUME NEW m, NEW m2, m2.mem = m.mem
    PROVE  /\ \A S : Below(m2, S) = Below(m, S)
           /\ \A S : LinksUnique(m2, S) <=> LinksUnique(m, S)
           /\ \A b, t : Added(m2, b, t) = Added(m, b, t)
           /\ \A t : ref_count(m2, t) = ref_count(m, t)
BY DEF Below, LinksUnique, Added, ref_count

(* The frames a client may get are not frame 0.                            *)
LEMMA UsableFrames ==
    ASSUME NEW mmap
    PROVE  NULL \notin Usable(mmap)
<1>1. ~ (0 >= Reserved)
  BY ReservedAssumption
<1> QED
  BY <1>1 DEF Usable, NULL

(* The firmware's tables.                                                  *)
LEMMA FirmwareTables ==
    ASSUME NEW b \in Boots
    PROVE  /\ b.mem \in Memory
           /\ Levels(b)[3] = {Root} /\ Levels(b)[2] = Below(b, Levels(b)[3])
           /\ Levels(b)[1] = Below(b, Levels(b)[2]) /\ Levels(b)[0] = Below(b, Levels(b)[1])
           /\ Levels(b) \in [0 .. 3 -> SUBSET Frames]
           /\ Tables(b) = AllIn(Levels(b))
           /\ Tables(b) \subseteq Frames /\ Root \in Tables(b) /\ NULL \notin Tables(b)
           /\ Tables(b) \cap Usable(b.mmap) = {}
<1> DEFINE L == Levels(b)
<1>1. b.mem \in Memory
  BY BootsAssumption
<1>2. \A S \in SUBSET Frames : Below(b, S) \in SUBSET Frames
  <2> SUFFICES ASSUME NEW S \in SUBSET Frames, NEW x \in Below(b, S) PROVE x \in Frames
    OBVIOUS
  <2>1. PICK t \in S, i \in Index : x = FrameOf(b.mem[t][i])
    BY BelowIff
  <2>2. t \in 0 .. NFrames
    BY Sizes DEF Frames
  <2>3. b.mem[t][i] \in Word
    BY <1>1, <2>2 DEF Memory
  <2> QED
    BY <2>1, <2>3, FrameOfWord
<1>3. /\ L = [level \in 0 .. 3 |-> IF level = 3 THEN {Root} ELSE IF level = 2 THEN Below(b, {Root})
                              ELSE IF level = 1 THEN Below(b, Below(b, {Root}))
                              ELSE Below(b, Below(b, Below(b, {Root})))]
  BY DEF Levels
<1> HIDE DEF L
<1>4. /\ L[3] = {Root} /\ L[2] = Below(b, L[3])
      /\ L[1] = Below(b, L[2]) /\ L[0] = Below(b, L[1])
  BY <1>3
<1>5. {Root} \in SUBSET Frames
  BY Sizes
<1>6. L[3] \in SUBSET Frames /\ L[2] \in SUBSET Frames /\ L[1] \in SUBSET Frames /\ L[0] \in SUBSET Frames
  BY <1>2, <1>4, <1>5
<1>7. L \in [0 .. 3 -> SUBSET Frames]
  <2> DEFINE F(level) == IF level = 3 THEN {Root} ELSE IF level = 2 THEN Below(b, {Root})
                              ELSE IF level = 1 THEN Below(b, Below(b, {Root}))
                              ELSE Below(b, Below(b, Below(b, {Root})))
  <2>1. L = [level \in 0 .. 3 |-> F(level)]
    BY <1>3
  <2> HIDE DEF F
  <2>2. \A level \in 0 .. 3 : level = 3 \/ level = 2 \/ level = 1 \/ level = 0
    OBVIOUS
  <2> QED
    BY <1>6, <2>1, <2>2
<1>8. Tables(b) = AllIn(L)
  BY <1>4 DEF Tables, ReachableTables, AllIn, L
<1>9. FirmwareSound(b)
  BY FirmwareAssumption
<1>10. Tables(b) \subseteq Frames /\ Root \in Tables(b)
  BY <1>4, <1>6, <1>8 DEF AllIn
<1> QED
  BY <1>1, <1>4, <1>7, <1>8, <1>9, <1>10 DEF FirmwareSound, L

(* What the words behind the tables count from.                            *)
LEMMA BaseFacts ==
    ASSUME NEW b \in Boots, ~ Uncounted(b)
    PROVE  /\ \A t \in Tables(b) \ {Root} : Base(b, t) \in 1 .. WordCount - 1 - Entries
           /\ \A t : t \notin Tables(b) => Base(b, t) = 0
BY DEF Uncounted, Base, Tables, ref_count

(* The kernel's entries of a table are at most all.                        *)
LEMMA AddedFinite ==
    ASSUME NEW S \in SUBSET Index
    PROVE  /\ IsFiniteSet(S) /\ Cardinality(S) \in 0 .. Entries
           /\ (Cardinality(S) = 0) <=> (S = {})
           /\ \A i \in Index \ S : Cardinality(S \cup {i}) = Cardinality(S) + 1
                                  /\ Cardinality(S) < Entries
           /\ \A i \in S : Cardinality(S \ {i}) = Cardinality(S) - 1
<1>1. IsFiniteSet(Index) /\ Cardinality(Index) = Entries
  <2>1. Entries - 1 \in Int /\ 0 \in Int /\ ~ (0 > Entries - 1) /\ Entries - 1 - 0 + 1 = Entries
    BY Sizes
  <2> QED
    BY <2>1, FS_Interval DEF Index
<1>2. IsFiniteSet(S) /\ Cardinality(S) <= Entries /\ Cardinality(S) \in Nat
  BY <1>1, FS_Subset, FS_CardinalityType
<1>3. ASSUME NEW i \in Index \ S
      PROVE  Cardinality(S \cup {i}) = Cardinality(S) + 1 /\ Cardinality(S) < Entries
  <2>1. Cardinality(S \cup {i}) = Cardinality(S) + 1
    BY <1>2, FS_AddElement
  <2>2. S \cup {i} \in SUBSET Index
    OBVIOUS
  <2>3. Cardinality(S \cup {i}) <= Entries
    BY <1>1, <2>2, FS_Subset
  <2> QED
    BY <1>2, <2>1, <2>3, Sizes
<1>4. \A i \in S : Cardinality(S \ {i}) = Cardinality(S) - 1
  BY <1>2, FS_RemoveElement
<1>5. (Cardinality(S) = 0) <=> (S = {})
  BY <1>2, FS_EmptySet
<1>6. Cardinality(S) \in 0 .. Entries
  BY <1>2, Sizes
<1> QED
  BY <1>2, <1>3, <1>4, <1>5, <1>6

(* The tables in use by level include the firmware's.                      *)
LEMMA FirmwareLevels ==
    ASSUME NEW m, NEW b, NEW K, TreeInv(m, b, K)
    PROVE  /\ \A l \in 0 .. 3 : Levels(b)[l] \subseteq K[l]
           /\ \A l \in 0 .. 3 : Levels(b)[l] = K[l] \cap Tables(b)
           /\ \A k \in 1 .. 3 : Levels(b)[k - 1] = Below(b, Levels(b)[k])
<1>1. b \in Boots
  BY DEF TreeInv, BootFacts
<1>2. K[3] = {Root} /\ \A k \in 1 .. 3 : K[k - 1] = Below(m, K[k])
  BY DEF TreeInv, TreeShape
<1> DEFINE L == Levels(b)
<1>3. /\ L[3] = {Root} /\ L[2] = Below(b, L[3])
      /\ L[1] = Below(b, L[2]) /\ L[0] = Below(b, L[1])
      /\ Tables(b) = AllIn(L)
  BY <1>1, FirmwareTables
<1> HIDE DEF L
<1>4. L[3] \subseteq Tables(b) /\ L[2] \subseteq Tables(b) /\ L[1] \subseteq Tables(b)
  BY <1>3 DEF AllIn
<1>5. ASSUME NEW S, NEW R, S \subseteq R, S \subseteq Tables(b)
      PROVE  Below(b, S) \subseteq Below(m, R)
  <2> SUFFICES ASSUME NEW x \in Below(b, S) PROVE x \in Below(m, R)
    OBVIOUS
  <2>1. PICK t \in S, i \in Index : Leads(b.mem[t][i]) /\ x = FrameOf(b.mem[t][i])
    BY BelowIff
  <2>2. m.mem[t][i] = b.mem[t][i]
    BY <1>5, <2>1 DEF TreeInv, FirmwareKept, Leads
  <2> QED
    BY <1>5, <2>1, <2>2, BelowIff
<1>6. K[2] = Below(m, K[3]) /\ K[1] = Below(m, K[2]) /\ K[0] = Below(m, K[1])
  <2>1. 3 - 1 = 2 /\ 2 - 1 = 1 /\ 1 - 1 = 0 /\ 1 \in 1 .. 3 /\ 2 \in 1 .. 3 /\ 3 \in 1 .. 3
    OBVIOUS
  <2> QED
    BY <1>2, <2>1
<1>7. L[3] \subseteq K[3]
  BY <1>2, <1>3
<1>8. L[2] \subseteq K[2]
  BY <1>3, <1>4, <1>5, <1>6, <1>7
<1>9. L[1] \subseteq K[1]
  BY <1>3, <1>4, <1>5, <1>6, <1>8
<1>10. L[0] \subseteq K[0]
  BY <1>3, <1>4, <1>5, <1>6, <1>9
<1>11. \A l \in 0 .. 3 : l = 0 \/ l = 1 \/ l = 2 \/ l = 3
  OBVIOUS
<1>12. \A l \in 0 .. 3 : L[l] \subseteq K[l]
  BY <1>7, <1>8, <1>9, <1>10, <1>11
<1>13. \A l \in 0 .. 3 : L[l] = K[l] \cap Tables(b)
  <2>1. \A j, k \in 0 .. 3 : j # k => K[j] \cap K[k] = {}
    BY DEF TreeInv, TreeShape
  <2>2. \A x : x \in Tables(b) <=> \E l \in 0 .. 3 : x \in L[l]
    BY <1>3, AllIff
  <2> QED
    BY <1>12, <2>1, <2>2
<1>14. \A k \in 1 .. 3 : L[k - 1] = Below(b, L[k])
  <2>1. \A k \in 1 .. 3 : k = 1 \/ k = 2 \/ k = 3
    OBVIOUS
  <2>2. 3 - 1 = 2 /\ 2 - 1 = 1 /\ 1 - 1 = 0
    OBVIOUS
  <2> QED
    BY <1>3, <2>1, <2>2
<1> QED
  BY <1>12, <1>13, <1>14 DEF L

(* The consequences of the invariant that all moves use.                   *)
LEMMA TreeFacts ==
    ASSUME NEW m, NEW b, NEW K, TreeInv(m, b, K)
    PROVE  /\ m.pool \subseteq Frames /\ NULL \notin m.pool
           /\ Tables(b) \cap m.pool = {}
           /\ AllIn(K) \subseteq Frames /\ \A k \in 0 .. 3 : K[k] \subseteq AllIn(K)
           /\ \A t \in AllIn(K) : \E k \in 0 .. 3 : t \in K[k]
           /\ Tables(b) \subseteq AllIn(K) /\ Root \in Tables(b)
           /\ \A t \in AllIn(K), i \in Index : m.mem[t][i] \in Word
           /\ \A t \in AllIn(K) : t \in 0 .. NFrames /\ t + 1 \in 0 .. NFrames
           /\ \A t \in AllIn(K) : Added(m, b, t) \in SUBSET Index
<1>1. m.pool \subseteq Frames /\ m \in Machine /\ b \in Boots /\ m.pool = Usable(b.mmap)
  BY DEF TreeInv, Machine, BootFacts
<1>2. NULL \notin m.pool /\ Tables(b) \cap m.pool = {} /\ Root \in Tables(b)
  BY <1>1, UsableFrames, FirmwareTables
<1>3. K \in [0 .. 3 -> SUBSET Frames] /\ K[3] = {Root} /\ \A k \in 1 .. 3 : K[k - 1] = Below(m, K[k])
  BY DEF TreeInv, TreeShape
<1>4. AllIn(K) \subseteq Frames /\ \A k \in 0 .. 3 : K[k] \subseteq AllIn(K)
  BY <1>3, AllIff
<1>5. \A l \in 0 .. 3 : Levels(b)[l] \subseteq K[l]
  BY FirmwareLevels
<1>6. Tables(b) = AllIn(Levels(b))
  BY <1>1, FirmwareTables
<1>7. Tables(b) \subseteq AllIn(K)
  BY <1>5, <1>6, AllIff
<1>8. \A t \in AllIn(K) : t \in 0 .. NFrames /\ t + 1 \in 0 .. NFrames
  BY <1>4, Sizes DEF Frames
<1>9. \A t \in AllIn(K), i \in Index : m.mem[t][i] \in Word
  BY <1>1, <1>8, MemoryFacts
<1>10. \A t \in AllIn(K) : Added(m, b, t) \in SUBSET Index
  BY DEF Added
<1> QED
  BY <1>1, <1>2, <1>4, <1>7, <1>8, <1>9, <1>10, AllIff

-----------------------------------------------------------------------------
(* Frames taken and given back                                             *)

(* A frame that holds no ref_count is taken for data.                      *)
LEMMA TakeTree ==
    ASSUME NEW m, NEW b, NEW K, TreeInv(m, b, K),
           NEW f \in Frames \ m.bits, \A t \in AllIn(K) : t + 1 # f,
           NEW m2 \in Machine, m2.mem = m.mem, m2.pool = m.pool, m2.bits = m.bits \cup {f}
    PROVE  /\ TreeInv(m2, b, K)
           /\ f \notin Data(m, K) /\ Data(m2, K) = Data(m, K) \cup {f}
           /\ NoLeaf(m2, b, K, f)
<1>1. f \in m.pool /\ f \notin AllIn(K) /\ f \notin InUse(m) /\ InUse(m2) = InUse(m) \cup {f}
  <2>1. f \in m.pool
    BY DEF TreeInv
  <2>2. f \notin InUse(m) /\ InUse(m2) = InUse(m) \cup {f}
    BY <2>1 DEF InUse
  <2>3. f \notin Tables(b)
    BY <2>1, TreeFacts
  <2> QED
    BY <2>1, <2>2, <2>3 DEF TreeInv, TablesOwned
<1>2. f \notin Data(m, K) /\ Data(m2, K) = Data(m, K) \cup {f}
  BY <1>1 DEF Data
<1>3. NoLeaf(m2, b, K, f)
  BY <1>2, SameMemory DEF TreeInv, LeavesOwned, NoLeaf
<1>4. TreeShape(m2, K)
  BY SameMemory DEF TreeInv, TreeShape
<1>5. CountsClear(m2, K)
  BY <1>1 DEF TreeInv, CountsClear
<1>6. TablesOwned(m2, b, K)
  BY <1>1 DEF TreeInv, TablesOwned
<1>7. FirmwareKept(m2, b) /\ LinksOwned(m2, b, K) /\ CountsExact(m2, b, K)
  BY SameMemory DEF TreeInv, FirmwareKept, LinksOwned, CountsExact
<1>8. LeavesOwned(m2, b, K)
  BY <1>2, SameMemory DEF TreeInv, LeavesOwned
<1>9. BootFacts(m2, b) /\ Frames \ m2.bits \subseteq m2.pool
  BY DEF TreeInv, BootFacts
<1> QED
  BY <1>2, <1>3, <1>4, <1>5, <1>6, <1>7, <1>8, <1>9 DEF TreeInv

(* A data frame that no page is mapped to is given back.                   *)
LEMMA FreeTree ==
    ASSUME NEW m, NEW b, NEW K, TreeInv(m, b, K),
           NEW p \in Data(m, K), NoLeaf(m, b, K, p),
           NEW m2 \in Machine, m2.mem = m.mem, m2.pool = m.pool, m2.bits = m.bits \ {p}
    PROVE  TreeInv(m2, b, K) /\ Data(m2, K) = Data(m, K) \ {p}
<1>1. p \in m.pool /\ p \notin AllIn(K) /\ InUse(m2) = InUse(m) \ {p}
  BY DEF Data, InUse
<1>2. Data(m2, K) = Data(m, K) \ {p}
  BY <1>1 DEF Data
<1>4. TreeShape(m2, K)
  BY SameMemory DEF TreeInv, TreeShape
<1>5. CountsClear(m2, K)
  BY <1>1 DEF TreeInv, CountsClear
<1>6. TablesOwned(m2, b, K)
  BY <1>1 DEF TreeInv, TablesOwned
<1>7. FirmwareKept(m2, b) /\ LinksOwned(m2, b, K) /\ CountsExact(m2, b, K)
  BY SameMemory DEF TreeInv, FirmwareKept, LinksOwned, CountsExact
<1>8. LeavesOwned(m2, b, K)
  BY <1>2, SameMemory DEF TreeInv, LeavesOwned, NoLeaf
<1>9. BootFacts(m2, b) /\ Frames \ m2.bits \subseteq m2.pool
  BY <1>1 DEF TreeInv, BootFacts
<1> QED
  BY <1>2, <1>4, <1>5, <1>6, <1>7, <1>8, <1>9 DEF TreeInv

-----------------------------------------------------------------------------
(* Writing to memory                                                       *)

(* What the processor and the kernel see of the tables is as before, but   *)
(* for entry i of table t.                                                 *)
TablesSame(m, m2, K, t, i) ==
    \A u \in AllIn(K) : \A j \in Index : ~ (u = t /\ j = i) => m2.mem[u][j] = m.mem[u][j]

CountsSame(m, m2, K, t) ==
    \A u \in AllIn(K) \ {Root, t} : m2.mem[u + 1][0] = m.mem[u + 1][0]

(* A data frame is written to.                                             *)
LEMMA StoreTree ==
    ASSUME NEW m, NEW b, NEW K, TreeInv(m, b, K),
           NEW f \in Data(m, K), NEW w \in Word
    PROVE  LET m2 == SetWord(m, f, 0, w)
           IN  /\ TreeInv(m2, b, K) /\ Data(m2, K) = Data(m, K)
               /\ \A u \in AllIn(K) : \A j \in Index : m2.mem[u][j] = m.mem[u][j]
<1> DEFINE m2 == SetWord(m, f, 0, w)
<1>1. m \in Machine /\ f \in Frames /\ f \in InUse(m) /\ f \notin AllIn(K)
  BY TreeFacts DEF TreeInv, Data, InUse
<1>2. f \in 0 .. NFrames /\ 0 \in Index
  BY <1>1, Sizes DEF Frames
<1>3. /\ m2 \in Machine /\ Rest(m2) = Rest(m)
      /\ \A g \in 0 .. NFrames : \A j \in Index :
            m2.mem[g][j] = IF g = f /\ j = 0 THEN w ELSE m.mem[g][j]
  BY <1>1, <1>2, SetWordFacts
<1> HIDE DEF m2
<1>4. \A u \in AllIn(K) : u \in 0 .. NFrames /\ u + 1 \in 0 .. NFrames
  BY TreeFacts
<1>5. \A u \in AllIn(K) : \A j \in Index : m2.mem[u][j] = m.mem[u][j]
  BY <1>1, <1>3, <1>4
<1>6. \A u \in AllIn(K) : m2.mem[u + 1][0] = m.mem[u + 1][0]
  <2>1. \A u \in AllIn(K) : u + 1 # f
    BY <1>1 DEF TreeInv, CountsClear
  <2> QED
    BY <1>2, <1>3, <1>4, <2>1
<1>7. m2.bits = m.bits /\ m2.pool = m.pool /\ InUse(m2) = InUse(m) /\ Data(m2, K) = Data(m, K)
  BY <1>3 DEF Rest, InUse, Data
<1>8. \A t \in AllIn(K) : Added(m2, b, t) = Added(m, b, t)
  BY <1>5 DEF Added
<1>9. \A k \in 0 .. 3 : K[k] \subseteq AllIn(K)
  BY TreeFacts
<1>10. TreeShape(m2, K)
  <2>1. \A k \in 1 .. 3 : Below(m2, K[k]) = Below(m, K[k])
    BY <1>5, <1>9 DEF Below
  <2>2. \A k \in 1 .. 3 : LinksUnique(m2, K[k])
    BY <1>5, <1>9 DEF TreeInv, TreeShape, LinksUnique
  <2> QED
    BY <2>1, <2>2 DEF TreeInv, TreeShape
<1>11. CountsClear(m2, K) /\ TablesOwned(m2, b, K)
  BY <1>7 DEF TreeInv, CountsClear, TablesOwned
<1>12. FirmwareKept(m2, b)
  BY <1>5, TreeFacts DEF TreeInv, FirmwareKept
<1>13. LinksOwned(m2, b, K)
  BY <1>5, <1>7, <1>8, <1>9 DEF TreeInv, LinksOwned, Added
<1>14. LeavesOwned(m2, b, K)
  <2>1. \A t \in K[0] : t \in AllIn(K) /\ Added(m2, b, t) = Added(m, b, t)
    BY <1>8, <1>9
  <2>2. \A t \in K[0] : \A i \in Added(m, b, t) : m2.mem[t][i] = m.mem[t][i]
    BY <1>5, <2>1 DEF Added
  <2> QED
    BY <1>7, <2>1, <2>2 DEF TreeInv, LeavesOwned
<1>15. CountsExact(m2, b, K)
  BY <1>6, <1>8 DEF TreeInv, CountsExact, ref_count
<1>16. BootFacts(m2, b) /\ Frames \ m2.bits \subseteq m2.pool
  BY <1>7 DEF TreeInv, BootFacts
<1> QED
  BY <1>3, <1>5, <1>7, <1>10, <1>11, <1>12, <1>13, <1>14, <1>15, <1>16 DEF TreeInv, m2

(* Entry i of page table t changes: it is gone, or maps to a data frame    *)
(* that was not mapped; and the count of t is right again.                 *)
LEMMA LeafTree ==
    ASSUME NEW m, NEW b, NEW K, TreeInv(m, b, K),
           NEW t \in K[0], NEW i \in Index, ~ Firm(b, t, i),
           NEW m2 \in Machine, m2.bits = m.bits, m2.pool = m.pool,
           TablesSame(m, m2, K, t, i), CountsSame(m, m2, K, t),
           \/ ~ Present(m2.mem[t][i])
           \/ \E f \in Data(m, K) : NoLeaf(m, b, K, f) /\ FrameOf(m2.mem[t][i]) = f,
           m2.mem[t + 1][0] = Base(b, t) + Cardinality(Added(m2, b, t))
    PROVE  TreeInv(m2, b, K) /\ Data(m2, K) = Data(m, K)
<1>1. InUse(m2) = InUse(m) /\ Data(m2, K) = Data(m, K)
  BY DEF InUse, Data
<1>2. \A k \in 0 .. 3 : K[k] \subseteq AllIn(K)
  BY TreeFacts
<1>3. \A k \in 1 .. 3 : t \notin K[k]
  <2>1. \A j, k \in 0 .. 3 : j # k => K[j] \cap K[k] = {}
    BY DEF TreeInv, TreeShape
  <2>2. 0 \in 0 .. 3 /\ \A k \in 1 .. 3 : k \in 0 .. 3 /\ k # 0
    OBVIOUS
  <2> QED
    BY <2>1, <2>2
<1>4. \A k \in 1 .. 3 : \A u \in K[k] : \A j \in Index : m2.mem[u][j] = m.mem[u][j]
  BY <1>2, <1>3 DEF TablesSame
<1>5. TreeShape(m2, K)
  <2>1. \A k \in 1 .. 3 : Below(m2, K[k]) = Below(m, K[k])
    BY <1>4 DEF Below
  <2>2. \A k \in 1 .. 3 : LinksUnique(m2, K[k])
    BY <1>4 DEF TreeInv, TreeShape, LinksUnique
  <2> QED
    BY <2>1, <2>2 DEF TreeInv, TreeShape
<1>6. CountsClear(m2, K) /\ TablesOwned(m2, b, K)
  BY <1>1 DEF TreeInv, CountsClear, TablesOwned
<1>7. FirmwareKept(m2, b)
  <2>1. ASSUME NEW u \in Tables(b), NEW j \in Index, Present(b.mem[u][j])
        PROVE  m2.mem[u][j] = m.mem[u][j]
    <3>1. ~ (u = t /\ j = i)
      BY <2>1 DEF Firm
    <3>2. u \in AllIn(K)
      BY TreeFacts
    <3> QED
      BY <3>1, <3>2 DEF TablesSame
  <2> QED
    BY <2>1 DEF TreeInv, FirmwareKept
<1>8. \A u \in AllIn(K) : \A j \in Index : ~ (u = t /\ j = i) =>
         (j \in Added(m2, b, u) <=> j \in Added(m, b, u))
  BY DEF TablesSame, Added
<1>9. LinksOwned(m2, b, K)
  <2> SUFFICES ASSUME NEW k \in 1 .. 3, NEW u \in K[k], NEW j \in Added(m2, b, u)
               PROVE  Leads(m2.mem[u][j]) /\ FrameOf(m2.mem[u][j]) \in m2.pool
    BY DEF LinksOwned
  <2>1. j \in Index /\ u \in AllIn(K) /\ u # t
    BY <1>2, <1>3 DEF Added
  <2>2. j \in Added(m, b, u) /\ m2.mem[u][j] = m.mem[u][j]
    BY <2>1, <1>8, <1>4
  <2> QED
    BY <2>2 DEF TreeInv, LinksOwned
<1>10. LeavesOwned(m2, b, K)
  <2>1. \A u \in K[0] : u \in AllIn(K)
    BY <1>2
  <2>2. ASSUME NEW u \in K[0], NEW j \in Added(m2, b, u), ~ (u = t /\ j = i)
        PROVE  j \in Added(m, b, u) /\ m2.mem[u][j] = m.mem[u][j]
    <3>1. j \in Index
      BY DEF Added
    <3> QED
      BY <2>1, <2>2, <3>1, <1>8 DEF TablesSame
  <2>3. ASSUME NEW j \in Added(m2, b, t), j = i
        PROVE  FrameOf(m2.mem[t][i]) \in Data(m, K) /\ NoLeaf(m, b, K, FrameOf(m2.mem[t][i]))
    <3>1. Present(m2.mem[t][i])
      BY <2>3 DEF Added
    <3> QED
      BY <3>1
  <2>4. \A u \in K[0] : \A j \in Added(m2, b, u) : FrameOf(m2.mem[u][j]) \in Data(m2, K)
    BY <1>1, <2>2, <2>3 DEF TreeInv, LeavesOwned
  <2>5. ASSUME NEW u \in K[0], NEW v \in K[0], NEW j \in Added(m2, b, u), NEW k \in Added(m2, b, v),
               FrameOf(m2.mem[u][j]) = FrameOf(m2.mem[v][k])
        PROVE  u = v /\ j = k
    <3>1. CASE (u = t /\ j = i) /\ (v = t /\ k = i)
      BY <3>1
    <3>2. CASE (u = t /\ j = i) /\ ~ (v = t /\ k = i)
      BY <2>2, <2>3, <2>5, <3>2 DEF NoLeaf
    <3>3. CASE ~ (u = t /\ j = i) /\ (v = t /\ k = i)
      BY <2>2, <2>3, <2>5, <3>3 DEF NoLeaf
    <3>4. CASE ~ (u = t /\ j = i) /\ ~ (v = t /\ k = i)
      BY <2>2, <2>5, <3>4 DEF TreeInv, LeavesOwned
    <3> QED
      BY <3>1, <3>2, <3>3, <3>4
  <2> QED
    BY <2>4, <2>5 DEF LeavesOwned
<1>11. CountsExact(m2, b, K)
  <2> SUFFICES ASSUME NEW u \in AllIn(K) \ {Root}
               PROVE  ref_count(m2, u) = Base(b, u) + Cardinality(Added(m2, b, u))
    BY DEF CountsExact
  <2>1. CASE u = t
    BY <2>1 DEF ref_count
  <2>2. CASE u # t
    <3>1. m2.mem[u + 1][0] = m.mem[u + 1][0]
      BY <2>2 DEF CountsSame
    <3>2. Added(m2, b, u) = Added(m, b, u)
      BY <2>2, <1>8 DEF Added
    <3> QED
      BY <3>1, <3>2 DEF TreeInv, CountsExact, ref_count
  <2> QED
    BY <2>1, <2>2
<1>12. BootFacts(m2, b) /\ Frames \ m2.bits \subseteq m2.pool
  BY DEF TreeInv, BootFacts
<1> QED
  BY <1>1, <1>5, <1>6, <1>7, <1>9, <1>10, <1>11, <1>12 DEF TreeInv

(* Counting up or down by one never wraps.                                 *)
LEMMA CountFits ==
    ASSUME NEW m, NEW b, NEW K, TreeInv(m, b, K), NEW t \in AllIn(K) \ {Root}
    PROVE  /\ ref_count(m, t) = Base(b, t) + Cardinality(Added(m, b, t))
           /\ Base(b, t) \in 0 .. WordCount - 1 - Entries
           /\ Cardinality(Added(m, b, t)) \in 0 .. Entries
           /\ t \in Tables(b) => Base(b, t) >= 1
           /\ t \notin Tables(b) => Base(b, t) = 0
<1>1. b \in Boots /\ ~ Uncounted(b)
  BY DEF TreeInv, BootFacts
<1>2. Cardinality(Added(m, b, t)) \in 0 .. Entries
  BY TreeFacts, AddedFinite
<1>3. ref_count(m, t) = Base(b, t) + Cardinality(Added(m, b, t))
  BY DEF TreeInv, CountsExact
<1>4. /\ t \in Tables(b) => Base(b, t) \in 1 .. WordCount - 1 - Entries
      /\ t \notin Tables(b) => Base(b, t) = 0
  BY <1>1, BaseFacts
<1> QED
  BY <1>2, <1>3, <1>4, Sizes

LEMMA Modulo == \A n \in 0 .. WordCount - 1 : (n + WordCount) % WordCount = n
BY Sizes

(* Tables and the words behind them never meet.                            *)
LEMMA CountsApartFrom ==
    ASSUME NEW m, NEW b, NEW K, TreeInv(m, b, K), NEW t \in AllIn(K), NEW u \in AllIn(K)
    PROVE  t + 1 # u /\ (t + 1 = u + 1 => t = u)
<1>1. t + 1 # u
  BY DEF TreeInv, CountsClear
<1>2. t \in Frames /\ u \in Frames
  BY TreeFacts
<1> QED
  BY <1>1, <1>2, Sizes DEF Frames

(* The end of paging_map.                                                  *)
LEMMA MapEntryTree ==
    ASSUME NEW m, NEW b, NEW K, TreeInv(m, b, K),
           NEW t \in K[0], NEW i \in Index, ~ Firm(b, t, i),
           NEW f \in Data(m, K), NoLeaf(m, b, K, f)
    PROVE  LET m2 == MapEntry([m |-> m, table |-> t], i, f)
           IN  /\ TreeInv(m2, b, K) /\ Data(m2, K) = Data(m, K)
               /\ Rest(m2) = Rest(m)
               /\ TablesSame(m, m2, K, t, i)
               /\ Present(m2.mem[t][i]) /\ FrameOf(m2.mem[t][i]) = f
               /\ i \in Added(m2, b, t)
<1> DEFINE m1 == IF Present(m.mem[t][i]) THEN m ELSE SetRef(m, t, ref_count(m, t) + 1)
           m2 == SetWord(m1, t, i, EntryFor(f))
<1>1. t \in AllIn(K) /\ t \in Frames /\ t \in 0 .. NFrames /\ t + 1 \in 0 .. NFrames /\ m \in Machine
  BY TreeFacts DEF TreeInv
<1>2. t # NULL
  BY <1>1 DEF TreeInv, TablesOwned
<1>3. MapEntry([m |-> m, table |-> t], i, f) = m2
  BY <1>2 DEF MapEntry
<1>4. t # Root
  <2>1. K[0] \cap K[3] = {} /\ K[3] = {Root}
    BY DEF TreeInv, TreeShape
  <2> QED
    BY <2>1
<1> DEFINE n == Cardinality(Added(m, b, t))
           n2 == IF Present(m.mem[t][i]) THEN n ELSE n + 1
<1>5. f \in Frames
  BY TreeFacts DEF Data, InUse
<1>6. /\ EntryFor(f) \in Word /\ FrameOf(EntryFor(f)) = f /\ Present(EntryFor(f))
  BY <1>5, EntryWord
<1>7. /\ ref_count(m, t) = Base(b, t) + n
      /\ Base(b, t) \in 0 .. WordCount - 1 - Entries /\ n \in 0 .. Entries
  BY <1>1, <1>4, CountFits
<1>8. Added(m, b, t) \in SUBSET Index /\ (Present(m.mem[t][i]) <=> i \in Added(m, b, t))
  BY DEF Added
<1>9. n2 = Cardinality(Added(m, b, t) \cup {i}) /\ n2 \in 0 .. Entries
  <2>1. CASE Present(m.mem[t][i])
    <3>1. Added(m, b, t) \cup {i} = Added(m, b, t)
      BY <1>8, <2>1
    <3> QED
      BY <1>7, <2>1, <3>1
  <2>2. CASE ~ Present(m.mem[t][i])
    <3>1. i \in Index \ Added(m, b, t)
      BY <1>8, <2>2
    <3>2. Cardinality(Added(m, b, t) \cup {i}) = n + 1 /\ n < Entries
      BY <1>8, <3>1, AddedFinite
    <3> HIDE DEF n
    <3> QED
      BY <1>7, <2>2, <3>2, Sizes
  <2> QED
    BY <2>1, <2>2
<1> HIDE DEF n, n2
<1>10. /\ m1 \in Machine /\ Rest(m1) = Rest(m)
       /\ \A g \in 0 .. NFrames : \A j \in Index :
             m1.mem[g][j] = IF g = t + 1 /\ j = 0 THEN Base(b, t) + n2 ELSE m.mem[g][j]
  <2>1. CASE Present(m.mem[t][i])
    <3>1. m.mem[t + 1][0] = Base(b, t) + n2
      BY <1>7, <2>1 DEF ref_count, n2
    <3> QED
      BY <1>1, <2>1, <3>1
  <2>2. CASE ~ Present(m.mem[t][i])
    <3>1. ref_count(m, t) + 1 = Base(b, t) + n2 /\ Base(b, t) + n2 \in 0 .. WordCount - 1
      BY <1>7, <1>9, <2>2, Sizes DEF n2
    <3>2. ref_count(m, t) + 1 \in -1 .. WordCount /\
          (ref_count(m, t) + 1 + WordCount) % WordCount = Base(b, t) + n2
      BY <3>1, Modulo, Sizes
    <3>3. m1 = SetRef(m, t, ref_count(m, t) + 1)
      BY <2>2
    <3> HIDE DEF m1
    <3> QED
      BY <1>1, <3>2, <3>3, SetRefFacts
  <2> QED
    BY <2>1, <2>2
<1> HIDE DEF m1
<1>11. /\ m2 \in Machine /\ Rest(m2) = Rest(m)
       /\ \A g \in 0 .. NFrames : \A j \in Index :
             m2.mem[g][j] = IF g = t /\ j = i THEN EntryFor(f) ELSE m1.mem[g][j]
  BY <1>1, <1>6, <1>10, SetWordFacts
<1> HIDE DEF m2
<1>12. \A u \in AllIn(K) : u \in 0 .. NFrames /\ u + 1 \in 0 .. NFrames /\ u # t + 1 /\ u + 1 # t
                           /\ (u + 1 = t + 1 => u = t)
  BY <1>1, TreeFacts, CountsApartFrom
<1>13. TablesSame(m, m2, K, t, i)
  BY <1>10, <1>11, <1>12 DEF TablesSame
<1>14. CountsSame(m, m2, K, t)
  <2>1. 0 \in Index
    BY Sizes
  <2> QED
    BY <1>10, <1>11, <1>12, <2>1 DEF CountsSame
<1>15. m2.mem[t][i] = EntryFor(f)
  BY <1>1, <1>11
<1>16. Added(m2, b, t) = Added(m, b, t) \cup {i}
  BY <1>1, <1>6, <1>13, <1>15 DEF TablesSame, Added, Firm
<1>17. m2.mem[t + 1][0] = Base(b, t) + Cardinality(Added(m2, b, t))
  <2>1. 0 \in Index /\ t + 1 # t
    BY <1>1, <1>12, Sizes
  <2>2. m2.mem[t + 1][0] = Base(b, t) + n2
    BY <1>1, <1>10, <1>11, <2>1
  <2> QED
    BY <1>9, <1>16, <2>2
<1>18. m2.bits = m.bits /\ m2.pool = m.pool
  BY <1>11 DEF Rest
<1>19. FrameOf(m2.mem[t][i]) = f
  BY <1>6, <1>15
<1>20. TreeInv(m2, b, K) /\ Data(m2, K) = Data(m, K)
  BY <1>11, <1>13, <1>14, <1>17, <1>18, <1>19, LeafTree
<1> QED
  BY <1>3, <1>6, <1>11, <1>13, <1>15, <1>16, <1>19, <1>20

(* The beginning of a release: the entry of a page is taken out.           *)
LEMMA UnmapTree ==
    ASSUME NEW m, NEW b, NEW K, TreeInv(m, b, K),
           NEW t \in K[0], NEW i \in Added(m, b, t)
    PROVE  LET m2 == DecRef(SetWord(m, t, i, m.mem[t][i] - PAGE_PRESENT), t)
           IN  /\ TreeInv(m2, b, K) /\ Data(m2, K) = Data(m, K)
               /\ Rest(m2) = Rest(m)
               /\ TablesSame(m, m2, K, t, i)
               /\ NoLeaf(m2, b, K, FrameOf(m.mem[t][i]))
<1> DEFINE m1 == SetWord(m, t, i, m.mem[t][i] - PAGE_PRESENT)
           m2 == DecRef(m1, t)
           n == Cardinality(Added(m, b, t))
<1>1. t \in AllIn(K) /\ t \in Frames /\ t \in 0 .. NFrames /\ t + 1 \in 0 .. NFrames /\ m \in Machine
  BY TreeFacts DEF TreeInv
<1>2. t # Root
  <2>1. K[0] \cap K[3] = {} /\ K[3] = {Root}
    BY DEF TreeInv, TreeShape
  <2> QED
    BY <2>1
<1>3. i \in Index /\ Present(m.mem[t][i]) /\ m.mem[t][i] \in Word /\ ~ Firm(b, t, i)
  BY <1>1, MemoryFacts DEF Added
<1>4. /\ ref_count(m, t) = Base(b, t) + n
      /\ Base(b, t) \in 0 .. WordCount - 1 - Entries /\ n \in 0 .. Entries
  BY <1>1, <1>2, CountFits
<1>5. Added(m, b, t) \in SUBSET Index
  BY DEF Added
<1>6. Cardinality(Added(m, b, t) \ {i}) = n - 1 /\ n # 0
  BY <1>5, AddedFinite
<1> HIDE DEF n
<1>7. m.mem[t][i] - PAGE_PRESENT \in Word /\ ~ Present(m.mem[t][i] - PAGE_PRESENT)
  BY <1>3, AbsentWord
<1>8. /\ m1 \in Machine /\ Rest(m1) = Rest(m)
      /\ \A g \in 0 .. NFrames : \A j \in Index :
            m1.mem[g][j] = IF g = t /\ j = i THEN m.mem[t][i] - PAGE_PRESENT ELSE m.mem[g][j]
  BY <1>1, <1>3, <1>7, SetWordFacts
<1>9. \A u \in AllIn(K) : u \in 0 .. NFrames /\ u + 1 \in 0 .. NFrames /\ u # t + 1 /\ u + 1 # t
                          /\ (u + 1 = t + 1 => u = t)
  BY <1>1, TreeFacts, CountsApartFrom
<1>10. ref_count(m1, t) = Base(b, t) + n
  <2>1. 0 \in Index /\ t + 1 # t
    BY <1>1, <1>9, Sizes
  <2> QED
    BY <1>1, <1>4, <1>8, <2>1 DEF ref_count
<1>11. m2 = SetRef(m1, t, ref_count(m1, t) - 1)
  BY DEF DecRef
<1>12. ref_count(m1, t) - 1 \in -1 .. WordCount
       /\ (ref_count(m1, t) - 1 + WordCount) % WordCount = Base(b, t) + n - 1
  <2>1. ref_count(m1, t) - 1 = Base(b, t) + n - 1 /\ Base(b, t) + n - 1 \in 0 .. WordCount - 1
    BY <1>4, <1>6, <1>10, Sizes
  <2> QED
    BY <2>1, Modulo, Sizes
<1> HIDE DEF m1, m2
<1>13. /\ m2 \in Machine /\ Rest(m2) = Rest(m)
       /\ \A g \in 0 .. NFrames : \A j \in Index :
             m2.mem[g][j] = IF g = t + 1 /\ j = 0 THEN Base(b, t) + n - 1 ELSE m1.mem[g][j]
  BY <1>1, <1>8, <1>11, <1>12, SetRefFacts
<1>14. TablesSame(m, m2, K, t, i)
  BY <1>8, <1>9, <1>13 DEF TablesSame
<1>15. CountsSame(m, m2, K, t)
  <2>1. 0 \in Index
    BY Sizes
  <2> QED
    BY <1>8, <1>9, <1>13, <2>1 DEF CountsSame
<1>16. m2.mem[t][i] = m.mem[t][i] - PAGE_PRESENT
  BY <1>1, <1>3, <1>8, <1>9, <1>13
<1>17. Added(m2, b, t) = Added(m, b, t) \ {i}
  BY <1>1, <1>7, <1>14, <1>16 DEF TablesSame, Added
<1>18. m2.mem[t + 1][0] = Base(b, t) + Cardinality(Added(m2, b, t))
  <2>1. 0 \in Index
    BY Sizes
  <2>2. m2.mem[t + 1][0] = Base(b, t) + n - 1
    BY <1>1, <1>13, <2>1
  <2> QED
    BY <1>4, <1>6, <1>17, <2>2, Sizes
<1>19. m2.bits = m.bits /\ m2.pool = m.pool
  BY <1>13 DEF Rest
<1>20. TreeInv(m2, b, K) /\ Data(m2, K) = Data(m, K)
  BY <1>3, <1>7, <1>13, <1>14, <1>15, <1>16, <1>18, <1>19, LeafTree
<1>21. NoLeaf(m2, b, K, FrameOf(m.mem[t][i]))
  <2> SUFFICES ASSUME NEW u \in K[0], NEW j \in Added(m2, b, u),
                      FrameOf(m2.mem[u][j]) = FrameOf(m.mem[t][i])
               PROVE  FALSE
    BY DEF NoLeaf
  <2>1. ~ (u = t /\ j = i) /\ j \in Index /\ u \in AllIn(K)
    BY <1>17, TreeFacts DEF Added
  <2>2. m2.mem[u][j] = m.mem[u][j]
    BY <1>14, <2>1 DEF TablesSame
  <2>3. j \in Added(m, b, u)
    BY <2>2 DEF Added
  <2> QED
    BY <2>1, <2>2, <2>3 DEF TreeInv, LeavesOwned
<1> QED
  BY <1>13, <1>14, <1>20, <1>21 DEF m1, m2

-----------------------------------------------------------------------------
(* Tables come and go                                                      *)

(* The words AddTable writes.                                              *)
LEMMA AddTableWords ==
    ASSUME NEW m, NEW b, NEW K, TreeInv(m, b, K),
           NEW t \in AllIn(K), NEW i \in Index, ~ Present(m.mem[t][i]),
           NEW f \in Frames, f \notin AllIn(K),
           \A u \in AllIn(K) : u + 1 # f, f + 1 \notin AllIn(K)
    PROVE  LET m2 == AddTable(m, t, i, f)
           IN  /\ m2 \in Machine /\ Rest(m2) = Rest(m)
               /\ TablesSame(m, m2, K, t, i)
               /\ m2.mem[t][i] = EntryFor(f)
               /\ \A j \in Index : m2.mem[f][j] = 0
               /\ CountsSame(m, m2, K, t)
               /\ m2.mem[f + 1][0] = 0
               /\ t # Root => m2.mem[t + 1][0] = ref_count(m, t) + 1
<1> DEFINE m0 == memset0(m, f)
           m1 == SetWord(m0, t, i, EntryFor(f))
           m3 == SetRef(m1, f, 0)
           n  == ref_count(m3, t) + 1
           m2 == SetRef(m3, t, n)
<1>1. m2 = AddTable(m, t, i, f)
  BY DEF AddTable
<1>2. /\ t \in Frames /\ t \in 0 .. NFrames /\ t + 1 \in 0 .. NFrames /\ m \in Machine
      /\ f \in 0 .. NFrames /\ f + 1 \in 0 .. NFrames /\ 0 \in Index
  BY TreeFacts, Sizes DEF TreeInv, Frames
<1>3. /\ m0 \in Machine /\ Rest(m0) = Rest(m)
      /\ \A g \in 0 .. NFrames : \A j \in Index :
            m0.mem[g][j] = IF g = f THEN 0 ELSE m.mem[g][j]
  BY <1>2, memset0Facts
<1> HIDE DEF m0
<1>4. EntryFor(f) \in Word
  BY EntryWord
<1>5. /\ m1 \in Machine /\ Rest(m1) = Rest(m)
      /\ \A g \in 0 .. NFrames : \A j \in Index :
            m1.mem[g][j] = IF g = t /\ j = i THEN EntryFor(f) ELSE m0.mem[g][j]
  <2>1. m0 \in Machine /\ t \in 0 .. NFrames /\ i \in Index /\ EntryFor(f) \in Word
    BY <1>2, <1>3, <1>4
  <2> QED
    BY <1>3, <2>1, SetWordFacts
<1> HIDE DEF m1
<1>6. 0 \in -1 .. WordCount /\ (0 + WordCount) % WordCount = 0
  BY Sizes
<1>7. /\ m3 \in Machine /\ Rest(m3) = Rest(m)
      /\ \A g \in 0 .. NFrames : \A j \in Index :
            m3.mem[g][j] = IF g = f + 1 /\ j = 0 THEN 0 ELSE m1.mem[g][j]
  BY <1>2, <1>5, <1>6, SetRefFacts
<1> HIDE DEF m3
<1>8. /\ t # f /\ t + 1 # f /\ f + 1 # t /\ f + 1 # t + 1 /\ t + 1 # t /\ f + 1 # f
      /\ \A u \in AllIn(K) : /\ u \in 0 .. NFrames /\ u + 1 \in 0 .. NFrames
                             /\ u # f /\ u # f + 1 /\ u # t + 1 /\ u + 1 # f /\ u + 1 # t
                             /\ u + 1 # f + 1 /\ (u + 1 = t + 1 => u = t)
  <2>1. \A u \in AllIn(K) : u \in Frames
    BY TreeFacts
  <2>2. \A u \in AllIn(K) : u # t + 1 /\ u + 1 # t /\ (u + 1 = t + 1 => u = t)
    BY CountsApartFrom
  <2>3. \A u \in AllIn(K) : u \in Nat /\ u \in 0 .. NFrames /\ u + 1 \in 0 .. NFrames
    BY <2>1, Sizes DEF Frames
  <2>4. f \in Nat
    BY <1>2
  <2>5. \A u \in AllIn(K) : u + 1 # f + 1
    BY <2>3, <2>4
  <2> QED
    BY <2>2, <2>3, <2>4, <2>5
<1>9. ref_count(m3, t) = ref_count(m, t) /\ ref_count(m, t) \in Word
  <2>1. m3.mem[t + 1][0] = m.mem[t + 1][0]
    BY <1>2, <1>3, <1>5, <1>7, <1>8
  <2> QED
    BY <1>2, <2>1, MemoryFacts DEF ref_count
<1>10. n \in -1 .. WordCount
  BY <1>9, Sizes DEF Word
<1> HIDE DEF n
<1>11. /\ m2 \in Machine /\ Rest(m2) = Rest(m)
       /\ \A g \in 0 .. NFrames : \A j \in Index :
             m2.mem[g][j] = IF g = t + 1 /\ j = 0 THEN (n + WordCount) % WordCount ELSE m3.mem[g][j]
  BY <1>2, <1>7, <1>10, SetRefFacts
<1> HIDE DEF m2
<1>12. TablesSame(m, m2, K, t, i)
  BY <1>3, <1>5, <1>7, <1>8, <1>11 DEF TablesSame
<1>13. m2.mem[t][i] = EntryFor(f)
  BY <1>2, <1>3, <1>5, <1>7, <1>8, <1>11
<1>14. \A j \in Index : m2.mem[f][j] = 0
  BY <1>2, <1>3, <1>5, <1>7, <1>8, <1>11
<1>15. CountsSame(m, m2, K, t)
  BY <1>2, <1>3, <1>5, <1>7, <1>8, <1>11 DEF CountsSame
<1>16. m2.mem[f + 1][0] = 0
  BY <1>2, <1>3, <1>5, <1>7, <1>8, <1>11
<1>17. t # Root => m2.mem[t + 1][0] = ref_count(m, t) + 1
  <2>1. ASSUME t # Root PROVE (n + WordCount) % WordCount = ref_count(m, t) + 1
    <3>1. ref_count(m, t) + 1 \in 0 .. WordCount - 1
      <4>1. i \in Index \ Added(m, b, t) /\ Added(m, b, t) \in SUBSET Index
        BY DEF Added
      <4>2. Cardinality(Added(m, b, t)) < Entries
        BY <4>1, AddedFinite
      <4> QED
        BY <2>1, <4>2, CountFits, Sizes
    <3>2. n = ref_count(m, t) + 1
      BY <1>9 DEF n
    <3> QED
      BY <3>1, <3>2, Modulo
  <2> QED
    BY <1>2, <1>11, <2>1
<1> QED
  BY <1>1, <1>11, <1>12, <1>13, <1>14, <1>15, <1>16, <1>17

(* The family K with frame f at level k.                                   *)
WithTable(K, k, f) == [l \in 0 .. 3 |-> IF l = k THEN K[l] \cup {f} ELSE K[l]]

(* A table is added in a frame just taken.                                 *)
LEMMA AddTree ==
    ASSUME NEW m, NEW b, NEW K, TreeInv(m, b, K),
           NEW k \in 1 .. 3, NEW t \in K[k], NEW i \in Index, ~ Present(m.mem[t][i]),
           NEW f \in Data(m, K), NoLeaf(m, b, K, f),
           \A u \in AllIn(K) : u + 1 # f, f + 1 \notin AllIn(K) \cup InUse(m)
    PROVE  LET m2 == AddTable(m, t, i, f)
               K2 == WithTable(K, k - 1, f)
           IN  /\ TreeInv(m2, b, K2) /\ Data(m2, K2) = Data(m, K) \ {f}
               /\ Rest(m2) = Rest(m)
               /\ TablesSame(m, m2, K, t, i) /\ m2.mem[t][i] = EntryFor(f)
               /\ AllIn(K2) = AllIn(K) \cup {f} /\ K2[k - 1] = K[k - 1] \cup {f}
               /\ \A l \in 0 .. 3 : K[l] \subseteq K2[l]
               /\ i \in Added(m2, b, t)
               /\ \A g : NoLeaf(m, b, K, g) => NoLeaf(m2, b, K2, g)
<1> DEFINE m2 == AddTable(m, t, i, f)
           K2 == WithTable(K, k - 1, f)
<1>1. t \in AllIn(K) /\ m \in Machine /\ f \in Frames /\ f \in m.pool /\ f \in InUse(m)
      /\ f \notin AllIn(K) /\ f # NULL /\ f \notin Tables(b) /\ t # f
  BY TreeFacts DEF TreeInv, Data, InUse
<1>2. /\ m2 \in Machine /\ Rest(m2) = Rest(m)
      /\ TablesSame(m, m2, K, t, i)
      /\ m2.mem[t][i] = EntryFor(f)
      /\ \A j \in Index : m2.mem[f][j] = 0
      /\ CountsSame(m, m2, K, t)
      /\ m2.mem[f + 1][0] = 0
      /\ t # Root => m2.mem[t + 1][0] = ref_count(m, t) + 1
  BY <1>1, AddTableWords
<1> HIDE DEF m2
<1>3. \A l \in 0 .. 3 : K2[l] = IF l = k - 1 THEN K[l] \cup {f} ELSE K[l]
  BY DEF WithTable
<1>4. k - 1 \in 0 .. 3 /\ k \in 0 .. 3 /\ k # k - 1 /\ k - 1 # 3 /\ k # 0
  OBVIOUS
<1>5. AllIn(K2) = AllIn(K) \cup {f}
  BY <1>3, <1>4, AllIff
<1>6. \A l \in 0 .. 3 : K[l] \subseteq K2[l] /\ K[l] \subseteq AllIn(K)
  BY <1>3, TreeFacts
<1>7. /\ K \in [0 .. 3 -> SUBSET Frames] /\ K[3] = {Root}
      /\ \A l \in 1 .. 3 : K[l - 1] = Below(m, K[l])
      /\ \A j, l \in 0 .. 3 : j # l => K[j] \cap K[l] = {}
      /\ \A l \in 1 .. 3 : LinksUnique(m, K[l])
  BY DEF TreeInv, TreeShape
<1>8. K2 \in [0 .. 3 -> SUBSET Frames] /\ K2[3] = {Root}
  <2>1. K2 = [l \in 0 .. 3 |-> IF l = k - 1 THEN K[l] \cup {f} ELSE K[l]]
    BY DEF WithTable
  <2> QED
    BY <1>1, <1>3, <1>4, <1>7, <2>1
<1> HIDE DEF K2
<1>9. \A j, l \in 0 .. 3 : j # l => K2[j] \cap K2[l] = {}
  <2> SUFFICES ASSUME NEW j \in 0 .. 3, NEW l \in 0 .. 3, j # l, NEW x \in K2[j], x \in K2[l]
               PROVE  FALSE
    OBVIOUS
  <2>1. \A a \in 0 .. 3 : f \notin K[a]
    BY <1>1, <1>6
  <2>2. CASE x = f
    BY <1>3, <2>1, <2>2
  <2>3. CASE x # f
    BY <1>3, <1>7, <2>3
  <2> QED
    BY <2>2, <2>3
<1>10. Leads(EntryFor(f)) /\ Present(EntryFor(f)) /\ FrameOf(EntryFor(f)) = f
  BY <1>1, EntryWord
<1>11. \A j \in Index : ~ Present(m2.mem[f][j]) /\ ~ Leads(m2.mem[f][j])
  BY <1>2, AbsentWord DEF Leads
<1>12. \A u \in AllIn(K) : \A j \in Index : Present(m.mem[u][j]) =>
          m2.mem[u][j] = m.mem[u][j]
  BY <1>2 DEF TablesSame
<1>13. ASSUME NEW l \in 1 .. 3, NEW u \in K2[l], NEW j \in Index, Present(m2.mem[u][j])
       PROVE  /\ u \in K[l] /\ u \in AllIn(K) /\ u # f
              /\ \/ u = t /\ j = i /\ l = k /\ m2.mem[u][j] = EntryFor(f)
                 \/ ~ (u = t /\ j = i) /\ m2.mem[u][j] = m.mem[u][j]
  <2>1. u # f
    BY <1>11, <1>13
  <2>2. u \in K[l] /\ u \in AllIn(K)
    BY <1>3, <1>6, <2>1
  <2>3. u = t => l = k
    BY <1>4, <1>7, <2>2
  <2> QED
    BY <1>2, <2>1, <2>2, <2>3 DEF TablesSame
<1>14. ASSUME NEW l \in 1 .. 3, NEW x
       PROVE  x \in K2[l - 1] <=> x \in Below(m2, K2[l])
  <2>1. l - 1 \in 0 .. 3 /\ l \in 0 .. 3 /\ K[l - 1] = Below(m, K[l])
    BY <1>7
  <2>2. ASSUME x \in K2[l - 1] PROVE x \in Below(m2, K2[l])
    <3>1. CASE x \in K[l - 1]
      <4>1. PICK u \in K[l], j \in Index : Leads(m.mem[u][j]) /\ x = FrameOf(m.mem[u][j])
        BY <2>1, <3>1, BelowIff
      <4>2. u \in K2[l] /\ m2.mem[u][j] = m.mem[u][j]
        BY <1>6, <1>12, <2>1, <4>1 DEF Leads
      <4> QED
        BY <4>1, <4>2, BelowIff
    <3>2. CASE x \notin K[l - 1]
      <4>1. x = f /\ l = k
        BY <1>3, <1>4, <2>1, <2>2, <3>2
      <4>2. t \in K2[l] /\ Leads(m2.mem[t][i]) /\ x = FrameOf(m2.mem[t][i])
        BY <1>2, <1>6, <1>10, <2>1, <4>1
      <4> QED
        BY <4>2, BelowIff
    <3> QED
      BY <3>1, <3>2
  <2>3. ASSUME x \in Below(m2, K2[l]) PROVE x \in K2[l - 1]
    <3>1. PICK u \in K2[l], j \in Index : Leads(m2.mem[u][j]) /\ x = FrameOf(m2.mem[u][j])
      BY <2>3, BelowIff
    <3>2. /\ u \in K[l]
          /\ \/ u = t /\ j = i /\ l = k /\ m2.mem[u][j] = EntryFor(f)
             \/ ~ (u = t /\ j = i) /\ m2.mem[u][j] = m.mem[u][j]
      BY <1>13, <3>1 DEF Leads
    <3>3. CASE l = k /\ m2.mem[u][j] = EntryFor(f)
      BY <1>3, <1>4, <1>10, <3>1, <3>3
    <3>4. CASE m2.mem[u][j] = m.mem[u][j]
      <4>1. x \in Below(m, K[l])
        BY <3>1, <3>2, <3>4, BelowIff
      <4> QED
        BY <1>6, <2>1, <4>1
    <3> QED
      BY <3>2, <3>3, <3>4
  <2> QED
    BY <2>2, <2>3
<1>15. ASSUME NEW l \in 1 .. 3
       PROVE  LinksUnique(m2, K2[l])
  <2> SUFFICES ASSUME NEW u \in K2[l], NEW v \in K2[l], NEW p \in Index, NEW q \in Index,
                      Leads(m2.mem[u][p]), Leads(m2.mem[v][q]),
                      FrameOf(m2.mem[u][p]) = FrameOf(m2.mem[v][q])
               PROVE  u = v /\ p = q
    BY DEF LinksUnique
  <2>1. /\ u \in K[l]
        /\ \/ u = t /\ p = i /\ m2.mem[u][p] = EntryFor(f)
           \/ ~ (u = t /\ p = i) /\ m2.mem[u][p] = m.mem[u][p]
    BY <1>13 DEF Leads
  <2>2. /\ v \in K[l]
        /\ \/ v = t /\ q = i /\ m2.mem[v][q] = EntryFor(f)
           \/ ~ (v = t /\ q = i) /\ m2.mem[v][q] = m.mem[v][q]
    BY <1>13 DEF Leads
  <2>3. \A w \in K[l] : \A j \in Index : Leads(m.mem[w][j]) => FrameOf(m.mem[w][j]) # f
    <3>1. l - 1 \in 0 .. 3 /\ K[l - 1] = Below(m, K[l]) /\ f \notin K[l - 1]
      BY <1>1, <1>6, <1>7
    <3> QED
      BY <3>1, BelowIff
  <2>4. LinksUnique(m, K[l])
    BY <1>7
  <2> QED
    BY <1>10, <2>1, <2>2, <2>3, <2>4 DEF LinksUnique
<1>16. TreeShape(m2, K2)
  <2>1. \A l \in 1 .. 3 : K2[l - 1] = Below(m2, K2[l])
    BY <1>14
  <2> QED
    BY <1>8, <1>9, <1>15, <2>1 DEF TreeShape
<1>17. InUse(m2) = InUse(m) /\ m2.pool = m.pool /\ m2.bits = m.bits
       /\ Data(m2, K2) = Data(m, K) \ {f}
  <2>1. InUse(m2) = InUse(m) /\ m2.pool = m.pool /\ m2.bits = m.bits
    BY <1>2 DEF InUse, Rest
  <2> QED
    BY <1>5, <2>1 DEF Data
<1>18. CountsClear(m2, K2)
  <2>1. f + 1 # f
    BY <1>1, Sizes DEF Frames
  <2> QED
    BY <1>5, <1>17, <2>1 DEF TreeInv, CountsClear
<1>19. TablesOwned(m2, b, K2)
  BY <1>1, <1>5, <1>17 DEF TreeInv, TablesOwned
<1>20. FirmwareKept(m2, b)
  <2>1. Tables(b) \subseteq AllIn(K)
    BY TreeFacts
  <2> QED
    BY <1>12, <2>1 DEF TreeInv, FirmwareKept
<1>21. Added(m2, b, f) = {}
  BY <1>11 DEF Added
<1>22. \A u \in AllIn(K) : u # t => Added(m2, b, u) = Added(m, b, u)
  BY <1>2 DEF TablesSame, Added
<1>23. ~ Firm(b, t, i)
  BY DEF TreeInv, FirmwareKept, Firm
<1>24. Added(m2, b, t) = Added(m, b, t) \cup {i} /\ i \notin Added(m, b, t)
  BY <1>1, <1>2, <1>10, <1>23 DEF TablesSame, Added
<1>25. LinksOwned(m2, b, K2)
  <2> SUFFICES ASSUME NEW l \in 1 .. 3, NEW u \in K2[l], NEW j \in Added(m2, b, u)
               PROVE  Leads(m2.mem[u][j]) /\ FrameOf(m2.mem[u][j]) \in m2.pool
    BY DEF LinksOwned
  <2>1. j \in Index /\ Present(m2.mem[u][j]) /\ ~ Firm(b, u, j)
    BY DEF Added
  <2>2. /\ u \in K[l]
        /\ \/ u = t /\ j = i /\ m2.mem[u][j] = EntryFor(f)
           \/ ~ (u = t /\ j = i) /\ m2.mem[u][j] = m.mem[u][j]
    BY <1>13, <2>1
  <2>3. CASE m2.mem[u][j] = EntryFor(f)
    BY <1>1, <1>10, <1>17, <2>3
  <2>4. CASE m2.mem[u][j] = m.mem[u][j]
    <3>1. j \in Added(m, b, u)
      BY <2>1, <2>4 DEF Added
    <3> QED
      BY <1>17, <2>2, <2>4, <3>1 DEF TreeInv, LinksOwned
  <2> QED
    BY <2>2, <2>3, <2>4
<1>26. ASSUME NEW u \in K2[0], NEW j \in Added(m2, b, u)
       PROVE  u \in K[0] /\ j \in Added(m, b, u) /\ m2.mem[u][j] = m.mem[u][j]
  <2>1. u # f /\ j \in Index
    BY <1>21 DEF Added
  <2>2. u \in K[0] /\ u \in AllIn(K)
    BY <1>3, <1>6, <2>1
  <2>3. u # t
    BY <1>4, <1>7, <2>2
  <2> QED
    BY <1>2, <1>22, <2>1, <2>2, <2>3 DEF TablesSame
<1>31. LeavesOwned(m2, b, K2)
  <2>2. ASSUME NEW u \in K2[0], NEW j \in Added(m2, b, u)
        PROVE  FrameOf(m2.mem[u][j]) \in Data(m2, K2)
    <3>1. FrameOf(m2.mem[u][j]) \in Data(m, K) /\ FrameOf(m2.mem[u][j]) # f
      BY <1>26 DEF TreeInv, LeavesOwned, NoLeaf
    <3> QED
      BY <1>17, <3>1
  <2>3. ASSUME NEW u \in K2[0], NEW v \in K2[0], NEW p \in Added(m2, b, u), NEW q \in Added(m2, b, v),
               FrameOf(m2.mem[u][p]) = FrameOf(m2.mem[v][q])
        PROVE  u = v /\ p = q
    BY <1>26, <2>3 DEF TreeInv, LeavesOwned
  <2> QED
    BY <2>2, <2>3 DEF LeavesOwned
<1>32. \A g : NoLeaf(m, b, K, g) => NoLeaf(m2, b, K2, g)
  BY <1>26 DEF NoLeaf
<1>27. CountsExact(m2, b, K2)
  <2> SUFFICES ASSUME NEW u \in AllIn(K2) \ {Root}
               PROVE  ref_count(m2, u) = Base(b, u) + Cardinality(Added(m2, b, u))
    BY DEF CountsExact
  <2>1. CASE u = f
    <3>1. ref_count(m2, f) = 0
      BY <1>2 DEF ref_count
    <3>2. Base(b, f) = 0 /\ Cardinality(Added(m2, b, f)) = 0
      BY <1>1, <1>21, FS_EmptySet DEF Base
    <3> QED
      BY <2>1, <3>1, <3>2
  <2>2. CASE u = t
    <3>1. ref_count(m2, t) = ref_count(m, t) + 1
      BY <1>2, <2>2 DEF ref_count
    <3>2. /\ ref_count(m, t) = Base(b, t) + Cardinality(Added(m, b, t))
          /\ Base(b, t) \in Nat /\ Cardinality(Added(m, b, t)) \in Nat
      BY <1>1, <2>2, CountFits, Sizes
    <3>3. Cardinality(Added(m2, b, t)) = Cardinality(Added(m, b, t)) + 1
      BY <1>1, <1>24, TreeFacts, AddedFinite
    <3> QED
      BY <2>2, <3>1, <3>2, <3>3
  <2>3. CASE u # f /\ u # t
    <3>1. u \in AllIn(K) \ {Root, t}
      BY <1>5, <2>3
    <3>2. ref_count(m2, u) = ref_count(m, u)
      BY <1>2, <3>1 DEF CountsSame, ref_count
    <3> QED
      BY <1>22, <3>1, <3>2 DEF TreeInv, CountsExact
  <2> QED
    BY <2>1, <2>2, <2>3
<1>28. BootFacts(m2, b) /\ Frames \ m2.bits \subseteq m2.pool
  BY <1>17 DEF TreeInv, BootFacts
<1>29. TreeInv(m2, b, K2)
  BY <1>2, <1>16, <1>18, <1>19, <1>20, <1>25, <1>31, <1>27, <1>28 DEF TreeInv
<1>30. K2[k - 1] = K[k - 1] \cup {f}
  BY <1>3, <1>4
<1> QED
  BY <1>2, <1>5, <1>6, <1>17, <1>24, <1>29, <1>30, <1>32 DEF m2, K2

(* An entry of a table leads to a table of the level below; the firmware's *)
(* lead to the firmware's.                                                 *)
LEMMA ChildIn ==
    ASSUME NEW m, NEW b, NEW K, TreeInv(m, b, K),
           NEW k \in 1 .. 3, NEW t \in K[k], NEW i \in Index, Leads(m.mem[t][i])
    PROVE  /\ FrameOf(m.mem[t][i]) \in K[k - 1]
           /\ Firm(b, t, i) => FrameOf(m.mem[t][i]) \in Tables(b)
<1>1. FrameOf(m.mem[t][i]) \in K[k - 1]
  BY BelowIff DEF TreeInv, TreeShape
<1>2. ASSUME Firm(b, t, i) PROVE FrameOf(m.mem[t][i]) \in Tables(b)
  <2>1. t \in Tables(b) /\ m.mem[t][i] = b.mem[t][i]
    BY <1>2 DEF Firm, TreeInv, FirmwareKept
  <2>2. k \in 0 .. 3 /\ k - 1 \in 0 .. 3
    OBVIOUS
  <2>3. t \in Levels(b)[k]
    BY <2>1, <2>2, FirmwareLevels
  <2>4. FrameOf(b.mem[t][i]) \in Levels(b)[k - 1]
    BY <2>1, <2>3, FirmwareLevels, BelowIff
  <2> QED
    BY <2>1, <2>2, <2>4, FirmwareLevels
<1> QED
  BY <1>1, <1>2

(* A table is released together with the entry that leads to it: the root  *)
(* is not counted down.                                                    *)
Drop(m, k, c, t, i) ==
    IF k = 3 THEN DropTable(m, c, t, i) ELSE DecRef(DropTable(m, c, t, i), t)

WithoutTable(K, k, c) == [l \in 0 .. 3 |-> IF l = k THEN K[l] \ {c} ELSE K[l]]

(* The words Drop writes.                                                  *)
LEMMA DropWords ==
    ASSUME NEW m, NEW b, NEW K, TreeInv(m, b, K),
           NEW k \in 1 .. 3, NEW t \in K[k], NEW i \in Added(m, b, t), NEW c \in Frames
    PROVE  LET m2 == Drop(m, k, c, t, i)
           IN  /\ m2 \in Machine /\ m2.bits = m.bits \ {c} /\ m2.pool = m.pool
               /\ m2.starved = m.starved /\ m2.wild = m.wild /\ m2.shared = m.shared
               /\ TablesSame(m, m2, K, t, i)
               /\ m2.mem[t][i] = 0
               /\ CountsSame(m, m2, K, t)
               /\ t # Root => m2.mem[t + 1][0] = ref_count(m, t) - 1
<1> DEFINE mb == [m EXCEPT !.bits = FreeFrame(@, c)]
           m1 == SetWord(mb, t, i, 0)
           n  == ref_count(m, t) - 1
           m2 == Drop(m, k, c, t, i)
<1>1. t \in AllIn(K) /\ t \in Frames /\ t \in 0 .. NFrames /\ t + 1 \in 0 .. NFrames /\ m \in Machine
      /\ i \in Index /\ k \in 0 .. 3
  BY TreeFacts DEF TreeInv, Added
<1>2. k = 3 <=> t = Root
  <2>1. \A j, l \in 0 .. 3 : j # l => K[j] \cap K[l] = {}
    BY DEF TreeInv, TreeShape
  <2>2. K[3] = {Root} /\ 3 \in 0 .. 3
    BY DEF TreeInv, TreeShape
  <2> QED
    BY <1>1, <2>1, <2>2
<1>3. m1 = DropTable(m, c, t, i)
  BY DEF DropTable
<1>4. FreeFrame(m.bits, c) = m.bits \ {c}
  BY Sizes DEF FreeFrame, clear_bit, Frames
<1>5. /\ mb \in Machine /\ mb.mem = m.mem /\ mb.bits = m.bits \ {c} /\ mb.pool = m.pool
      /\ mb.starved = m.starved /\ mb.wild = m.wild /\ mb.shared = m.shared
  BY <1>1, <1>4 DEF Machine
<1> HIDE DEF mb
<1>6. /\ m1 \in Machine /\ Rest(m1) = Rest(mb)
      /\ \A g \in 0 .. NFrames : \A j \in Index :
            m1.mem[g][j] = IF g = t /\ j = i THEN 0 ELSE mb.mem[g][j]
  <2>1. mb \in Machine /\ t \in 0 .. NFrames /\ i \in Index /\ 0 \in Word
    BY <1>1, <1>5, Sizes
  <2> QED
    BY <2>1, SetWordFacts
<1> HIDE DEF m1
<1>7. \A u \in AllIn(K) : u \in 0 .. NFrames /\ u + 1 \in 0 .. NFrames /\ u # t + 1 /\ u + 1 # t
                          /\ (u + 1 = t + 1 => u = t)
  BY <1>1, TreeFacts, CountsApartFrom
<1>8. 0 \in Index /\ t + 1 # t
  BY <1>1, <1>7, Sizes
<1>9. /\ TablesSame(m, m1, K, t, i) /\ m1.mem[t][i] = 0 /\ CountsSame(m, m1, K, t)
  BY <1>1, <1>5, <1>6, <1>7, <1>8 DEF TablesSame, CountsSame
<1>10. /\ m1.bits = m.bits \ {c} /\ m1.pool = m.pool
       /\ m1.starved = m.starved /\ m1.wild = m.wild /\ m1.shared = m.shared
  BY <1>5, <1>6 DEF Rest
<1>11. CASE k = 3
  <2>1. m2 = m1
    BY <1>3, <1>11 DEF Drop
  <2> QED
    BY <1>2, <1>6, <1>9, <1>10, <1>11, <2>1 DEF m2
<1>12. CASE k # 3
  <2>1. m2 = SetRef(m1, t, ref_count(m1, t) - 1)
    BY <1>3, <1>12 DEF Drop, DecRef
  <2>2. ref_count(m1, t) = ref_count(m, t)
    BY <1>1, <1>5, <1>6, <1>8 DEF ref_count
  <2>3. n \in 0 .. WordCount - 1
    <3>1. i \in Added(m, b, t) /\ Added(m, b, t) \in SUBSET Index
      BY DEF Added
    <3>2. Cardinality(Added(m, b, t)) # 0
      BY <3>1, AddedFinite
    <3> QED
      BY <1>1, <1>2, <1>12, <3>2, CountFits, Sizes
  <2>4. n \in -1 .. WordCount /\ (n + WordCount) % WordCount = n
    BY <2>3, Modulo, Sizes
  <2>5. m2 = SetRef(m1, t, n)
    BY <2>1, <2>2
  <2> HIDE DEF n, m2
  <2>6. /\ m2 \in Machine /\ Rest(m2) = Rest(m1)
        /\ \A g \in 0 .. NFrames : \A j \in Index :
              m2.mem[g][j] = IF g = t + 1 /\ j = 0 THEN n ELSE m1.mem[g][j]
    BY <1>1, <1>6, <2>4, <2>5, SetRefFacts
  <2>7. /\ TablesSame(m, m2, K, t, i) /\ m2.mem[t][i] = 0 /\ CountsSame(m, m2, K, t)
        /\ m2.mem[t + 1][0] = n
    BY <1>1, <1>7, <1>8, <1>9, <2>6 DEF TablesSame, CountsSame
  <2>8. /\ m2.bits = m.bits \ {c} /\ m2.pool = m.pool
        /\ m2.starved = m.starved /\ m2.wild = m.wild /\ m2.shared = m.shared
    BY <1>10, <2>6 DEF Rest
  <2> QED
    BY <2>6, <2>7, <2>8 DEF m2, n
<1> QED
  BY <1>11, <1>12

(* A table whose count is zero is released: it has no entry, and what led  *)
(* to it was an entry of the kernel's.                                     *)
LEMMA DropTree ==
    ASSUME NEW m, NEW b, NEW K, TreeInv(m, b, K),
           NEW k \in 1 .. 3, NEW t \in K[k], NEW i \in Index, Leads(m.mem[t][i]),
           NEW c, c = FrameOf(m.mem[t][i]), ref_count(m, c) = 0
    PROVE  LET m2 == Drop(m, k, c, t, i)
               K2 == WithoutTable(K, k - 1, c)
           IN  /\ TreeInv(m2, b, K2) /\ Data(m2, K2) = Data(m, K)
               /\ m2.bits = m.bits \ {c} /\ m2.pool = m.pool
               /\ m2.starved = m.starved /\ m2.wild = m.wild /\ m2.shared = m.shared
               /\ TablesSame(m, m2, K, t, i) /\ ~ Present(m2.mem[t][i])
               /\ AllIn(K2) = AllIn(K) \ {c} /\ K2[k] = K[k] /\ K2[3] = K[3]
               /\ \A l \in 0 .. 3 : K2[l] \subseteq K[l]
               /\ \A l \in 0 .. 3 : l >= k => K2[l] = K[l]
               /\ c \notin Tables(b) /\ \A j \in Index : ~ Present(m.mem[c][j])
               /\ \A f : NoLeaf(m, b, K, f) => NoLeaf(m2, b, K2, f)
<1> DEFINE m2 == Drop(m, k, c, t, i)
           K2 == WithoutTable(K, k - 1, c)
<1>1. /\ K \in [0 .. 3 -> SUBSET Frames] /\ K[3] = {Root}
      /\ \A l \in 1 .. 3 : K[l - 1] = Below(m, K[l])
      /\ \A j, l \in 0 .. 3 : j # l => K[j] \cap K[l] = {}
      /\ \A l \in 1 .. 3 : LinksUnique(m, K[l])
  BY DEF TreeInv, TreeShape
<1>2. k - 1 \in 0 .. 3 /\ k \in 0 .. 3 /\ k # k - 1 /\ k - 1 # 3 /\ k # 0 /\ 0 \in 0 .. 3 /\ 3 \in 0 .. 3
  OBVIOUS
<1>3. \A l \in 0 .. 3 : K[l] \subseteq AllIn(K)
  BY TreeFacts
<1>4. c \in K[k - 1] /\ c \in AllIn(K) /\ c # Root
  <2>1. c \in K[k - 1]
    BY ChildIn
  <2> QED
    BY <1>1, <1>2, <1>3, <2>1
<1>5. c \notin Tables(b) /\ Added(m, b, c) = {}
  <2>1. /\ 0 = Base(b, c) + Cardinality(Added(m, b, c))
        /\ Base(b, c) \in 0 .. WordCount - 1 - Entries
        /\ Cardinality(Added(m, b, c)) \in 0 .. Entries
        /\ c \in Tables(b) => Base(b, c) >= 1
    BY <1>4, CountFits
  <2>2. ~ (Base(b, c) >= 1) /\ Cardinality(Added(m, b, c)) = 0
    BY <2>1, Sizes
  <2>3. Added(m, b, c) \in SUBSET Index
    BY DEF Added
  <2> QED
    BY <2>1, <2>2, <2>3, AddedFinite
<1>6. \A j \in Index : ~ Present(m.mem[c][j])
  BY <1>5 DEF Added, Firm
<1>7. i \in Added(m, b, t) /\ ~ Firm(b, t, i)
  BY <1>5, ChildIn DEF Added, Leads
<1>8. c \in InUse(m) /\ c \in m.pool /\ c \in Frames /\ t # c /\ t \in AllIn(K)
  BY <1>2, <1>1, <1>3, <1>4, <1>5, TreeFacts DEF TreeInv, TablesOwned, InUse
<1>9. /\ m2 \in Machine /\ m2.bits = m.bits \ {c} /\ m2.pool = m.pool
      /\ m2.starved = m.starved /\ m2.wild = m.wild /\ m2.shared = m.shared
      /\ TablesSame(m, m2, K, t, i)
      /\ m2.mem[t][i] = 0
      /\ CountsSame(m, m2, K, t)
      /\ t # Root => m2.mem[t + 1][0] = ref_count(m, t) - 1
  BY <1>7, <1>8, DropWords
<1> HIDE DEF m2
<1>10. ~ Present(m2.mem[t][i])
  BY <1>9, AbsentWord
<1>11. \A l \in 0 .. 3 : K2[l] = IF l = k - 1 THEN K[l] \ {c} ELSE K[l]
  BY DEF WithoutTable
<1>12. K2 \in [0 .. 3 -> SUBSET Frames] /\ K2[3] = {Root} /\ K2[k] = K[k] /\ K2[3] = K[3]
  <2>1. K2 = [l \in 0 .. 3 |-> IF l = k - 1 THEN K[l] \ {c} ELSE K[l]]
    BY DEF WithoutTable
  <2> QED
    BY <1>1, <1>2, <1>11, <2>1
<1> HIDE DEF K2
<1>13. \A l \in 0 .. 3 : K2[l] \subseteq K[l] /\ (l >= k => K2[l] = K[l])
  BY <1>2, <1>11
<1>14. AllIn(K2) = AllIn(K) \ {c}
  <2>1. \A l \in 0 .. 3 : c \in K[l] => l = k - 1
    BY <1>1, <1>2, <1>4
  <2>2. \A x : x \in AllIn(K2) <=> x \in AllIn(K) \ {c}
    BY <1>2, <1>11, <2>1, AllIff
  <2> QED
    BY <2>2
<1>15. \A j, l \in 0 .. 3 : j # l => K2[j] \cap K2[l] = {}
  BY <1>1, <1>13
<1>16. ASSUME NEW l \in 0 .. 3, NEW u \in K2[l], NEW j \in Index, Present(m2.mem[u][j])
       PROVE  u \in K[l] /\ u # c /\ ~ (u = t /\ j = i) /\ m2.mem[u][j] = m.mem[u][j]
  <2>1. u \in K[l] /\ u \in AllIn(K)
    BY <1>3, <1>13
  <2>2. ~ (u = t /\ j = i)
    BY <1>10, <1>16
  <2>3. m2.mem[u][j] = m.mem[u][j]
    BY <1>9, <2>1, <2>2 DEF TablesSame
  <2> QED
    BY <1>6, <1>16, <2>1, <2>2, <2>3
<1>17. ASSUME NEW l \in 1 .. 3, NEW x
       PROVE  x \in K2[l - 1] <=> x \in Below(m2, K2[l])
  <2>1. l - 1 \in 0 .. 3 /\ l \in 0 .. 3 /\ K[l - 1] = Below(m, K[l])
    BY <1>1
  <2>2. ASSUME x \in K2[l - 1] PROVE x \in Below(m2, K2[l])
    <3>1. x \in K[l - 1] /\ x # c
      <4>1. x \in K[l - 1]
        BY <1>13, <2>1, <2>2
      <4>2. x \in AllIn(K2)
        BY <2>1, <2>2, AllIff
      <4> QED
        BY <1>14, <4>1, <4>2
    <3>2. PICK u \in K[l], j \in Index : Leads(m.mem[u][j]) /\ x = FrameOf(m.mem[u][j])
      BY <2>1, <3>1, BelowIff
    <3>3. u # c /\ ~ (u = t /\ j = i) /\ u \in AllIn(K)
      BY <1>3, <1>6, <2>1, <3>1, <3>2 DEF Leads
    <3>4. u \in K2[l] /\ m2.mem[u][j] = m.mem[u][j]
      BY <1>9, <1>11, <2>1, <3>3 DEF TablesSame
    <3> QED
      BY <3>2, <3>4, BelowIff
  <2>3. ASSUME x \in Below(m2, K2[l]) PROVE x \in K2[l - 1]
    <3>1. PICK u \in K2[l], j \in Index : Leads(m2.mem[u][j]) /\ x = FrameOf(m2.mem[u][j])
      BY <2>3, BelowIff
    <3>2. u \in K[l] /\ ~ (u = t /\ j = i) /\ m2.mem[u][j] = m.mem[u][j]
      BY <1>16, <2>1, <3>1 DEF Leads
    <3>3. x \in K[l - 1]
      BY <2>1, <3>1, <3>2, BelowIff
    <3>4. ASSUME x = c PROVE FALSE
      <4>1. l = k
        BY <1>1, <1>2, <1>4, <2>1, <3>3, <3>4
      <4>2. LinksUnique(m, K[k])
        BY <1>1
      <4>3. u = t /\ j = i
        BY <3>1, <3>2, <3>4, <4>1, <4>2 DEF LinksUnique
      <4> QED
        BY <3>2, <4>3
    <3> QED
      BY <1>11, <2>1, <3>3, <3>4
  <2> QED
    BY <2>2, <2>3
<1>18. ASSUME NEW l \in 1 .. 3
       PROVE  LinksUnique(m2, K2[l])
  <2>1. LinksUnique(m, K[l]) /\ l \in 0 .. 3
    BY <1>1
  <2>2. \A u \in K2[l] : \A j \in Index : Leads(m2.mem[u][j]) =>
           u \in K[l] /\ m2.mem[u][j] = m.mem[u][j]
    BY <1>16, <2>1 DEF Leads
  <2> QED
    BY <2>1, <2>2 DEF LinksUnique
<1>19. TreeShape(m2, K2)
  <2>1. \A l \in 1 .. 3 : K2[l - 1] = Below(m2, K2[l])
    BY <1>17
  <2> QED
    BY <1>12, <1>15, <1>18, <2>1 DEF TreeShape
<1>20. InUse(m2) = InUse(m) \ {c} /\ Data(m2, K2) = Data(m, K)
  <2>1. InUse(m2) = InUse(m) \ {c}
    BY <1>9 DEF InUse
  <2> QED
    BY <1>4, <1>14, <2>1 DEF Data
<1>21. CountsClear(m2, K2)
  BY <1>14, <1>20 DEF TreeInv, CountsClear
<1>22. TablesOwned(m2, b, K2)
  BY <1>14, <1>20 DEF TreeInv, TablesOwned
<1>23. FirmwareKept(m2, b)
  <2>1. ASSUME NEW u \in Tables(b), NEW j \in Index, Present(b.mem[u][j])
        PROVE  m2.mem[u][j] = m.mem[u][j]
    <3>1. ~ (u = t /\ j = i)
      BY <1>7, <2>1 DEF Firm
    <3>2. u \in AllIn(K)
      BY TreeFacts
    <3> QED
      BY <1>9, <3>1, <3>2 DEF TablesSame
  <2> QED
    BY <2>1 DEF TreeInv, FirmwareKept
<1>24. \A l \in 0 .. 3 : \A u \in K2[l] : \A j \in Added(m2, b, u) :
          u \in K[l] /\ j \in Added(m, b, u) /\ m2.mem[u][j] = m.mem[u][j]
  BY <1>16 DEF Added
<1>25. LinksOwned(m2, b, K2)
  <2>1. \A l \in 1 .. 3 : l \in 0 .. 3
    OBVIOUS
  <2> QED
    BY <1>9, <1>24, <2>1 DEF TreeInv, LinksOwned
<1>26. LeavesOwned(m2, b, K2)
  BY <1>2, <1>20, <1>24 DEF TreeInv, LeavesOwned
<1>27. \A u \in AllIn(K) : u # t => Added(m2, b, u) = Added(m, b, u)
  BY <1>9 DEF TablesSame, Added
<1>28. Added(m2, b, t) = Added(m, b, t) \ {i}
  BY <1>8, <1>9, <1>10 DEF TablesSame, Added
<1>29. CountsExact(m2, b, K2)
  <2> SUFFICES ASSUME NEW u \in AllIn(K2) \ {Root}
               PROVE  ref_count(m2, u) = Base(b, u) + Cardinality(Added(m2, b, u))
    BY DEF CountsExact
  <2>0. u \in AllIn(K) \ {Root}
    BY <1>14
  <2>1. CASE u = t
    <3>1. ref_count(m2, t) = ref_count(m, t) - 1
      BY <1>9, <2>1 DEF ref_count
    <3>2. /\ ref_count(m, t) = Base(b, t) + Cardinality(Added(m, b, t))
          /\ Base(b, t) \in Nat /\ Cardinality(Added(m, b, t)) \in Nat
      BY <2>0, <2>1, CountFits, Sizes
    <3>3. Cardinality(Added(m2, b, t)) = Cardinality(Added(m, b, t)) - 1
      BY <1>7, <1>8, <1>28, TreeFacts, AddedFinite
    <3> QED
      BY <2>1, <3>1, <3>2, <3>3
  <2>2. CASE u # t
    <3>1. ref_count(m2, u) = ref_count(m, u)
      BY <1>9, <2>0, <2>2 DEF CountsSame, ref_count
    <3> QED
      BY <1>27, <2>0, <2>2, <3>1 DEF TreeInv, CountsExact
  <2> QED
    BY <2>1, <2>2
<1>30. BootFacts(m2, b) /\ Frames \ m2.bits \subseteq m2.pool
  BY <1>8, <1>9 DEF TreeInv, BootFacts
<1>31. TreeInv(m2, b, K2)
  BY <1>9, <1>19, <1>21, <1>22, <1>23, <1>25, <1>26, <1>29, <1>30 DEF TreeInv
<1>32. ASSUME NEW f, NoLeaf(m, b, K, f) PROVE NoLeaf(m2, b, K2, f)
  BY <1>2, <1>24, <1>32 DEF NoLeaf
<1> QED
  BY <1>5, <1>6, <1>9, <1>10, <1>12, <1>13, <1>14, <1>20, <1>31, <1>32 DEF m2, K2

-----------------------------------------------------------------------------
(* Walks                                                                   *)

LEMMA WindowNat == Window \subseteq Nat
<1> SUFFICES ASSUME NEW v \in Window PROVE v \in Nat
  OBVIOUS
<1>1. PICK s \in StartVaddrs, t \in StartVaddrs : v \in s .. t + MaxPages - 1
  BY DEF Window
<1>2. s \in Nat /\ t \in Nat /\ MaxPages \in Nat
  BY StartVaddrsAssumption, MaxPagesAssumption
<1> QED
  BY <1>1, <1>2

(* A page of the window has its indices.                                   *)
LEMMA PathIn == \A v \in Window : \A k \in 0 .. 3 : IndexAt(v, k) \in Index
BY WindowNat, IndexIn

(* The tables on the way, one level after the other.                       *)
LEMMA WayFacts ==
    ASSUME NEW m, NEW v
    PROVE  /\ Way(m, v)[3] = Root
           /\ \A k \in 1 .. 3 : Way(m, v)[k - 1] =
                 IF Way(m, v)[k] = NULL THEN NULL
                 ELSE NextTable(m, Way(m, v)[k], IndexAt(v, k))
           /\ Tables3(m, v).pdpt = Way(m, v)[2]
           /\ Tables3(m, v).pd = Way(m, v)[1]
           /\ Tables3(m, v).pt = Way(m, v)[0]
<1> DEFINE w == Tables3(m, v)
<1>1. Root # NULL
  BY Sizes DEF NULL
<1>2. /\ w.pdpt = NextTable(m, Root, IndexAt(v, 3))
      /\ w.pd = (IF w.pdpt = NULL THEN NULL ELSE NextTable(m, w.pdpt, IndexAt(v, 2)))
      /\ w.pt = (IF w.pd = NULL THEN NULL ELSE NextTable(m, w.pd, IndexAt(v, 1)))
  BY <1>1 DEF Tables3
<1> HIDE DEF w
<1>3. /\ Way(m, v)[3] = Root /\ Way(m, v)[2] = w.pdpt
      /\ Way(m, v)[1] = w.pd /\ Way(m, v)[0] = w.pt
  BY DEF Way, w
<1>4. \A k \in 1 .. 3 : k = 1 \/ k = 2 \/ k = 3
  OBVIOUS
<1>5. 3 - 1 = 2 /\ 2 - 1 = 1 /\ 1 - 1 = 0
  OBVIOUS
<1>6. \A k \in 1 .. 3 : Way(m, v)[k - 1] =
         IF Way(m, v)[k] = NULL THEN NULL
         ELSE NextTable(m, Way(m, v)[k], IndexAt(v, k))
  BY <1>1, <1>2, <1>3, <1>4, <1>5
<1> QED
  BY <1>3, <1>6 DEF w

(* Table t of level k, if it is the firmware's, is on its way to page v.   *)
OnWay(b, v, k, t) == t \in Tables(b) => t = Way(b, v)[k]

(* On the way to a page of the window there is no large page, and the last *)
(* entry is not the firmware's.                                            *)
LEMMA ClearAt ==
    ASSUME NEW m, NEW b, NEW K, TreeInv(m, b, K),
           NEW v \in Window, NEW k \in 0 .. 3, NEW t \in K[k], OnWay(b, v, k, t)
    PROVE  LET w == m.mem[t][IndexAt(v, k)]
           IN  /\ k = 0 => ~ Firm(b, t, IndexAt(v, k))
               /\ k # 0 /\ Present(w) =>
                     Leads(w) /\ FrameOf(w) \in K[k - 1] /\ OnWay(b, v, k - 1, FrameOf(w))
<1> DEFINE i == IndexAt(v, k)
           w == m.mem[t][i]
<1>1. i \in Index /\ t \in AllIn(K) /\ t # NULL
  BY PathIn, TreeFacts DEF TreeInv, TablesOwned
<1>2. CASE Firm(b, t, i)
  <2>1. t = Way(b, v)[k] /\ t \in Tables(b) /\ Present(b.mem[t][i]) /\ w = b.mem[t][i]
    BY <1>1, <1>2 DEF OnWay, Firm, TreeInv, FirmwareKept
  <2>2. NotMapped(b, v)
    BY FirmwareAssumption DEF FirmwareSound, TreeInv, BootFacts
  <2>3. k # 0 /\ ~ Huge(w)
    BY <1>1, <2>1, <2>2 DEF NotMapped
  <2>4. k \in 1 .. 3 /\ Leads(w)
    BY <2>1, <2>3 DEF Leads
  <2>5. Way(b, v)[k - 1] = FrameOf(w)
    BY <1>1, <2>1, <2>4, WayFacts DEF NextTable
  <2> QED
    BY <1>1, <2>3, <2>4, <2>5, ChildIn DEF OnWay
<1>3. CASE ~ Firm(b, t, i)
  <2>1. ASSUME k # 0, Present(w) PROVE Leads(w) /\ FrameOf(w) \in K[k - 1] /\ FrameOf(w) \notin Tables(b)
    <3>1. k \in 1 .. 3 /\ i \in Added(m, b, t)
      BY <1>1, <1>3, <2>1 DEF Added
    <3>2. Leads(w) /\ FrameOf(w) \in m.pool
      BY <3>1 DEF TreeInv, LinksOwned
    <3> QED
      BY <1>1, <3>1, <3>2, ChildIn, TreeFacts
  <2> QED
    BY <1>3, <2>1 DEF OnWay
<1> QED
  BY <1>2, <1>3

(* A chain leads through tables of the four levels.                        *)
LEMMA ChainIn ==
    ASSUME NEW m, NEW b, NEW K, TreeInv(m, b, K), NEW v \in Window, NEW c, Chain(m, v, c)
    PROVE  \A k \in 0 .. 3 : c[k] \in K[k] /\ c[k] \in AllIn(K) /\ c[k] # NULL
<1>1. \A k \in 1 .. 3 : c[k] \in K[k] => c[k - 1] \in K[k - 1]
  <2> TAKE k \in 1 .. 3
  <2>1. IndexAt(v, k) \in Index
    BY PathIn
  <2> QED
    BY <2>1, ChildIn DEF Chain
<1>2. c[3] \in K[3]
  BY DEF Chain, TreeInv, TreeShape
<1>3. c[2] \in K[2] /\ c[1] \in K[1] /\ c[0] \in K[0]
  <2>1. 3 - 1 = 2 /\ 2 - 1 = 1 /\ 1 - 1 = 0 /\ 1 \in 1 .. 3 /\ 2 \in 1 .. 3 /\ 3 \in 1 .. 3
    OBVIOUS
  <2> QED
    BY <1>1, <1>2, <2>1
<1>4. \A k \in 0 .. 3 : k = 0 \/ k = 1 \/ k = 2 \/ k = 3
  OBVIOUS
<1>5. \A k \in 0 .. 3 : c[k] \in K[k]
  BY <1>2, <1>3, <1>4
<1> QED
  BY <1>5, TreeFacts DEF TreeInv, TablesOwned

(* Two chains that meet in a table are the same so far.                    *)
LEMMA ChainSame ==
    ASSUME NEW m, NEW b, NEW K, TreeInv(m, b, K),
           NEW u \in Window, NEW c, Chain(m, u, c),
           NEW v \in Window, NEW d, Chain(m, v, d),
           c[0] = d[0]
    PROVE  /\ \A k \in 1 .. 3 : IndexAt(u, k) = IndexAt(v, k)
           /\ IndexAt(u, 0) = IndexAt(v, 0) => u = v
<1>1. \A k \in 1 .. 3 : c[k - 1] = d[k - 1] => c[k] = d[k] /\ IndexAt(u, k) = IndexAt(v, k)
  <2> SUFFICES ASSUME NEW k \in 1 .. 3, c[k - 1] = d[k - 1]
               PROVE  c[k] = d[k] /\ IndexAt(u, k) = IndexAt(v, k)
    OBVIOUS
  <2>1. c[k] \in K[k] /\ d[k] \in K[k] /\ IndexAt(u, k) \in Index /\ IndexAt(v, k) \in Index
    BY ChainIn, PathIn
  <2>2. /\ Leads(m.mem[c[k]][IndexAt(u, k)]) /\ Leads(m.mem[d[k]][IndexAt(v, k)])
        /\ FrameOf(m.mem[c[k]][IndexAt(u, k)]) = FrameOf(m.mem[d[k]][IndexAt(v, k)])
    BY DEF Chain
  <2>3. LinksUnique(m, K[k])
    BY DEF TreeInv, TreeShape
  <2> QED
    BY <2>1, <2>2, <2>3 DEF LinksUnique
<1>2. 3 - 1 = 2 /\ 2 - 1 = 1 /\ 1 - 1 = 0 /\ 1 \in 1 .. 3 /\ 2 \in 1 .. 3 /\ 3 \in 1 .. 3
  OBVIOUS
<1>3. /\ c[1] = d[1] /\ IndexAt(u, 1) = IndexAt(v, 1)
      /\ c[2] = d[2] /\ IndexAt(u, 2) = IndexAt(v, 2)
      /\ IndexAt(u, 3) = IndexAt(v, 3)
  BY <1>1, <1>2
<1>4. \A k \in 0 .. 3 : k = 0 \/ k = 1 \/ k = 2 \/ k = 3
  OBVIOUS
<1>5. IndexAt(u, 0) = IndexAt(v, 0) => SamePath(u, v)
  BY <1>3, <1>4 DEF SamePath
<1>6. \A k \in 1 .. 3 : k = 1 \/ k = 2 \/ k = 3
  OBVIOUS
<1> QED
  BY <1>3, <1>5, <1>6, WindowAssumption

(* What the processor and the kernel make of a chain.                      *)
LEMMA MapsWalk ==
    ASSUME NEW m, NEW b, NEW K, TreeInv(m, b, K), NEW v \in Window, NEW f, Maps(m, v, f)
    PROVE  /\ Translate(m, v) = f /\ paging_get_physical(m, v) = f
           /\ f \in Data(m, K) /\ ~ NoLeaf(m, b, K, f)
           /\ Way(m, v)[0] # NULL
<1>1. PICK c : /\ Chain(m, v, c)
               /\ Present(m.mem[c[0]][IndexAt(v, 0)])
               /\ f = FrameOf(m.mem[c[0]][IndexAt(v, 0)])
  BY DEF Maps
<1>2. \A k \in 0 .. 3 : c[k] \in K[k] /\ c[k] \in AllIn(K) /\ c[k] # NULL
  BY <1>1, ChainIn
<1>3. /\ c[3] = Root
      /\ Leads(m.mem[c[3]][IndexAt(v, 3)]) /\ c[2] = FrameOf(m.mem[c[3]][IndexAt(v, 3)])
      /\ Leads(m.mem[c[2]][IndexAt(v, 2)]) /\ c[1] = FrameOf(m.mem[c[2]][IndexAt(v, 2)])
      /\ Leads(m.mem[c[1]][IndexAt(v, 1)]) /\ c[0] = FrameOf(m.mem[c[1]][IndexAt(v, 1)])
  <2>1. 3 - 1 = 2 /\ 2 - 1 = 1 /\ 1 - 1 = 0 /\ 1 \in 1 .. 3 /\ 2 \in 1 .. 3 /\ 3 \in 1 .. 3
    OBVIOUS
  <2> QED
    BY <1>1, <2>1 DEF Chain
<1>4. Translate(m, v) = f
  BY <1>1, <1>3 DEF Translate, Leads
<1>down. 3 - 1 = 2 /\ 2 - 1 = 1 /\ 1 - 1 = 0 /\ 1 \in 1 .. 3 /\ 2 \in 1 .. 3 /\ 3 \in 1 .. 3
  OBVIOUS
<1>5. /\ Way(m, v)[3] = c[3] /\ Way(m, v)[2] = c[2]
      /\ Way(m, v)[1] = c[1] /\ Way(m, v)[0] = c[0]
  <2>1. \A k \in 1 .. 3 : Way(m, v)[k] = c[k] => Way(m, v)[k - 1] = c[k - 1]
    <3> SUFFICES ASSUME NEW k \in 1 .. 3, Way(m, v)[k] = c[k] PROVE Way(m, v)[k - 1] = c[k - 1]
      OBVIOUS
    <3>1. Way(m, v)[k - 1] = NextTable(m, c[k], IndexAt(v, k))
      BY <1>2, WayFacts
    <3> QED
      BY <1>1, <3>1 DEF NextTable, Leads, Chain
  <2>2. Way(m, v)[3] = c[3]
    BY <1>3, WayFacts
  <2> QED
    BY <1>down, <2>1, <2>2
<1>6. c[0] # NULL /\ c[0] \in K[0] /\ c[0] \in AllIn(K)
  BY <1>2
<1>7. paging_get_physical(m, v) = f
  BY <1>1, <1>5, <1>6, WayFacts DEF paging_get_physical, NextTable
<1>8. IndexAt(v, 0) \in Added(m, b, c[0])
  <2>1. OnWay(b, v, 3, c[3])
    BY <1>3, WayFacts DEF OnWay
  <2>2. \A k \in 1 .. 3 : OnWay(b, v, k, c[k]) => OnWay(b, v, k - 1, c[k - 1])
    <3> SUFFICES ASSUME NEW k \in 1 .. 3, OnWay(b, v, k, c[k]) PROVE OnWay(b, v, k - 1, c[k - 1])
      OBVIOUS
    <3>1. /\ k \in 0 .. 3 /\ k # 0 /\ Present(m.mem[c[k]][IndexAt(v, k)])
          /\ c[k - 1] = FrameOf(m.mem[c[k]][IndexAt(v, k)])
      BY <1>1 DEF Chain, Leads
    <3> QED
      BY <1>2, <3>1, ClearAt
  <2>5. OnWay(b, v, 0, c[0])
    BY <1>down, <2>1, <2>2
  <2>6. ~ Firm(b, c[0], IndexAt(v, 0))
    BY <1>2, <2>5, ClearAt
  <2> QED
    BY <1>1, <2>6, PathIn DEF Added
<1>9. f \in Data(m, K)
  BY <1>1, <1>6, <1>8 DEF TreeInv, LeavesOwned
<1>10. ~ NoLeaf(m, b, K, f)
  BY <1>1, <1>6, <1>8 DEF NoLeaf
<1> QED
  BY <1>4, <1>5, <1>6, <1>7, <1>9, <1>10

(* Mappings stay when entries do.                                          *)
LEMMA ChainKept ==
    ASSUME NEW m, NEW b, NEW K, TreeInv(m, b, K), NEW v \in Window, NEW c, Chain(m, v, c),
           NEW m2, \A k \in 0 .. 3 : m2.mem[c[k]][IndexAt(v, k)] = m.mem[c[k]][IndexAt(v, k)],
           NEW f, Present(m.mem[c[0]][IndexAt(v, 0)]), f = FrameOf(m.mem[c[0]][IndexAt(v, 0)])
    PROVE  Maps(m2, v, f)
<1>1. Chain(m2, v, c)
  BY DEF Chain
<1> QED
  BY <1>1 DEF Maps

(* Present entries stay.                                                   *)
Grown(m, m2, K) ==
    \A u \in AllIn(K) : \A j \in Index : Present(m.mem[u][j]) => m2.mem[u][j] = m.mem[u][j]

LEMMA MapsGrown ==
    ASSUME NEW m, NEW b, NEW K, TreeInv(m, b, K), NEW m2, Grown(m, m2, K),
           NEW v \in Window, NEW f, Maps(m, v, f)
    PROVE  Maps(m2, v, f)
<1>1. PICK c : /\ Chain(m, v, c)
               /\ Present(m.mem[c[0]][IndexAt(v, 0)])
               /\ f = FrameOf(m.mem[c[0]][IndexAt(v, 0)])
  BY DEF Maps
<1>2. \A k \in 0 .. 3 : c[k] \in AllIn(K) /\ IndexAt(v, k) \in Index
  BY <1>1, ChainIn, PathIn
<1>3. \A k \in 0 .. 3 : Present(m.mem[c[k]][IndexAt(v, k)])
  <2>1. \A k \in 0 .. 3 : k = 0 \/ k \in 1 .. 3
    OBVIOUS
  <2> QED
    BY <1>1, <2>1 DEF Chain, Leads
<1>4. \A k \in 0 .. 3 : m2.mem[c[k]][IndexAt(v, k)] = m.mem[c[k]][IndexAt(v, k)]
  BY <1>2, <1>3 DEF Grown
<1> QED
  BY <1>1, <1>4, ChainKept

(* The last entry on the way to page v is written: other pages stay.       *)
LEMMA MapsBeside ==
    ASSUME NEW m, NEW b, NEW K, TreeInv(m, b, K), NEW m2,
           NEW v \in Window, NEW d, Chain(m, v, d), TablesSame(m, m2, K, d[0], IndexAt(v, 0)),
           NEW u \in Window, u # v, NEW f, Maps(m, u, f)
    PROVE  Maps(m2, u, f)
<1>1. PICK c : /\ Chain(m, u, c)
               /\ Present(m.mem[c[0]][IndexAt(u, 0)])
               /\ f = FrameOf(m.mem[c[0]][IndexAt(u, 0)])
  BY DEF Maps
<1>2. \A k \in 0 .. 3 : c[k] \in K[k] /\ c[k] \in AllIn(K) /\ IndexAt(u, k) \in Index
  BY <1>1, ChainIn, PathIn
<1>3. d[0] \in K[0]
  BY ChainIn
<1>4. \A k \in 0 .. 3 : ~ (c[k] = d[0] /\ IndexAt(u, k) = IndexAt(v, 0))
  <2> SUFFICES ASSUME NEW k \in 0 .. 3, c[k] = d[0], IndexAt(u, k) = IndexAt(v, 0) PROVE FALSE
    OBVIOUS
  <2>1. \A j, l \in 0 .. 3 : j # l => K[j] \cap K[l] = {}
    BY DEF TreeInv, TreeShape
  <2>2. k = 0
    BY <1>2, <1>3, <2>1
  <2> QED
    BY <1>1, <2>2, ChainSame
<1>5. \A k \in 0 .. 3 : m2.mem[c[k]][IndexAt(u, k)] = m.mem[c[k]][IndexAt(u, k)]
  BY <1>2, <1>4 DEF TablesSame
<1> QED
  BY <1>1, <1>5, ChainKept

(* The entry that leads to a table with no entries is written: all stay.   *)
LEMMA MapsAbove ==
    ASSUME NEW m, NEW b, NEW K, TreeInv(m, b, K), NEW m2,
           NEW k \in 1 .. 3, NEW t \in K[k], NEW i \in Index,
           \A j \in Index : ~ Present(m.mem[FrameOf(m.mem[t][i])][j]),
           TablesSame(m, m2, K, t, i),
           NEW u \in Window, NEW f, Maps(m, u, f)
    PROVE  Maps(m2, u, f)
<1>1. PICK c : /\ Chain(m, u, c)
               /\ Present(m.mem[c[0]][IndexAt(u, 0)])
               /\ f = FrameOf(m.mem[c[0]][IndexAt(u, 0)])
  BY DEF Maps
<1>2. \A l \in 0 .. 3 : c[l] \in K[l] /\ c[l] \in AllIn(K) /\ IndexAt(u, l) \in Index
  BY <1>1, ChainIn, PathIn
<1>3. \A l \in 0 .. 3 : Present(m.mem[c[l]][IndexAt(u, l)])
  <2>1. \A l \in 0 .. 3 : l = 0 \/ l \in 1 .. 3
    OBVIOUS
  <2> QED
    BY <1>1, <2>1 DEF Chain, Leads
<1>4. \A l \in 0 .. 3 : ~ (c[l] = t /\ IndexAt(u, l) = i)
  <2> SUFFICES ASSUME NEW l \in 0 .. 3, c[l] = t, IndexAt(u, l) = i PROVE FALSE
    OBVIOUS
  <2>1. \A j, n \in 0 .. 3 : j # n => K[j] \cap K[n] = {}
    BY DEF TreeInv, TreeShape
  <2>2. l = k
    BY <1>2, <2>1
  <2>3. c[k - 1] = FrameOf(m.mem[t][i]) /\ k - 1 \in 0 .. 3
    BY <1>1, <2>2 DEF Chain
  <2> QED
    BY <1>2, <1>3, <2>3
<1>5. \A l \in 0 .. 3 : m2.mem[c[l]][IndexAt(u, l)] = m.mem[c[l]][IndexAt(u, l)]
  BY <1>2, <1>4 DEF TablesSame
<1> QED
  BY <1>1, <1>5, ChainKept

-----------------------------------------------------------------------------
(* What the operators of paging.c keep, whatever the tables are            *)

(* A machine after another: flags stay set.                                *)
Later(m, m2) ==
    /\ m2 \in Machine /\ m2.pool = m.pool
    /\ m.starved => m2.starved
    /\ m.wild => m2.wild
    /\ m.shared => m2.shared

LEMMA TakeFacts ==
    ASSUME NEW m \in Machine, NEW a, a = AllocFrame(m.bits, NFrames), NEW s \in BOOLEAN
    PROVE  /\ Take(m, a, s) \in Machine /\ Take(m, a, s).mem = m.mem
           /\ Take(m, a, s).bits = a.bits /\ Take(m, a, s).pool = m.pool
           /\ Take(m, a, s).starved = m.starved /\ Take(m, a, s).wild = m.wild
           /\ Take(m, a, s).shared = (m.shared \/ s)
           /\ a.frame \in Frames
           /\ \/ a.frame = NULL /\ a.bits = m.bits
              \/ a.frame \in Frames \ m.bits /\ a.bits = m.bits \cup {a.frame}
<1>1. m.bits \in SUBSET Frames /\ m.shared \in BOOLEAN
  BY DEF Machine
<1>2. \/ a.frame = NULL /\ a.bits = m.bits
      \/ a.frame \in Frames \ m.bits /\ a.bits = m.bits \cup {a.frame}
  BY <1>1, AllocFrameFacts
<1>3. a.frame \in Frames /\ a.bits \in SUBSET Frames
  <2>1. NULL \in Frames
    BY Sizes DEF NULL, Frames
  <2> QED
    BY <1>1, <1>2, <2>1
<1> DEFINE mb == [m EXCEPT !.bits = a.bits]
           v  == m.shared \/ s
<1>4. /\ mb \in Machine /\ mb.mem = m.mem /\ mb.bits = a.bits /\ mb.pool = m.pool
      /\ mb.starved = m.starved /\ mb.wild = m.wild /\ mb.shared = m.shared
  BY <1>3 DEF Machine
<1>5. Take(m, a, s) = [mb EXCEPT !.shared = v] /\ v \in BOOLEAN
  BY <1>4 DEF Take
<1> HIDE DEF mb, v
<1>6. /\ [mb EXCEPT !.shared = v] \in Machine /\ [mb EXCEPT !.shared = v].mem = mb.mem
      /\ [mb EXCEPT !.shared = v].bits = mb.bits /\ [mb EXCEPT !.shared = v].pool = mb.pool
      /\ [mb EXCEPT !.shared = v].starved = mb.starved /\ [mb EXCEPT !.shared = v].wild = mb.wild
      /\ [mb EXCEPT !.shared = v].shared = v
  BY <1>4, <1>5 DEF Machine
<1> QED
  BY <1>2, <1>3, <1>4, <1>5, <1>6 DEF v

LEMMA AddTableTyped ==
    ASSUME NEW m \in Machine, NEW t \in Frames, NEW i \in Index, NEW f \in Frames
    PROVE  AddTable(m, t, i, f) \in Machine /\ Rest(AddTable(m, t, i, f)) = Rest(m)
<1> DEFINE m0 == memset0(m, f)
           m1 == SetWord(m0, t, i, EntryFor(f))
           m3 == SetRef(m1, f, 0)
           n  == ref_count(m3, t) + 1
<1>1. AddTable(m, t, i, f) = SetRef(m3, t, n)
  BY DEF AddTable
<1>2. t \in 0 .. NFrames /\ t + 1 \in 0 .. NFrames /\ 0 \in Index
  BY Sizes DEF Frames
<1>3. m0 \in Machine /\ Rest(m0) = Rest(m)
  BY memset0Facts
<1> HIDE DEF m0
<1>4. m1 \in Machine /\ Rest(m1) = Rest(m)
  BY <1>2, <1>3, EntryWord, SetWordFacts
<1> HIDE DEF m1
<1>5. 0 \in -1 .. WordCount
  BY Sizes
<1>6. m3 \in Machine /\ Rest(m3) = Rest(m)
  BY <1>4, <1>5, SetRefFacts
<1> HIDE DEF m3
<1>7. ref_count(m3, t) \in Word
  BY <1>2, <1>6, MemoryFacts DEF ref_count
<1>8. n \in -1 .. WordCount
  BY <1>7, Sizes DEF Word
<1> HIDE DEF n
<1> QED
  BY <1>1, <1>6, <1>8, SetRefFacts

LEMMA NextTableTyped ==
    ASSUME NEW m \in Machine, NEW t \in Frames, NEW i \in Index
    PROVE  NextTable(m, t, i) \in Frames
<1>1. t \in 0 .. NFrames /\ NULL \in Frames
  BY Sizes DEF Frames, NULL
<1>2. FrameOf(m.mem[t][i]) \in Frames
  BY <1>1, MemoryFacts, FrameOfWord
<1> QED
  BY <1>1, <1>2 DEF NextTable

(* The four ways get_next_table may end.                                   *)
LEMMA NextCases ==
    ASSUME NEW m \in Machine, NEW t \in Frames, NEW i \in Index
    PROVE  LET a  == AllocFrame(m.bits, NFrames)
               s  == HoldsCount(m, a.frame) \/ CountInUse(m, a.frame)
               m0 == Take(m, a, s)
               m1 == AddTable(m0, t, i, a.frame)
               r  == get_next_table(m, t, i)
           IN  \/ /\ Present(m.mem[t][i])
                  /\ r.m = Touch(m, t) /\ r.table = NextTable(m, t, i)
               \/ /\ ~ Present(m.mem[t][i]) /\ a.frame = NULL
                  /\ r.table = NULL /\ r.m \in Machine
                  /\ r.m.mem = m.mem /\ r.m.bits = m.bits /\ r.m.pool = m.pool
                  /\ r.m.starved /\ r.m.wild = (m.wild \/ t = NULL) /\ r.m.shared = m.shared
               \/ /\ ~ Present(m.mem[t][i]) /\ a.frame # NULL
                  /\ r.m = Touch(m1, t) /\ r.table = NextTable(m1, t, i)
<1> DEFINE a  == AllocFrame(m.bits, NFrames)
           s  == HoldsCount(m, a.frame) \/ CountInUse(m, a.frame)
           m0 == Take(m, a, s)
           m1 == AddTable(m0, t, i, a.frame)
           mt == Touch(m, t)
<1>1. get_next_table(m, t, i) =
         IF Present(m.mem[t][i])
         THEN [m |-> mt, table |-> NextTable(m, t, i)]
         ELSE IF a.frame = NULL
         THEN [m |-> [mt EXCEPT !.starved = TRUE], table |-> NULL]
         ELSE [m |-> Touch(m1, t), table |-> NextTable(m1, t, i)]
  BY DEF get_next_table
<1>2. /\ mt \in Machine /\ mt.mem = m.mem /\ mt.bits = m.bits /\ mt.pool = m.pool
      /\ mt.wild = (m.wild \/ t = NULL) /\ mt.shared = m.shared
  BY TouchFacts
<1> HIDE DEF m1
<1>3. CASE Present(m.mem[t][i])
  BY <1>1, <1>3
<1> HIDE DEF mt
<1>4. CASE ~ Present(m.mem[t][i]) /\ a.frame # NULL
  BY <1>1, <1>4 DEF m1
<1>5. CASE ~ Present(m.mem[t][i]) /\ a.frame = NULL
  <2> DEFINE ms == [mt EXCEPT !.starved = TRUE]
  <2>1. /\ ms \in Machine /\ ms.mem = mt.mem /\ ms.bits = mt.bits /\ ms.pool = mt.pool
        /\ ms.starved = TRUE /\ ms.wild = mt.wild /\ ms.shared = mt.shared
    BY <1>2 DEF Machine
  <2> HIDE DEF ms
  <2>2. get_next_table(m, t, i) = [m |-> ms, table |-> NULL]
    BY <1>1, <1>5 DEF ms
  <2> QED
    BY <1>2, <1>5, <2>1, <2>2
<1> QED
  BY <1>3, <1>4, <1>5

LEMMA NextTyped ==
    ASSUME NEW m \in Machine, NEW t \in Frames, NEW i \in Index
    PROVE  LET r == get_next_table(m, t, i)
           IN  r.table \in Frames /\ Later(m, r.m) /\ (t = NULL => r.m.wild)
<1> DEFINE a  == AllocFrame(m.bits, NFrames)
           s  == HoldsCount(m, a.frame) \/ CountInUse(m, a.frame)
           m0 == Take(m, a, s)
           m1 == AddTable(m0, t, i, a.frame)
           r  == get_next_table(m, t, i)
<1>1. s \in BOOLEAN
  OBVIOUS
<1>2. /\ m0 \in Machine /\ m0.pool = m.pool /\ a.frame \in Frames
      /\ m0.starved = m.starved /\ m0.wild = m.wild /\ m0.shared = (m.shared \/ s)
  <2> HIDE DEF a, s
  <2> QED
    BY <1>1, TakeFacts DEF a
<1> DEFINE fr == a.frame
<1>3. m1 \in Machine /\ Rest(m1) = Rest(m0)
  <2>1. m1 = AddTable(m0, t, i, fr) /\ fr \in Frames
    BY <1>2
  <2> HIDE DEF m0, m1, fr
  <2> QED
    BY <1>2, <2>1, AddTableTyped
<1>4. NULL \in Frames
  BY Sizes DEF NULL, Frames
<1>5. \/ /\ r.m = Touch(m, t) /\ r.table = NextTable(m, t, i)
      \/ /\ r.table = NULL /\ r.m \in Machine /\ r.m.pool = m.pool
         /\ r.m.starved /\ r.m.wild = (m.wild \/ t = NULL) /\ r.m.shared = m.shared
      \/ /\ r.m = Touch(m1, t) /\ r.table = NextTable(m1, t, i)
  BY NextCases
<1> HIDE DEF r, m1, m0, fr, a, s
<1>6. CASE r.m = Touch(m, t) /\ r.table = NextTable(m, t, i)
  <2>1. /\ r.m \in Machine /\ r.m.pool = m.pool /\ r.m.starved = m.starved
        /\ r.m.shared = m.shared /\ r.m.wild = (m.wild \/ t = NULL)
    BY <1>6, TouchFacts
  <2>2. r.table \in Frames
    BY <1>6, NextTableTyped
  <2> QED
    BY <2>1, <2>2 DEF Later, r
<1>7. CASE /\ r.table = NULL /\ r.m \in Machine /\ r.m.pool = m.pool
           /\ r.m.starved /\ r.m.wild = (m.wild \/ t = NULL) /\ r.m.shared = m.shared
  BY <1>4, <1>7 DEF Later, r
<1>8. CASE r.m = Touch(m1, t) /\ r.table = NextTable(m1, t, i)
  <2>1. /\ r.m \in Machine /\ r.m.pool = m1.pool /\ r.m.starved = m1.starved
        /\ r.m.shared = m1.shared /\ r.m.wild = (m1.wild \/ t = NULL)
    BY <1>3, <1>8, TouchFacts
  <2>2. r.table \in Frames
    BY <1>3, <1>8, NextTableTyped
  <2>3. /\ m1.pool = m.pool /\ m1.starved = m.starved
        /\ m1.shared = (m.shared \/ s) /\ m1.wild = m.wild
    BY <1>2, <1>3 DEF Rest
  <2> QED
    BY <2>1, <2>2, <2>3 DEF Later, r
<1> QED
  BY <1>5, <1>6, <1>7, <1>8

LEMMA MapEntryTyped ==
    ASSUME NEW r, r.m \in Machine, r.table \in Frames, NEW i \in Index, NEW p \in Frames
    PROVE  MapEntry(r, i, p) \in Machine /\ Rest(MapEntry(r, i, p)) = Rest(r.m)
<1> DEFINE m == r.m
           t == r.table
           n == ref_count(m, t) + 1
           m1 == IF Present(m.mem[t][i]) THEN m ELSE SetRef(m, t, n)
<1>1. MapEntry(r, i, p) = IF t = NULL THEN m ELSE SetWord(m1, t, i, EntryFor(p))
  BY DEF MapEntry
<1>2. t \in 0 .. NFrames /\ t + 1 \in 0 .. NFrames /\ 0 \in Index
  BY Sizes DEF Frames
<1>3. ref_count(m, t) \in Word
  BY <1>2, MemoryFacts DEF ref_count
<1>4. n \in -1 .. WordCount
  BY <1>3, Sizes DEF Word
<1> HIDE DEF n
<1>5. m1 \in Machine /\ Rest(m1) = Rest(m)
  BY <1>4, SetRefFacts
<1> HIDE DEF m1
<1>6. EntryFor(p) \in Word
  BY EntryWord
<1> QED
  BY <1>1, <1>2, <1>5, <1>6, SetWordFacts

(* paging_map, unfolded.                                                   *)
LEMMA MapSteps ==
    ASSUME NEW m, NEW v, NEW p
    PROVE  LET r1 == get_next_table(m, Root, IndexAt(v, 3))
               r2 == get_next_table(r1.m, r1.table, IndexAt(v, 2))
               r3 == get_next_table(r2.m, r2.table, IndexAt(v, 1))
           IN  paging_map(m, v, p) = MapEntry(r3, IndexAt(v, 0), p)
<1> DEFINE q0 == [m |-> m, table |-> Root]
           r1 == get_next_table(m, Root, IndexAt(v, 3))
           r2 == get_next_table(r1.m, r1.table, IndexAt(v, 2))
           r3 == get_next_table(r2.m, r2.table, IndexAt(v, 1))
<1>1. q0.m = m /\ q0.table = Root
  OBVIOUS
<1>2. r1 = get_next_table(q0.m, q0.table, IndexAt(v, 3))
  BY <1>1
<1>3. paging_map(m, v, p) =
         MapEntry(get_next_table(
            get_next_table(get_next_table(q0.m, q0.table, IndexAt(v, 3)).m,
                           get_next_table(q0.m, q0.table, IndexAt(v, 3)).table, IndexAt(v, 2)).m,
            get_next_table(get_next_table(q0.m, q0.table, IndexAt(v, 3)).m,
                           get_next_table(q0.m, q0.table, IndexAt(v, 3)).table, IndexAt(v, 2)).table,
            IndexAt(v, 1)), IndexAt(v, 0), p)
  BY DEF paging_map
<1> QED
  BY <1>2, <1>3, Zenon

LEMMA MapTyped ==
    ASSUME NEW m \in Machine, NEW v \in Nat, NEW p \in Frames
    PROVE  Later(m, paging_map(m, v, p))
<1> DEFINE r1 == get_next_table(m, Root, IndexAt(v, 3))
           r2 == get_next_table(r1.m, r1.table, IndexAt(v, 2))
           r3 == get_next_table(r2.m, r2.table, IndexAt(v, 1))
<1>1. paging_map(m, v, p) = MapEntry(r3, IndexAt(v, 0), p)
  BY MapSteps
<1>2. /\ IndexAt(v, 3) \in Index /\ IndexAt(v, 2) \in Index
      /\ IndexAt(v, 1) \in Index /\ IndexAt(v, 0) \in Index /\ Root \in Frames
  BY IndexIn, Sizes
<1>3. r1.table \in Frames /\ Later(m, r1.m)
  BY <1>2, NextTyped
<1> HIDE DEF r1
<1>4. r2.table \in Frames /\ Later(r1.m, r2.m)
  BY <1>2, <1>3, NextTyped DEF Later
<1> HIDE DEF r2
<1>5. r3.table \in Frames /\ Later(r2.m, r3.m)
  BY <1>2, <1>4, NextTyped DEF Later
<1> HIDE DEF r3
<1>6. MapEntry(r3, IndexAt(v, 0), p) \in Machine /\ Rest(MapEntry(r3, IndexAt(v, 0), p)) = Rest(r3.m)
  BY <1>2, <1>5, MapEntryTyped DEF Later
<1> QED
  BY <1>1, <1>3, <1>4, <1>5, <1>6 DEF Later, Rest

-----------------------------------------------------------------------------
(* Mapping a page                                                          *)

(* The family K is what the processor finds.                               *)
LEMMA TablesAre ==
    ASSUME NEW m, NEW K, TreeShape(m, K)
    PROVE  ReachableTables(m) = K[0] \cup K[1] \cup K[2] /\ Tables(m) = AllIn(K)
<1>1. K[2] = Below(m, {Root}) /\ K[1] = Below(m, K[2]) /\ K[0] = Below(m, K[1])
  <2>1. 3 - 1 = 2 /\ 2 - 1 = 1 /\ 1 - 1 = 0 /\ 1 \in 1 .. 3 /\ 2 \in 1 .. 3 /\ 3 \in 1 .. 3
    OBVIOUS
  <2> QED
    BY <2>1 DEF TreeShape
<1>2. Levels(m)[2] = K[2] /\ Levels(m)[1] = K[1] /\ Levels(m)[0] = K[0]
  BY <1>1 DEF Levels
<1>3. ReachableTables(m) = K[0] \cup K[1] \cup K[2]
  BY <1>2 DEF ReachableTables
<1> QED
  BY <1>3 DEF Tables, AllIn, TreeShape

(* Flags of the machine do not matter to the invariant.                    *)
LEMMA TreeSame ==
    ASSUME NEW m, NEW b, NEW K, TreeInv(m, b, K),
           NEW m2 \in Machine, m2.mem = m.mem, m2.bits = m.bits, m2.pool = m.pool
    PROVE  /\ TreeInv(m2, b, K) /\ Data(m2, K) = Data(m, K) /\ Grown(m, m2, K)
           /\ \A f : NoLeaf(m, b, K, f) => NoLeaf(m2, b, K, f)
<1>1. InUse(m2) = InUse(m) /\ Data(m2, K) = Data(m, K)
  BY DEF InUse, Data
<1>2. \A f : NoLeaf(m, b, K, f) => NoLeaf(m2, b, K, f)
  BY SameMemory DEF NoLeaf
<1>3. TreeShape(m2, K)
  BY SameMemory DEF TreeInv, TreeShape
<1>4. CountsClear(m2, K) /\ TablesOwned(m2, b, K)
  BY <1>1 DEF TreeInv, CountsClear, TablesOwned
<1>5. FirmwareKept(m2, b) /\ LinksOwned(m2, b, K) /\ CountsExact(m2, b, K)
  BY SameMemory DEF TreeInv, FirmwareKept, LinksOwned, CountsExact
<1>6. LeavesOwned(m2, b, K)
  BY <1>1, SameMemory DEF TreeInv, LeavesOwned
<1>7. BootFacts(m2, b) /\ Frames \ m2.bits \subseteq m2.pool
  BY DEF TreeInv, BootFacts
<1> QED
  BY <1>1, <1>2, <1>3, <1>4, <1>5, <1>6, <1>7 DEF TreeInv, Grown

(* All tables of the kernel's but perhaps t have an entry.                 *)
NoneEmptyBut(m, b, K, t) == \A u \in AllIn(K) \ {t} : u \in Tables(b) \/ Added(m, b, u) # {}

(* From (m, K) to (m2, K2) tables may have been added.                     *)
Extended(m, m2, b, K, K2, f) ==
    /\ TreeInv(m2, b, K2) /\ Data(m2, K2) = Data(m, K) /\ NoLeaf(m2, b, K2, f)
    /\ Grown(m, m2, K)
    /\ \A l \in 0 .. 3 : K[l] \subseteq K2[l]

(* get_next_table on the way to a page of the window: no frame is left, or *)
(* the next table is there.                                                *)
LEMMA NextStep ==
    ASSUME NEW m, NEW b, NEW K, TreeInv(m, b, K),
           NEW v \in Window, NEW k \in 1 .. 3, NEW t \in K[k], OnWay(b, v, k, t),
           NEW f \in Data(m, K), NoLeaf(m, b, K, f),
           NEW r, r = get_next_table(m, t, IndexAt(v, k)), ~ r.m.shared
    PROVE  \/ /\ r.table = NULL /\ r.m.starved
              /\ TreeInv(r.m, b, K) /\ Data(r.m, K) = Data(m, K) /\ Grown(m, r.m, K)
           \/ \E K2 : /\ Extended(m, r.m, b, K, K2, f)
                      /\ r.table \in K2[k - 1] /\ OnWay(b, v, k - 1, r.table)
                      /\ Leads(r.m.mem[t][IndexAt(v, k)])
                      /\ FrameOf(r.m.mem[t][IndexAt(v, k)]) = r.table
                      /\ NoneEmptyBut(m, b, K, t) => NoneEmptyBut(r.m, b, K2, r.table)
<1> DEFINE i  == IndexAt(v, k)
           a  == AllocFrame(m.bits, NFrames)
           s  == HoldsCount(m, a.frame) \/ CountInUse(m, a.frame)
           m0 == Take(m, a, s)
           m1 == AddTable(m0, t, i, a.frame)
<1>1. m \in Machine /\ i \in Index /\ t \in AllIn(K) /\ t \in Frames /\ t # NULL
      /\ k \in 0 .. 3 /\ k # 0
  BY PathIn, TreeFacts DEF TreeInv, TablesOwned
<1>2. \/ /\ Present(m.mem[t][i])
         /\ r.m = Touch(m, t) /\ r.table = NextTable(m, t, i)
      \/ /\ r.table = NULL /\ r.m \in Machine
         /\ r.m.mem = m.mem /\ r.m.bits = m.bits /\ r.m.pool = m.pool
         /\ r.m.starved
      \/ /\ ~ Present(m.mem[t][i]) /\ a.frame # NULL
         /\ r.m = Touch(m1, t) /\ r.table = NextTable(m1, t, i)
  BY <1>1, NextCases
<1>3. CASE Present(m.mem[t][i]) /\ r.m = Touch(m, t) /\ r.table = NextTable(m, t, i)
  <2>1. /\ r.m \in Machine /\ r.m.mem = m.mem /\ r.m.bits = m.bits /\ r.m.pool = m.pool
    BY <1>1, <1>3, TouchFacts
  <2>2. /\ TreeInv(r.m, b, K) /\ Data(r.m, K) = Data(m, K) /\ Grown(m, r.m, K)
        /\ NoLeaf(r.m, b, K, f)
    BY <2>1, TreeSame
  <2>3. Extended(m, r.m, b, K, K, f)
    BY <2>2 DEF Extended
  <2>4. /\ Leads(r.m.mem[t][i]) /\ FrameOf(r.m.mem[t][i]) = r.table
        /\ r.table \in K[k - 1] /\ OnWay(b, v, k - 1, r.table)
    BY <1>1, <1>3, <2>1, ClearAt DEF NextTable
  <2>5. NoneEmptyBut(m, b, K, t) => NoneEmptyBut(r.m, b, K, r.table)
    <3>1. t \in Tables(b) \/ i \in Added(m, b, t)
      BY <1>1, <1>3 DEF Added, Firm
    <3>2. \A u : Added(r.m, b, u) = Added(m, b, u)
      BY <2>1, SameMemory
    <3> QED
      BY <3>1, <3>2 DEF NoneEmptyBut
  <2> QED
    BY <2>3, <2>4, <2>5
<1>4. CASE /\ r.table = NULL /\ r.m \in Machine
           /\ r.m.mem = m.mem /\ r.m.bits = m.bits /\ r.m.pool = m.pool
           /\ r.m.starved
  BY <1>4, TreeSame
<1>5. CASE /\ ~ Present(m.mem[t][i]) /\ a.frame # NULL
           /\ r.m = Touch(m1, t) /\ r.table = NextTable(m1, t, i)
  <2> DEFINE g  == a.frame
             K2 == WithTable(K, k - 1, g)
  <2>1. /\ m0 \in Machine /\ m0.mem = m.mem /\ m0.pool = m.pool
        /\ m0.bits = m.bits \cup {g} /\ g \in Frames \ m.bits
        /\ m0.shared = (m.shared \/ s)
    <3> s \in BOOLEAN
      OBVIOUS
    <3> HIDE DEF s, a
    <3> QED
      BY <1>1, <1>5, TakeFacts DEF a
  <2>2. m1 \in Machine /\ Rest(m1) = Rest(m0)
    <3>1. m1 = AddTable(m0, t, i, g)
      OBVIOUS
    <3> HIDE DEF m1, m0, g
    <3> QED
      BY <1>1, <2>1, <3>1, AddTableTyped
  <2>3. /\ r.m \in Machine /\ r.m.mem = m1.mem /\ r.m.bits = m1.bits /\ r.m.pool = m1.pool
        /\ r.m.shared = m1.shared
    <3> HIDE DEF m1
    <3> QED
      BY <1>5, <2>2, TouchFacts
  <2>4. ~ HoldsCount(m, g) /\ ~ CountInUse(m, g)
    <3>1. ~ m0.shared
      BY <2>2, <2>3 DEF Rest
    <3> QED
      BY <2>1, <3>1
  <2>5. Tables(m) = AllIn(K)
    BY TablesAre DEF TreeInv
  <2>6. /\ \A u \in AllIn(K) : u + 1 # g
        /\ g + 1 \notin AllIn(K) \cup InUse(m)
    BY <2>4, <2>5 DEF HoldsCount, CountInUse
  <2> HIDE DEF m0, g, a
  <2>7. /\ TreeInv(m0, b, K)
        /\ g \notin Data(m, K) /\ Data(m0, K) = Data(m, K) \cup {g}
        /\ NoLeaf(m0, b, K, g)
    BY <2>1, <2>6, TakeTree
  <2>8. ~ Present(m0.mem[t][i]) /\ NoLeaf(m0, b, K, f)
    BY <1>5, <2>1, SameMemory DEF NoLeaf
  <2>9. g + 1 \notin AllIn(K) \cup InUse(m0)
    <3>1. g + 1 # g
      BY <2>1, Sizes DEF Frames
    <3> QED
      BY <2>1, <2>6, <3>1 DEF InUse
  <2>10. m1 = AddTable(m0, t, i, g)
    BY DEF g
  <2> HIDE DEF m1, K2
  <2>11. /\ TreeInv(m1, b, K2) /\ Data(m1, K2) = Data(m0, K) \ {g}
         /\ TablesSame(m0, m1, K, t, i) /\ m1.mem[t][i] = EntryFor(g)
         /\ AllIn(K2) = AllIn(K) \cup {g} /\ K2[k - 1] = K[k - 1] \cup {g}
         /\ \A l \in 0 .. 3 : K[l] \subseteq K2[l]
         /\ i \in Added(m1, b, t)
         /\ NoLeaf(m1, b, K2, f)
    <3> HIDE DEF i, s
    <3> QED
      BY <1>1, <2>6, <2>7, <2>8, <2>9, <2>10, AddTree DEF K2
  <2>12. TreeInv(r.m, b, K2) /\ Data(r.m, K2) = Data(m, K) /\ NoLeaf(r.m, b, K2, f)
    BY <2>3, <2>7, <2>11, TreeSame
  <2>13. Grown(m, r.m, K)
    BY <1>5, <2>1, <2>3, <2>11 DEF TablesSame, Grown
  <2>14. Extended(m, r.m, b, K, K2, f)
    BY <2>11, <2>12, <2>13 DEF Extended
  <2>15. r.table = g /\ Leads(r.m.mem[t][i]) /\ FrameOf(r.m.mem[t][i]) = g
    BY <1>5, <2>1, <2>3, <2>11, EntryWord DEF NextTable
  <2>16. g \in K2[k - 1] /\ OnWay(b, v, k - 1, g)
    <3>1. g \in m.pool
      BY <2>1 DEF TreeInv
    <3> QED
      BY <2>11, <3>1, TreeFacts DEF OnWay
  <2>17. NoneEmptyBut(m, b, K, t) => NoneEmptyBut(r.m, b, K2, g)
    <3>1. \A u \in AllIn(K) : u # t => Added(m1, b, u) = Added(m, b, u)
      BY <2>1, <2>11 DEF TablesSame, Added
    <3>2. \A u : Added(r.m, b, u) = Added(m1, b, u)
      BY <2>3, SameMemory
    <3> QED
      BY <2>11, <3>1, <3>2 DEF NoneEmptyBut
  <2> QED
    BY <2>14, <2>15, <2>16, <2>17
<1> QED
  BY <1>2, <1>3, <1>4, <1>5

(* Page v is mapped to frame f, just taken for it.                         *)
LEMMA MapPage ==
    ASSUME NEW m, NEW b, NEW K, TreeInv(m, b, K),
           NEW v \in Window, NEW f \in Data(m, K), NoLeaf(m, b, K, f),
           NEW m4, m4 = paging_map(m, v, f), ~ m4.wild, ~ m4.shared
    PROVE  \E K2 : /\ TreeInv(m4, b, K2) /\ Data(m4, K2) = Data(m, K)
                   /\ ~ m4.starved => Maps(m4, v, f)
                   /\ ~ m4.starved /\ NoneEmpty(m, b, K) => NoneEmpty(m4, b, K2)
                   /\ \A u \in Window : \A g : u # v /\ Maps(m, u, g) => Maps(m4, u, g)
<1> DEFINE r1 == get_next_table(m, Root, IndexAt(v, 3))
           r2 == get_next_table(r1.m, r1.table, IndexAt(v, 2))
           r3 == get_next_table(r2.m, r2.table, IndexAt(v, 1))
           i  == IndexAt(v, 0)
<1>1. m4 = MapEntry(r3, i, f)
  BY MapSteps
<1>2. /\ IndexAt(v, 3) \in Index /\ IndexAt(v, 2) \in Index
      /\ IndexAt(v, 1) \in Index /\ i \in Index /\ Root \in Frames
      /\ m \in Machine /\ f \in Frames
  BY PathIn, Sizes, TreeFacts DEF TreeInv, Data, InUse
<1>3. r1.table \in Frames /\ Later(m, r1.m)
  BY <1>2, NextTyped
<1>reach1. r1 = get_next_table(m, Root, IndexAt(v, 3))
  OBVIOUS
<1> HIDE DEF r1
<1>4. r2.table \in Frames /\ Later(r1.m, r2.m) /\ (r1.table = NULL => r2.m.wild)
  BY <1>2, <1>3, NextTyped DEF Later
<1>reach2. r2 = get_next_table(r1.m, r1.table, IndexAt(v, 2))
  OBVIOUS
<1> HIDE DEF r2
<1>5. r3.table \in Frames /\ Later(r2.m, r3.m) /\ (r2.table = NULL => r3.m.wild)
  BY <1>2, <1>4, NextTyped DEF Later
<1>reach3. r3 = get_next_table(r2.m, r2.table, IndexAt(v, 1))
  OBVIOUS
<1> HIDE DEF r3
<1>6. m4 \in Machine /\ Rest(m4) = Rest(r3.m)
  BY <1>1, <1>2, <1>5, MapEntryTyped DEF Later
<1>7. /\ ~ r3.m.wild /\ ~ r3.m.shared /\ ~ r2.m.wild /\ ~ r2.m.shared /\ ~ r1.m.shared
      /\ r1.table # NULL /\ r2.table # NULL
      /\ (m4.starved <=> r3.m.starved)
  BY <1>4, <1>5, <1>6 DEF Later, Rest
<1>down. 3 - 1 = 2 /\ 2 - 1 = 1 /\ 1 - 1 = 0 /\ 1 \in 1 .. 3 /\ 2 \in 1 .. 3 /\ 3 \in 1 .. 3
         /\ 0 \in 0 .. 3 /\ 1 \in 0 .. 3 /\ 2 \in 0 .. 3 /\ 3 \in 0 .. 3
  OBVIOUS
<1>8. Root \in K[3] /\ OnWay(b, v, 3, Root)
  BY WayFacts DEF TreeInv, TreeShape, OnWay
<1>9. PICK K1 : /\ Extended(m, r1.m, b, K, K1, f)
                /\ r1.table \in K1[2] /\ OnWay(b, v, 2, r1.table)
                /\ Leads(r1.m.mem[Root][IndexAt(v, 3)])
                /\ FrameOf(r1.m.mem[Root][IndexAt(v, 3)]) = r1.table
                /\ NoneEmptyBut(m, b, K, Root) => NoneEmptyBut(r1.m, b, K1, r1.table)
  <2>1. \E K1 : /\ Extended(m, r1.m, b, K, K1, f)
                /\ r1.table \in K1[3 - 1] /\ OnWay(b, v, 3 - 1, r1.table)
                /\ Leads(r1.m.mem[Root][IndexAt(v, 3)])
                /\ FrameOf(r1.m.mem[Root][IndexAt(v, 3)]) = r1.table
                /\ NoneEmptyBut(m, b, K, Root) => NoneEmptyBut(r1.m, b, K1, r1.table)
    BY <1>down, <1>7, <1>8, <1>reach1, NextStep
  <2> QED
    BY <1>down, <2>1
<1>10. TreeInv(r1.m, b, K1) /\ f \in Data(r1.m, K1) /\ NoLeaf(r1.m, b, K1, f) /\ Grown(m, r1.m, K)
       /\ Data(r1.m, K1) = Data(m, K) /\ \A l \in 0 .. 3 : K[l] \subseteq K1[l]
  BY <1>9 DEF Extended
<1>11. PICK K2 : /\ Extended(r1.m, r2.m, b, K1, K2, f)
                 /\ r2.table \in K2[1] /\ OnWay(b, v, 1, r2.table)
                 /\ Leads(r2.m.mem[r1.table][IndexAt(v, 2)])
                 /\ FrameOf(r2.m.mem[r1.table][IndexAt(v, 2)]) = r2.table
                 /\ NoneEmptyBut(r1.m, b, K1, r1.table) => NoneEmptyBut(r2.m, b, K2, r2.table)
  <2>1. \E K2 : /\ Extended(r1.m, r2.m, b, K1, K2, f)
                /\ r2.table \in K2[2 - 1] /\ OnWay(b, v, 2 - 1, r2.table)
                /\ Leads(r2.m.mem[r1.table][IndexAt(v, 2)])
                /\ FrameOf(r2.m.mem[r1.table][IndexAt(v, 2)]) = r2.table
                /\ NoneEmptyBut(r1.m, b, K1, r1.table) => NoneEmptyBut(r2.m, b, K2, r2.table)
    BY <1>down, <1>7, <1>9, <1>10, <1>reach2, NextStep
  <2> QED
    BY <1>down, <2>1
<1>12. TreeInv(r2.m, b, K2) /\ f \in Data(r2.m, K2) /\ NoLeaf(r2.m, b, K2, f) /\ Grown(r1.m, r2.m, K1)
       /\ Data(r2.m, K2) = Data(m, K) /\ \A l \in 0 .. 3 : K1[l] \subseteq K2[l]
  BY <1>10, <1>11 DEF Extended
<1>13. \A u \in Window : \A g : Maps(m, u, g) => Maps(r2.m, u, g)
  BY <1>10, <1>12, MapsGrown
<1>14. CASE r3.table = NULL /\ r3.m.starved /\ TreeInv(r3.m, b, K2)
            /\ Data(r3.m, K2) = Data(r2.m, K2) /\ Grown(r2.m, r3.m, K2)
  <2>1. m4 = r3.m
    BY <1>1, <1>14 DEF MapEntry
  <2>2. \A u \in Window : \A g : Maps(m, u, g) => Maps(r3.m, u, g)
    BY <1>12, <1>13, <1>14, MapsGrown
  <2> QED
    BY <1>12, <1>14, <2>1, <2>2
<1>15. ASSUME NEW K3,
              Extended(r2.m, r3.m, b, K2, K3, f),
              r3.table \in K3[1 - 1], OnWay(b, v, 1 - 1, r3.table),
              Leads(r3.m.mem[r2.table][IndexAt(v, 1)]),
              FrameOf(r3.m.mem[r2.table][IndexAt(v, 1)]) = r3.table,
              NoneEmptyBut(r2.m, b, K2, r2.table) => NoneEmptyBut(r3.m, b, K3, r3.table)
       PROVE  /\ TreeInv(m4, b, K3) /\ Data(m4, K3) = Data(m, K)
              /\ Maps(m4, v, f)
              /\ NoneEmpty(m, b, K) => NoneEmpty(m4, b, K3)
              /\ \A u \in Window : \A g : u # v /\ Maps(m, u, g) => Maps(m4, u, g)
  <2> DEFINE t == r3.table
             m3 == r3.m
  <2>1. /\ TreeInv(m3, b, K3) /\ f \in Data(m3, K3) /\ NoLeaf(m3, b, K3, f) /\ Grown(r2.m, m3, K2)
        /\ Data(m3, K3) = Data(m, K) /\ \A l \in 0 .. 3 : K2[l] \subseteq K3[l]
    BY <1>12, <1>15 DEF Extended
  <2>2. t \in K3[0] /\ OnWay(b, v, 0, t)
    BY <1>down, <1>15
  <2>3. ~ Firm(b, t, i)
    BY <1>down, <2>1, <2>2, ClearAt
  <2>4. m4 = MapEntry([m |-> m3, table |-> t], i, f)
    BY <1>1 DEF MapEntry
  <2> HIDE DEF m3, t
  <2>5. /\ TreeInv(m4, b, K3) /\ Data(m4, K3) = Data(m3, K3)
        /\ TablesSame(m3, m4, K3, t, i)
        /\ Present(m4.mem[t][i]) /\ FrameOf(m4.mem[t][i]) = f
        /\ i \in Added(m4, b, t)
    BY <1>2, <2>1, <2>2, <2>3, <2>4, MapEntryTree
  <2> DEFINE c == [l \in 0 .. 3 |-> IF l = 3 THEN Root ELSE IF l = 2 THEN r1.table
                                    ELSE IF l = 1 THEN r2.table ELSE t]
  <2>6. c \in [0 .. 3 -> Frames] /\ c[3] = Root /\ c[2] = r1.table /\ c[1] = r2.table /\ c[0] = t
    BY <1>2, <1>3, <1>4, <1>5 DEF t
  <2> HIDE DEF c
  <2>7. /\ Root \in AllIn(K1) /\ r1.table \in AllIn(K1)
        /\ Root \in AllIn(K2) /\ r1.table \in AllIn(K2) /\ r2.table \in AllIn(K2)
    <3>1. Root \in K1[3] /\ Root \in K2[3] /\ r1.table \in K2[2]
      BY <1>down, <1>8, <1>9, <1>10, <1>12
    <3> QED
      BY <1>9, <1>11, <3>1 DEF AllIn
  <2>8. /\ m3.mem[Root][IndexAt(v, 3)] = r1.m.mem[Root][IndexAt(v, 3)]
        /\ m3.mem[r1.table][IndexAt(v, 2)] = r2.m.mem[r1.table][IndexAt(v, 2)]
    <3>1. r2.m.mem[Root][IndexAt(v, 3)] = r1.m.mem[Root][IndexAt(v, 3)]
      BY <1>2, <1>9, <1>12, <2>7 DEF Grown, Leads
    <3>2. m3.mem[Root][IndexAt(v, 3)] = r2.m.mem[Root][IndexAt(v, 3)]
      BY <1>2, <1>9, <2>1, <2>7, <3>1 DEF Grown, Leads
    <3>3. m3.mem[r1.table][IndexAt(v, 2)] = r2.m.mem[r1.table][IndexAt(v, 2)]
      BY <1>2, <1>11, <2>1, <2>7 DEF Grown, Leads
    <3> QED
      BY <3>1, <3>2, <3>3
  <2>9. /\ Leads(m3.mem[c[3]][IndexAt(v, 3)]) /\ c[2] = FrameOf(m3.mem[c[3]][IndexAt(v, 3)])
        /\ Leads(m3.mem[c[2]][IndexAt(v, 2)]) /\ c[1] = FrameOf(m3.mem[c[2]][IndexAt(v, 2)])
        /\ Leads(m3.mem[c[1]][IndexAt(v, 1)]) /\ c[0] = FrameOf(m3.mem[c[1]][IndexAt(v, 1)])
    BY <1>9, <1>11, <1>15, <2>6, <2>8 DEF m3, t
  <2>10. Chain(m3, v, c)
    <3>1. \A l \in 1 .. 3 : l = 1 \/ l = 2 \/ l = 3
      OBVIOUS
    <3> QED
      BY <1>down, <2>6, <2>9, <3>1 DEF Chain
  <2>11. \A l \in 0 .. 3 : c[l] \in K3[l] /\ c[l] \in AllIn(K3)
    BY <2>1, <2>10, ChainIn
  <2>12. \A l \in 1 .. 3 : m4.mem[c[l]][IndexAt(v, l)] = m3.mem[c[l]][IndexAt(v, l)]
    <3> SUFFICES ASSUME NEW l \in 1 .. 3
                 PROVE  m4.mem[c[l]][IndexAt(v, l)] = m3.mem[c[l]][IndexAt(v, l)]
      OBVIOUS
    <3>1. l \in 0 .. 3 /\ l # 0 /\ K3[0] \cap K3[l] = {}
      BY <1>down, <2>1 DEF TreeInv, TreeShape
    <3>2. c[l] # t /\ c[l] \in AllIn(K3) /\ IndexAt(v, l) \in Index
      BY <2>2, <2>11, <3>1, PathIn
    <3> QED
      BY <2>5, <3>2 DEF TablesSame
  <2>13. Chain(m4, v, c)
    BY <2>10, <2>12 DEF Chain
  <2>14. Maps(m4, v, f)
    BY <2>5, <2>6, <2>13 DEF Maps
  <2>15. NoneEmpty(m, b, K) => NoneEmpty(m4, b, K3)
    <3>1. ASSUME NoneEmpty(m, b, K) PROVE NoneEmptyBut(m3, b, K3, t)
      <4>1. NoneEmptyBut(m, b, K, Root)
        BY <3>1 DEF NoneEmpty, NoneEmptyBut
      <4> QED
        BY <1>9, <1>11, <1>15, <4>1 DEF m3, t
    <3>2. \A u \in AllIn(K3) : u # t => Added(m4, b, u) = Added(m3, b, u)
      BY <2>5 DEF TablesSame, Added
    <3> QED
      BY <2>5, <3>1, <3>2 DEF NoneEmpty, NoneEmptyBut
  <2>16. ASSUME NEW u \in Window, NEW g, u # v, Maps(m, u, g) PROVE Maps(m4, u, g)
    <3>1. Maps(m3, u, g)
      BY <1>12, <1>13, <2>1, <2>16, MapsGrown
    <3> QED
      BY <2>1, <2>5, <2>6, <2>10, <2>16, <3>1, MapsBeside
  <2> QED
    BY <2>1, <2>5, <2>14, <2>15, <2>16
<1>16. \/ r3.table = NULL /\ r3.m.starved /\ TreeInv(r3.m, b, K2)
            /\ Data(r3.m, K2) = Data(r2.m, K2) /\ Grown(r2.m, r3.m, K2)
       \/ \E K3 : /\ Extended(r2.m, r3.m, b, K2, K3, f)
                  /\ r3.table \in K3[1 - 1] /\ OnWay(b, v, 1 - 1, r3.table)
                  /\ Leads(r3.m.mem[r2.table][IndexAt(v, 1)])
                  /\ FrameOf(r3.m.mem[r2.table][IndexAt(v, 1)]) = r3.table
                  /\ NoneEmptyBut(r2.m, b, K2, r2.table) => NoneEmptyBut(r3.m, b, K3, r3.table)
  BY <1>down, <1>7, <1>11, <1>12, <1>reach3, NextStep
<1> QED
  BY <1>14, <1>15, <1>16

(* A NULL table is dereferenced only after one was refused a frame.        *)
LEMMA NextWild ==
    ASSUME NEW m \in Machine, NEW t \in Frames, NEW i \in Index,
           NEW r, r = get_next_table(m, t, i)
    PROVE  r.m.wild = (m.wild \/ t = NULL)
<1> DEFINE a  == AllocFrame(m.bits, NFrames)
           s  == HoldsCount(m, a.frame) \/ CountInUse(m, a.frame)
           m0 == Take(m, a, s)
           m1 == AddTable(m0, t, i, a.frame)
<1>1. \/ r.m = Touch(m, t)
      \/ r.m.wild = (m.wild \/ t = NULL)
      \/ r.m = Touch(m1, t)
  BY NextCases
<1>2. m0 \in Machine /\ m0.wild = m.wild /\ a.frame \in Frames
  <2>1. s \in BOOLEAN
    BY DEF HoldsCount, CountInUse
  <2> HIDE DEF s
  <2> QED
    BY <2>1, TakeFacts
<1> HIDE DEF m0, a
<1>3. m1 \in Machine /\ m1.wild = m.wild
  BY <1>2, AddTableTyped DEF Rest
<1> HIDE DEF m1
<1> QED
  BY <1>1, <1>3, TouchFacts

LEMMA StepDown ==
    ASSUME NEW m, NEW b, NEW K, TreeInv(m, b, K),
           NEW v \in Window, NEW k \in 1 .. 3, NEW t \in K[k], OnWay(b, v, k, t),
           NEW f \in Data(m, K), NoLeaf(m, b, K, f),
           NEW r, r = get_next_table(m, t, IndexAt(v, k)), ~ r.m.shared, ~ r.m.starved
    PROVE  /\ r.m.wild = m.wild
           /\ \E K2 : /\ TreeInv(r.m, b, K2) /\ f \in Data(r.m, K2) /\ NoLeaf(r.m, b, K2, f)
                      /\ r.table \in K2[k - 1] /\ OnWay(b, v, k - 1, r.table)
<1>1. k \in 0 .. 3 /\ IndexAt(v, k) \in Index /\ m \in Machine /\ t \in Frames /\ t # NULL
  BY PathIn, TreeFacts DEF TreeInv, TablesOwned
<1>2. r.m.wild = (m.wild \/ t = NULL)
  BY <1>1, NextWild
<1>3. \E K2 : Extended(m, r.m, b, K, K2, f)
              /\ r.table \in K2[k - 1] /\ OnWay(b, v, k - 1, r.table)
  BY NextStep
<1>4. m.wild \in BOOLEAN
  BY <1>1 DEF Machine
<1> QED
  BY <1>1, <1>2, <1>3, <1>4 DEF Extended

LEMMA MapWild ==
    ASSUME NEW m, NEW b, NEW K, TreeInv(m, b, K),
           NEW v \in Window, NEW f \in Data(m, K), NoLeaf(m, b, K, f),
           NEW m4, m4 = paging_map(m, v, f), ~ m4.starved, ~ m4.shared, ~ m.wild
    PROVE  ~ m4.wild
<1> DEFINE r1 == get_next_table(m, Root, IndexAt(v, 3))
           r2 == get_next_table(r1.m, r1.table, IndexAt(v, 2))
           r3 == get_next_table(r2.m, r2.table, IndexAt(v, 1))
<1>1. m4 = MapEntry(r3, IndexAt(v, 0), f)
  BY MapSteps
<1>2. /\ IndexAt(v, 3) \in Index /\ IndexAt(v, 2) \in Index
      /\ IndexAt(v, 1) \in Index /\ IndexAt(v, 0) \in Index /\ Root \in Frames
      /\ m \in Machine /\ f \in Frames
  BY PathIn, Sizes, TreeFacts DEF TreeInv, Data, InUse
<1>3. r1.table \in Frames /\ Later(m, r1.m)
  BY <1>2, NextTyped
<1>reach1. r1 = get_next_table(m, Root, IndexAt(v, 3))
  OBVIOUS
<1> HIDE DEF r1
<1>4. r2.table \in Frames /\ Later(r1.m, r2.m)
  BY <1>2, <1>3, NextTyped DEF Later
<1>reach2. r2 = get_next_table(r1.m, r1.table, IndexAt(v, 2))
  OBVIOUS
<1> HIDE DEF r2
<1>5. r3.table \in Frames /\ Later(r2.m, r3.m)
  BY <1>2, <1>4, NextTyped DEF Later
<1>reach3. r3 = get_next_table(r2.m, r2.table, IndexAt(v, 1))
  OBVIOUS
<1> HIDE DEF r3
<1>6. m4 \in Machine /\ Rest(m4) = Rest(r3.m)
  BY <1>1, <1>2, <1>5, MapEntryTyped DEF Later
<1>7. /\ ~ r3.m.shared /\ ~ r3.m.starved /\ ~ r2.m.shared /\ ~ r2.m.starved
      /\ ~ r1.m.shared /\ ~ r1.m.starved /\ m4.wild = r3.m.wild
  BY <1>4, <1>5, <1>6 DEF Later, Rest
<1>down. 3 - 1 = 2 /\ 2 - 1 = 1 /\ 1 - 1 = 0 /\ 1 \in 1 .. 3 /\ 2 \in 1 .. 3 /\ 3 \in 1 .. 3
  OBVIOUS
<1>8. Root \in K[3] /\ OnWay(b, v, 3, Root)
  BY WayFacts DEF TreeInv, TreeShape, OnWay
<1>9. /\ r1.m.wild = m.wild
      /\ \E K1 : /\ TreeInv(r1.m, b, K1) /\ f \in Data(r1.m, K1) /\ NoLeaf(r1.m, b, K1, f)
                 /\ r1.table \in K1[2] /\ OnWay(b, v, 2, r1.table)
  <2>1. /\ r1.m.wild = m.wild
        /\ \E K1 : /\ TreeInv(r1.m, b, K1) /\ f \in Data(r1.m, K1) /\ NoLeaf(r1.m, b, K1, f)
                   /\ r1.table \in K1[3 - 1] /\ OnWay(b, v, 3 - 1, r1.table)
    BY <1>down, <1>7, <1>8, <1>reach1, StepDown
  <2> QED
    BY <1>down, <2>1
<1>10. /\ r2.m.wild = r1.m.wild
       /\ \E K2 : /\ TreeInv(r2.m, b, K2) /\ f \in Data(r2.m, K2) /\ NoLeaf(r2.m, b, K2, f)
                  /\ r2.table \in K2[1] /\ OnWay(b, v, 1, r2.table)
  <2>1. /\ r2.m.wild = r1.m.wild
        /\ \E K2 : /\ TreeInv(r2.m, b, K2) /\ f \in Data(r2.m, K2) /\ NoLeaf(r2.m, b, K2, f)
                   /\ r2.table \in K2[2 - 1] /\ OnWay(b, v, 2 - 1, r2.table)
    BY <1>down, <1>7, <1>9, <1>reach2, StepDown
  <2> QED
    BY <1>down, <2>1
<1>11. r3.m.wild = r2.m.wild
  BY <1>down, <1>7, <1>10, <1>reach3, StepDown
<1> QED
  BY <1>7, <1>9, <1>10, <1>11

-----------------------------------------------------------------------------
(* Unmapping a page                                                        *)

(* Where paging_get_physical finds a frame there is a chain.               *)
LEMMA WalkMapped ==
    ASSUME NEW m, NEW b, NEW K, TreeInv(m, b, K), NEW v \in Window,
           NEW p, p = paging_get_physical(m, v), p # NULL
    PROVE  /\ Maps(m, v, p) /\ Chain(m, v, Way(m, v))
           /\ IndexAt(v, 0) \in Added(m, b, Way(m, v)[0])
           /\ p = FrameOf(m.mem[Way(m, v)[0]][IndexAt(v, 0)])
<1> DEFINE W == Way(m, v)
<1>down. 3 - 1 = 2 /\ 2 - 1 = 1 /\ 1 - 1 = 0 /\ 1 \in 1 .. 3 /\ 2 \in 1 .. 3 /\ 3 \in 1 .. 3
         /\ 0 \in 0 .. 3 /\ 1 \in 0 .. 3 /\ 2 \in 0 .. 3 /\ 3 \in 0 .. 3
  OBVIOUS
<1>1. /\ W[3] = Root
      /\ \A k \in 1 .. 3 : W[k - 1] = IF W[k] = NULL THEN NULL ELSE NextTable(m, W[k], IndexAt(v, k))
      /\ Tables3(m, v).pt = W[0]
  BY WayFacts
<1>2. W[0] # NULL /\ Present(m.mem[W[0]][IndexAt(v, 0)]) /\ p = FrameOf(m.mem[W[0]][IndexAt(v, 0)])
  BY <1>1 DEF paging_get_physical, NextTable
<1>walk. W = [level \in 0 .. 3 |-> IF level = 3 THEN Root ELSE IF level = 2 THEN Tables3(m, v).pdpt
                              ELSE IF level = 1 THEN Tables3(m, v).pd ELSE Tables3(m, v).pt]
  BY DEF Way
<1> HIDE DEF W
<1>3. W[1] # NULL /\ W[2] # NULL
  BY <1>down, <1>1, <1>2
<1>4. ASSUME NEW k \in 1 .. 3, W[k] \in K[k], OnWay(b, v, k, W[k]), W[k - 1] # NULL
      PROVE  /\ Leads(m.mem[W[k]][IndexAt(v, k)])
             /\ W[k - 1] = FrameOf(m.mem[W[k]][IndexAt(v, k)])
             /\ W[k - 1] \in K[k - 1] /\ OnWay(b, v, k - 1, W[k - 1])
  <2>1. /\ Present(m.mem[W[k]][IndexAt(v, k)])
        /\ W[k - 1] = FrameOf(m.mem[W[k]][IndexAt(v, k)])
    BY <1>1, <1>4 DEF NextTable
  <2>2. k \in 0 .. 3 /\ k # 0
    OBVIOUS
  <2> QED
    BY <1>4, <2>1, <2>2, ClearAt
<1>5. W[3] \in K[3] /\ OnWay(b, v, 3, W[3])
  BY <1>1, WayFacts DEF TreeInv, TreeShape, OnWay
<1>6. /\ W[2] \in K[2] /\ OnWay(b, v, 2, W[2])
      /\ W[1] \in K[1] /\ OnWay(b, v, 1, W[1])
      /\ W[0] \in K[0] /\ OnWay(b, v, 0, W[0])
  BY <1>down, <1>2, <1>3, <1>4, <1>5
<1>7. \A k \in 1 .. 3 : k = 1 \/ k = 2 \/ k = 3
  OBVIOUS
<1>8. \A k \in 1 .. 3 : W[k] \in K[k] /\ OnWay(b, v, k, W[k]) /\ W[k - 1] # NULL
  BY <1>down, <1>2, <1>3, <1>5, <1>6, <1>7
<1>9. W \in [0 .. 3 -> Frames]
  <2>1. W[3] \in Frames /\ W[2] \in Frames /\ W[1] \in Frames /\ W[0] \in Frames
    BY <1>down, <1>5, <1>6, TreeFacts
  <2>2. \A k \in 0 .. 3 : k = 0 \/ k = 1 \/ k = 2 \/ k = 3
    OBVIOUS
  <2>3. \A k \in 0 .. 3 : W[k] \in Frames
    BY <2>1, <2>2
  <2>4. DOMAIN W = 0 .. 3 /\ W = [k \in 0 .. 3 |-> W[k]]
    BY <1>walk
  <2> QED
    BY <2>3, <2>4
<1>10. Chain(m, v, W)
  BY <1>1, <1>4, <1>8, <1>9 DEF Chain
<1>11. IndexAt(v, 0) \in Added(m, b, W[0])
  BY <1>down, <1>2, <1>6, ClearAt, PathIn DEF Added
<1>12. Maps(m, v, p)
  BY <1>2, <1>10 DEF Maps
<1> QED
  BY <1>2, <1>10, <1>11, <1>12 DEF W

(* The entry of page v is gone, and so are the tables of the chain W below *)
(* level k.                                                                *)
Releasing(m, b, K, v, W, p, m2, K2, k) ==
    /\ TreeInv(m2, b, K2) /\ Data(m2, K2) = Data(m, K) /\ NoLeaf(m2, b, K2, p)
    /\ m2.pool = m.pool /\ m2.starved = m.starved /\ m2.wild = m.wild /\ m2.shared = m.shared
    /\ \A l \in 0 .. 3 : l >= k => K2[l] = K[l]
    /\ \A l \in 0 .. 3 : l > k =>
          m2.mem[W[l]][IndexAt(v, l)] = m.mem[W[l]][IndexAt(v, l)]
    /\ NoneEmpty(m, b, K) => NoneEmptyBut(m2, b, K2, W[k])
    /\ \A u \in Window : \A g : u # v /\ Maps(m, u, g) => Maps(m2, u, g)

LEMMA ReleaseStep ==
    ASSUME NEW m, NEW b, NEW K, TreeInv(m, b, K), NEW v \in Window, NEW W, Chain(m, v, W), NEW p,
           NEW m2, NEW K2, NEW k \in 0 .. 2, Releasing(m, b, K, v, W, p, m2, K2, k),
           ref_count(m2, W[k]) = 0
    PROVE  Releasing(m, b, K, v, W, p,
                     Drop(m2, k + 1, W[k], W[k + 1], IndexAt(v, k + 1)),
                     WithoutTable(K2, k, W[k]), k + 1)
<1> DEFINE n  == k + 1
           t  == W[n]
           i  == IndexAt(v, n)
           c  == W[k]
           m3 == Drop(m2, n, c, t, i)
           K3 == WithoutTable(K2, n - 1, c)
<1>1. n \in 1 .. 3 /\ n - 1 = k /\ n \in 0 .. 3 /\ n > k /\ k \in 0 .. 3 /\ n >= k
  OBVIOUS
<1>2. /\ TreeInv(m2, b, K2) /\ Data(m2, K2) = Data(m, K) /\ NoLeaf(m2, b, K2, p)
      /\ m2.pool = m.pool /\ m2.starved = m.starved /\ m2.wild = m.wild /\ m2.shared = m.shared
      /\ \A l \in 0 .. 3 : l >= k => K2[l] = K[l]
      /\ \A l \in 0 .. 3 : l > k =>
            m2.mem[W[l]][IndexAt(v, l)] = m.mem[W[l]][IndexAt(v, l)]
      /\ NoneEmpty(m, b, K) => NoneEmptyBut(m2, b, K2, W[k])
      /\ \A u \in Window : \A g : u # v /\ Maps(m, u, g) => Maps(m2, u, g)
  BY DEF Releasing
<1>3. \A l \in 0 .. 3 : W[l] \in K[l]
  BY ChainIn
<1>4. t \in K2[n] /\ i \in Index
  BY <1>1, <1>2, <1>3, PathIn
<1>5. Leads(m2.mem[t][i]) /\ c = FrameOf(m2.mem[t][i])
  BY <1>1, <1>2 DEF Chain
<1> HIDE DEF n, t, i, c, m3, K3
<1>6. /\ TreeInv(m3, b, K3) /\ Data(m3, K3) = Data(m2, K2)
      /\ m3.pool = m2.pool
      /\ m3.starved = m2.starved /\ m3.wild = m2.wild /\ m3.shared = m2.shared
      /\ TablesSame(m2, m3, K2, t, i)
      /\ AllIn(K3) = AllIn(K2) \ {c}
      /\ \A l \in 0 .. 3 : l >= n => K3[l] = K2[l]
      /\ c \notin Tables(b) /\ \A j \in Index : ~ Present(m2.mem[c][j])
      /\ \A f : NoLeaf(m2, b, K2, f) => NoLeaf(m3, b, K3, f)
  <2>1. ref_count(m2, c) = 0
    BY DEF c
  <2>2. TreeInv(m2, b, K2) /\ n \in 1 .. 3 /\ m3 = Drop(m2, n, c, t, i) /\ K3 = WithoutTable(K2, n - 1, c)
    BY <1>1, <1>2 DEF m3, K3
  <2>3. /\ TreeInv(m3, b, K3) /\ Data(m3, K3) = Data(m2, K2)
        /\ m3.pool = m2.pool
        /\ m3.starved = m2.starved /\ m3.wild = m2.wild /\ m3.shared = m2.shared
        /\ TablesSame(m2, m3, K2, t, i)
        /\ AllIn(K3) = AllIn(K2) \ {c}
    BY ONLY <1>4, <1>5, <2>1, <2>2, DropTree
  <2>4. \A l \in 0 .. 3 : l >= n => K3[l] = K2[l]
    BY ONLY <1>4, <1>5, <2>1, <2>2, DropTree
  <2>5. c \notin Tables(b) /\ \A j \in Index : ~ Present(m2.mem[c][j])
    BY ONLY <1>4, <1>5, <2>1, <2>2, DropTree
  <2>6. \A f : NoLeaf(m2, b, K2, f) => NoLeaf(m3, b, K3, f)
    BY ONLY <1>4, <1>5, <2>1, <2>2, DropTree
  <2> QED
    BY <2>3, <2>4, <2>5, <2>6
<1>7. \A l \in 0 .. 3 : l >= n => K3[l] = K[l]
  BY <1>1, <1>2, <1>6
<1>8. \A l \in 0 .. 3 : l > n => m3.mem[W[l]][IndexAt(v, l)] = m.mem[W[l]][IndexAt(v, l)]
  <2> SUFFICES ASSUME NEW l \in 0 .. 3, l > n
               PROVE  m3.mem[W[l]][IndexAt(v, l)] = m.mem[W[l]][IndexAt(v, l)]
    OBVIOUS
  <2>1. l > k /\ l >= k /\ l # n
    BY <1>1
  <2>2. W[l] \in K2[l] /\ W[l] \in AllIn(K2) /\ IndexAt(v, l) \in Index
    BY <1>2, <1>3, <2>1, PathIn, TreeFacts
  <2>3. W[l] # t
    BY <1>1, <1>2, <1>4, <2>1, <2>2 DEF TreeInv, TreeShape
  <2> QED
    BY <1>2, <1>6, <2>1, <2>2, <2>3 DEF TablesSame
<1>9. NoneEmpty(m, b, K) => NoneEmptyBut(m3, b, K3, t)
  <2>1. \A u \in AllIn(K2) : u # t => Added(m3, b, u) = Added(m2, b, u)
    BY <1>6 DEF TablesSame, Added
  <2>2. NoneEmpty(m, b, K) => NoneEmptyBut(m2, b, K2, c)
    BY <1>2 DEF c
  <2> QED
    BY <1>6, <2>1, <2>2 DEF NoneEmptyBut
<1>10. ASSUME NEW u \in Window, NEW g, u # v, Maps(m, u, g) PROVE Maps(m3, u, g)
  <2>1. \A j \in Index : ~ Present(m2.mem[FrameOf(m2.mem[t][i])][j])
    BY <1>5, <1>6
  <2>2. Maps(m2, u, g)
    BY <1>2, <1>10
  <2> QED
    BY <1>1, <1>2, <1>4, <1>6, <2>1, <2>2, MapsAbove
<1>11. Releasing(m, b, K, v, W, p, m3, K3, n)
  BY <1>2, <1>6, <1>7, <1>8, <1>9, <1>10 DEF Releasing, t
<1> QED
  BY <1>1, <1>11 DEF m3, K3, n, t, i, c

LEMMA ReleaseDone ==
    ASSUME NEW m, NEW b, NEW K, NEW v, NEW W, W[3] = Root, NEW p,
           NEW m2, NEW K2, NEW k \in 0 .. 3, Releasing(m, b, K, v, W, p, m2, K2, k),
           k = 3 \/ ref_count(m2, W[k]) # 0, NoneEmpty(m, b, K)
    PROVE  NoneEmpty(m2, b, K2)
<1>1. TreeInv(m2, b, K2) /\ NoneEmptyBut(m2, b, K2, W[k])
  BY DEF Releasing
<1>2. SUFFICES ASSUME W[k] \in AllIn(K2), W[k] \notin Tables(b)
               PROVE  Added(m2, b, W[k]) # {}
  BY <1>1 DEF NoneEmpty, NoneEmptyBut
<1>3. W[k] # Root
  BY <1>1, <1>2, TreeFacts
<1>4. k # 3
  BY <1>3
<1>5. ref_count(m2, W[k]) = 0 + Cardinality(Added(m2, b, W[k]))
  BY <1>1, <1>2, <1>3, CountFits
<1>6. Cardinality(Added(m2, b, W[k])) # 0
  <2>1. Cardinality(Added(m2, b, W[k])) \in 0 .. Entries
    BY <1>1, <1>2, <1>3, CountFits
  <2> QED
    BY <1>4, <1>5, <2>1, Sizes
<1>7. Added(m2, b, W[k]) \in SUBSET Index
  BY DEF Added
<1> QED
  BY <1>6, <1>7, AddedFinite

(* The nested releases stop at some level.                                 *)
LEMMA ReleaseAll ==
    ASSUME NEW m, NEW b, NEW K, TreeInv(m, b, K), NEW v \in Window, NEW W, Chain(m, v, W), NEW p,
           NEW w, w.pdpt = W[2], w.pd = W[1], w.pt = W[0],
           NEW m1, Releasing(m, b, K, v, W, p, m1, K, 0)
    PROVE  \E K2 : \E k \in 0 .. 3 :
              LET m2 == ReleasePt(m1, w, v)
              IN  /\ Releasing(m, b, K, v, W, p, m2, K2, k)
                  /\ k = 3 \/ ref_count(m2, W[k]) # 0
<1>1. W[3] = Root
  BY DEF Chain
<1>2. 0 + 1 = 1 /\ 1 + 1 = 2 /\ 2 + 1 = 3 /\ 0 \in 0 .. 2 /\ 1 \in 0 .. 2 /\ 2 \in 0 .. 2
      /\ 0 \in 0 .. 3 /\ 1 \in 0 .. 3 /\ 2 \in 0 .. 3 /\ 3 \in 0 .. 3
  OBVIOUS
<1> DEFINE m2 == Drop(m1, 1, W[0], W[1], IndexAt(v, 1))
           m3 == Drop(m2, 2, W[1], W[2], IndexAt(v, 2))
           m4 == Drop(m3, 3, W[2], W[3], IndexAt(v, 3))
           K2 == WithoutTable(K, 0, W[0])
           K3 == WithoutTable(K2, 1, W[1])
           K4 == WithoutTable(K3, 2, W[2])
<1>3. ReleasePt(m1, w, v) =
         IF ref_count(m1, W[0]) # 0 THEN m1
         ELSE IF ref_count(m2, W[1]) # 0 THEN m2
         ELSE IF ref_count(m3, W[2]) # 0 THEN m3 ELSE m4
  <2>1. m2 = DecRef(DropTable(m1, W[0], W[1], IndexAt(v, 1)), W[1])
    BY DEF Drop
  <2>2. m3 = DecRef(DropTable(m2, W[1], W[2], IndexAt(v, 2)), W[2])
    BY DEF Drop
  <2>3. m4 = DropTable(m3, W[2], Root, IndexAt(v, 3))
    BY <1>1 DEF Drop
  <2> HIDE DEF m2, m3, m4
  <2>4. ReleasePdpt(m3, w, v) = IF ref_count(m3, W[2]) # 0 THEN m3 ELSE m4
    BY <2>3 DEF ReleasePdpt
  <2>5. ReleasePd(m2, w, v) = IF ref_count(m2, W[1]) # 0 THEN m2 ELSE ReleasePdpt(m3, w, v)
    BY <2>2 DEF ReleasePd
  <2>6. ReleasePt(m1, w, v) = IF ref_count(m1, W[0]) # 0 THEN m1 ELSE ReleasePd(m2, w, v)
    BY <2>1 DEF ReleasePt
  <2> QED
    BY <2>4, <2>5, <2>6
<1>4. ref_count(m1, W[0]) = 0 => Releasing(m, b, K, v, W, p, m2, K2, 1)
  BY <1>2, ReleaseStep
<1>m3. m3 = Drop(m2, 2, W[1], W[2], IndexAt(v, 2)) /\ K3 = WithoutTable(K2, 1, W[1])
  OBVIOUS
<1> HIDE DEF m2, K2
<1>5. Releasing(m, b, K, v, W, p, m2, K2, 1) /\ ref_count(m2, W[1]) = 0
         => Releasing(m, b, K, v, W, p, m3, K3, 2)
  BY <1>2, ReleaseStep
<1> HIDE DEF m3, K3
<1>6. Releasing(m, b, K, v, W, p, m3, K3, 2) /\ ref_count(m3, W[2]) = 0
         => Releasing(m, b, K, v, W, p, m4, K4, 3)
  BY <1>2, ReleaseStep
<1> HIDE DEF m4, K4
<1> QED
  BY <1>2, <1>3, <1>4, <1>5, <1>6

(* One turn of the loop of vmm_free.                                       *)
LEMMA UnmapPage ==
    ASSUME NEW m, NEW b, NEW K, TreeInv(m, b, K), NEW v \in Window,
           NEW p, p = paging_get_physical(m, v), p # NULL,
           NEW u, u = paging_unmap(m, v),
           NEW m5, m5.mem = u.mem, m5.pool = u.pool, m5.bits = FreeFrame(u.bits, p),
           m5.starved = u.starved, m5.wild = u.wild, m5.shared = u.shared,
           u \in Machine => m5 \in Machine
    PROVE  /\ Maps(m, v, p)
           /\ m5 \in Machine /\ m5.pool = m.pool /\ m5.starved = m.starved
           /\ m5.wild = m.wild /\ m5.shared = m.shared
           /\ \E K2 : /\ TreeInv(m5, b, K2) /\ Data(m5, K2) = Data(m, K) \ {p}
                      /\ NoneEmpty(m, b, K) => NoneEmpty(m5, b, K2)
           /\ \A q \in Window : \A g : q # v /\ Maps(m, q, g) => Maps(m5, q, g)
<1> DEFINE W == Way(m, v)
           t == W[0]
           i == IndexAt(v, 0)
           w == Tables3(m, v)
           m1 == DecRef(SetWord(m, t, i, m.mem[t][i] - PAGE_PRESENT), t)
<1>1. Maps(m, v, p) /\ Chain(m, v, W) /\ i \in Added(m, b, t) /\ p = FrameOf(m.mem[t][i])
  BY WalkMapped
<1>2. w.pdpt = W[2] /\ w.pd = W[1] /\ w.pt = t
  BY WayFacts
<1> HIDE DEF W, w
<1>3. \A l \in 0 .. 3 : W[l] \in K[l] /\ W[l] \in AllIn(K) /\ W[l] # NULL
  BY <1>1, ChainIn
<1>4. t \in K[0] /\ t \in AllIn(K) /\ t # NULL /\ Present(m.mem[t][i]) /\ i \in Index
  BY <1>1, <1>3 DEF Added
<1>5. u = ReleasePt(m1, w, v)
  BY <1>2, <1>4 DEF paging_unmap, UnmapEntry, w
<1>6. /\ TreeInv(m1, b, K) /\ Data(m1, K) = Data(m, K)
      /\ Rest(m1) = Rest(m)
      /\ TablesSame(m, m1, K, t, i)
      /\ NoLeaf(m1, b, K, p)
  BY <1>1, <1>4, UnmapTree
<1> HIDE DEF m1
<1>7. Releasing(m, b, K, v, W, p, m1, K, 0)
  <2>1. \A l \in 0 .. 3 : l > 0 => m1.mem[W[l]][IndexAt(v, l)] = m.mem[W[l]][IndexAt(v, l)]
    <3> SUFFICES ASSUME NEW l \in 0 .. 3, l > 0
                 PROVE  m1.mem[W[l]][IndexAt(v, l)] = m.mem[W[l]][IndexAt(v, l)]
      OBVIOUS
    <3>1. l # 0 /\ 0 \in 0 .. 3
      OBVIOUS
    <3>2. W[l] # t
      BY <1>3, <1>4, <3>1 DEF TreeInv, TreeShape
    <3> QED
      BY <1>3, <1>6, <3>2, PathIn DEF TablesSame
  <2>2. NoneEmpty(m, b, K) => NoneEmptyBut(m1, b, K, W[0])
    <3>1. \A x \in AllIn(K) : x # t => Added(m1, b, x) = Added(m, b, x)
      BY <1>6 DEF TablesSame, Added
    <3> QED
      BY <3>1 DEF NoneEmpty, NoneEmptyBut
  <2>3. \A q \in Window : \A g : q # v /\ Maps(m, q, g) => Maps(m1, q, g)
    BY <1>1, <1>6, MapsBeside
  <2>4. m1.pool = m.pool /\ m1.starved = m.starved /\ m1.wild = m.wild /\ m1.shared = m.shared
    BY <1>6 DEF Rest
  <2> QED
    BY <1>6, <2>1, <2>2, <2>3, <2>4 DEF Releasing
<1>K2. PICK K2 : \E k \in 0 .. 3 : /\ Releasing(m, b, K, v, W, p, u, K2, k)
                                   /\ k = 3 \/ ref_count(u, W[k]) # 0
  <2>1. Chain(m, v, W) /\ w.pdpt = W[2] /\ w.pd = W[1] /\ w.pt = W[0]
    BY <1>1, <1>2
  <2>2. \E K2 : \E k \in 0 .. 3 :
           /\ Releasing(m, b, K, v, W, p, ReleasePt(m1, w, v), K2, k)
           /\ k = 3 \/ ref_count(ReleasePt(m1, w, v), W[k]) # 0
    BY <1>7, <2>1, ReleaseAll
  <2> QED
    BY <1>5, <2>2
<1>8. PICK k \in 0 .. 3 : /\ Releasing(m, b, K, v, W, p, u, K2, k)
                          /\ k = 3 \/ ref_count(u, W[k]) # 0
  BY <1>K2
<1>9. W[3] = Root
  BY <1>1 DEF Chain
<1>10. NoneEmpty(m, b, K) => NoneEmpty(u, b, K2)
  BY <1>8, <1>9, ReleaseDone
<1>11. /\ TreeInv(u, b, K2) /\ Data(u, K2) = Data(m, K) /\ NoLeaf(u, b, K2, p)
       /\ u.pool = m.pool /\ u.starved = m.starved /\ u.wild = m.wild /\ u.shared = m.shared
       /\ \A q \in Window : \A g : q # v /\ Maps(m, q, g) => Maps(u, q, g)
       /\ u \in Machine
  BY <1>8 DEF Releasing, TreeInv
<1>12. p \in Data(u, K2) /\ p \in Frames
  BY <1>1, <1>11, MapsWalk, TreeFacts DEF Data, InUse
<1>13. FreeFrame(u.bits, p) = u.bits \ {p}
  BY <1>12, Sizes DEF FreeFrame, clear_bit, Frames
<1>14. /\ m5 \in Machine /\ m5.mem = u.mem /\ m5.pool = u.pool /\ m5.bits = u.bits \ {p}
       /\ m5.starved = u.starved /\ m5.wild = u.wild /\ m5.shared = u.shared
  BY <1>11, <1>13
<1> HIDE DEF t, i
<1>15. TreeInv(m5, b, K2) /\ Data(m5, K2) = Data(m, K) \ {p}
  BY <1>11, <1>12, <1>14, FreeTree
<1>16. NoneEmpty(m, b, K) => NoneEmpty(m5, b, K2)
  BY <1>10, <1>14, SameMemory DEF NoneEmpty
<1>17. \A q \in Window : \A g : Maps(u, q, g) => Maps(m5, q, g)
  <2>1. Grown(u, m5, K2)
    BY <1>14 DEF Grown
  <2> QED
    BY <1>11, <2>1, MapsGrown
<1> QED
  BY <1>1, <1>11, <1>14, <1>15, <1>16, <1>17

(* One turn of the loop of vmm_alloc, for page v + k - 1.                  *)
MapOne(s, v, k) ==
    LET a == AllocFrame(s.m.bits, NFrames)
    IN  IF s.oom \/ a.frame = NULL
        THEN [s EXCEPT !.oom = TRUE]
        ELSE [m |-> paging_map(Take(s.m, a, HoldsCount(s.m, a.frame)), v + k - 1, a.frame),
              frames |-> Append(s.frames, a.frame),
              oom |-> FALSE]

(* One turn of the loop of vmm_free.                                       *)
UnmapOne(s, v, k) ==
    LET p == paging_get_physical(s, v + k - 1)
        u == paging_unmap(s, v + k - 1)
    IN  IF p = NULL THEN s
        ELSE [u EXCEPT !.bits = FreeFrame(@, p)]

NothingMapped(m) == [m |-> m, frames |-> << >>, oom |-> FALSE]

(* Both loops as one: t holds what they have come to after each turn.      *)
Turn(mapping, s, v, k) == IF mapping THEN MapOne(s, v, k) ELSE UnmapOne(s, v, k)

Loop(t, mapping, x, v, n) ==
    t = [k \in 0 .. n |-> IF k = 0 THEN x ELSE Turn(mapping, t[k - 1], v, k)]

(* The loops can be run any number of times.                               *)
LEMMA LoopRuns ==
    ASSUME NEW mapping, NEW x, NEW v, NEW n \in Nat
    PROVE  \E t : Loop(t, mapping, x, v, n)
<1> DEFINE Bad == { m \in 0 .. n : ~ \E t : Loop(t, mapping, x, v, m) }
<1>1. SUFFICES ASSUME Bad # {} PROVE FALSE
  <2>1. n \notin Bad /\ n \in 0 .. n
    BY <1>1
  <2> QED
    BY <2>1
<1> DEFINE m == Lowest(Bad)
<1>2. m \in Bad /\ \A j \in Bad : m <= j
  <2>1. Bad \in SUBSET Nat
    OBVIOUS
  <2> HIDE DEF Bad
  <2> QED
    BY <1>1, <2>1, LowestProperty
<1> HIDE DEF m
<1>3. m \in 0 .. n /\ ~ \E t : Loop(t, mapping, x, v, m)
  BY <1>2
<1>4. m # 0
  <2> SUFFICES ASSUME m = 0 PROVE FALSE
    OBVIOUS
  <2> DEFINE t == [k \in 0 .. 0 |-> x]
  <2>1. Loop(t, mapping, x, v, 0)
    BY DEF Loop
  <2> HIDE DEF t
  <2> QED
    BY <1>3, <2>1
<1>5. m - 1 \in 0 .. n /\ m - 1 \notin Bad
  <2>1. m - 1 \in 0 .. n /\ ~ (m <= m - 1)
    BY <1>3, <1>4
  <2> HIDE DEF Bad
  <2> QED
    BY <1>2, <2>1
<1>6. PICK t : Loop(t, mapping, x, v, m - 1)
  BY <1>5
<1> DEFINE F(f, k) == IF k = 0 THEN x ELSE Turn(mapping, f[k - 1], v, k)
           G(k) == F(t, k)
           u == [k \in 0 .. m |-> IF k = m THEN Turn(mapping, t[m - 1], v, m) ELSE t[k]]
           H(k) == F(u, k)
<1>7. \A k \in 0 .. m - 1 : t[k] = G(k)
  <2>1. t = [k \in 0 .. m - 1 |-> G(k)]
    BY <1>6 DEF Loop
  <2> HIDE DEF G
  <2> QED
    BY <2>1
<1>8. \A k \in 0 .. m : u[k] = F(u, k)
  <2> SUFFICES ASSUME NEW k \in 0 .. m PROVE u[k] = F(u, k)
    OBVIOUS
  <2>1. k \in Int /\ m \in Int /\ m # 0
    BY <1>3, <1>4
  <2>2. CASE k = m
    <3>1. u[k - 1] = t[m - 1] /\ k # 0
      BY <1>3, <1>4, <2>2
    <3>2. u[k] = Turn(mapping, t[m - 1], v, m)
      BY <1>3, <2>2
    <3> QED
      BY <3>1, <3>2, <2>2
  <2>3. CASE k # m
    <3>1. k \in 0 .. m - 1 /\ u[k] = t[k] /\ (k # 0 => u[k - 1] = t[k - 1])
      BY <1>3, <2>3
    <3> QED
      BY <1>7, <3>1
  <2> QED
    BY <2>2, <2>3
<1>9. Loop(u, mapping, x, v, m)
  <2>1. \A k \in 0 .. m : u[k] = H(k)
    BY <1>8
  <2>2. u = [k \in 0 .. m |-> u[k]]
    OBVIOUS
  <2> HIDE DEF u, H
  <2>3. u = [k \in 0 .. m |-> H(k)]
    BY <2>1, <2>2
  <2> QED
    BY <2>3 DEF H, Loop
<1> QED
  BY <1>3, <1>9

(* MapPages is the loop of vmm_alloc.                                      *)
LEMMA MapUnfolds ==
    ASSUME NEW m, NEW v, NEW n \in Nat
    PROVE  \E t : /\ t[0] = NothingMapped(m)
                  /\ \A k \in 1 .. n : t[k] = MapOne(t[k - 1], v, k)
                  /\ MapPages(m, v, n) = t[n]
<1> DEFINE R(x) == x = [k \in 0 .. n |-> IF k = 0 THEN NothingMapped(m) ELSE MapOne(x[k - 1], v, k)]
           t == CHOOSE x : R(x)
<1>1. \E x : R(x)
  <2>1. PICK x : Loop(x, TRUE, NothingMapped(m), v, n)
    BY LoopRuns
  <2> DEFINE F(k) == IF k = 0 THEN NothingMapped(m) ELSE Turn(TRUE, x[k - 1], v, k)
             G(k) == IF k = 0 THEN NothingMapped(m) ELSE MapOne(x[k - 1], v, k)
  <2>2. \A k \in 0 .. n : F(k) = G(k)
    BY DEF Turn
  <2>3. x = [k \in 0 .. n |-> F(k)]
    BY <2>1 DEF Loop
  <2> HIDE DEF F, G
  <2>4. x = [k \in 0 .. n |-> G(k)]
    BY <2>2, <2>3
  <2> QED
    BY <2>4 DEF G
<1>2. R(t)
  BY <1>1
<1>3. MapPages(m, v, n) = t[n]
  BY DEF MapPages, MapOne, NothingMapped
<1> HIDE DEF t
<1> DEFINE F(k) == IF k = 0 THEN NothingMapped(m) ELSE MapOne(t[k - 1], v, k)
<1>4. t = [k \in 0 .. n |-> F(k)]
  BY <1>2
<1> HIDE DEF F
<1>5. \A k \in 0 .. n : t[k] = F(k)
  BY <1>4
<1>6. t[0] = NothingMapped(m) /\ \A k \in 1 .. n : t[k] = MapOne(t[k - 1], v, k)
  BY <1>5 DEF F
<1> QED
  BY <1>3, <1>6

(* UnmapPages is the loop of vmm_free.                                     *)
LEMMA UnmapUnfolds ==
    ASSUME NEW m, NEW v, NEW n \in Nat
    PROVE  \E t : /\ t[0] = m
                  /\ \A k \in 1 .. n : t[k] = UnmapOne(t[k - 1], v, k)
                  /\ UnmapPages(m, v, n) = t[n]
<1> DEFINE R(x) == x = [k \in 0 .. n |-> IF k = 0 THEN m ELSE UnmapOne(x[k - 1], v, k)]
           t == CHOOSE x : R(x)
<1>1. \E x : R(x)
  <2>1. PICK x : Loop(x, FALSE, m, v, n)
    BY LoopRuns
  <2> DEFINE F(k) == IF k = 0 THEN m ELSE Turn(FALSE, x[k - 1], v, k)
             G(k) == IF k = 0 THEN m ELSE UnmapOne(x[k - 1], v, k)
  <2>2. \A k \in 0 .. n : F(k) = G(k)
    BY DEF Turn
  <2>3. x = [k \in 0 .. n |-> F(k)]
    BY <2>1 DEF Loop
  <2> HIDE DEF F, G
  <2>4. x = [k \in 0 .. n |-> G(k)]
    BY <2>2, <2>3
  <2> QED
    BY <2>4 DEF G
<1>2. R(t)
  BY <1>1
<1>3. UnmapPages(m, v, n) = t[n]
  BY DEF UnmapPages, UnmapOne
<1> HIDE DEF t
<1> DEFINE F(k) == IF k = 0 THEN m ELSE UnmapOne(t[k - 1], v, k)
<1>4. t = [k \in 0 .. n |-> F(k)]
  BY <1>2
<1> HIDE DEF F
<1>5. \A k \in 0 .. n : t[k] = F(k)
  BY <1>4
<1>6. t[0] = m /\ \A k \in 1 .. n : t[k] = UnmapOne(t[k - 1], v, k)
  BY <1>5 DEF F
<1> QED
  BY <1>3, <1>6

Progress == [m : Machine, frames : Seq(Frames), oom : BOOLEAN]

(* A turn of the loop of vmm_alloc that takes frame f; m0 is the machine   *)
(* before the page is mapped.                                              *)
MapTurn(s, s2, v, k, f, m0) ==
    /\ m0 \in Machine /\ m0.mem = s.m.mem /\ m0.pool = s.m.pool
    /\ m0.bits = s.m.bits \cup {f}
    /\ m0.starved = s.m.starved /\ m0.wild = s.m.wild
    /\ m0.shared = (s.m.shared \/ HoldsCount(s.m, f))
    /\ s2.m = paging_map(m0, v + k - 1, f) /\ Later(m0, s2.m)
    /\ s2.frames = Append(s.frames, f)

(* What vmm_alloc has come to after k pages, whatever the tables.          *)
LEMMA MapOneTyped ==
    ASSUME NEW s \in Progress, NEW v \in Nat, NEW k \in Nat \ {0},
           NEW s2, s2 = MapOne(s, v, k)
    PROVE  /\ s2 \in Progress /\ Later(s.m, s2.m)
           /\ \/ s2.oom /\ s2.m = s.m /\ s2.frames = s.frames
              \/ ~ s.oom /\ ~ s2.oom /\ \E f \in Frames \ s.m.bits : \E m0 : MapTurn(s, s2, v, k, f, m0)
<1> DEFINE a == AllocFrame(s.m.bits, NFrames)
           h == HoldsCount(s.m, a.frame)
           m0 == Take(s.m, a, h)
           m4 == paging_map(m0, v + k - 1, a.frame)
<1>1. s.m \in Machine /\ s.frames \in Seq(Frames) /\ s.oom \in BOOLEAN
      /\ s = [m |-> s.m, frames |-> s.frames, oom |-> s.oom]
  BY DEF Progress
<1>2. h \in BOOLEAN
  BY DEF HoldsCount
<1>3. /\ m0 \in Machine /\ m0.mem = s.m.mem /\ m0.bits = a.bits /\ m0.pool = s.m.pool
      /\ m0.starved = s.m.starved /\ m0.wild = s.m.wild /\ m0.shared = (s.m.shared \/ h)
      /\ a.frame \in Frames
      /\ \/ a.frame = NULL /\ a.bits = s.m.bits
         \/ a.frame \in Frames \ s.m.bits /\ a.bits = s.m.bits \cup {a.frame}
  <2> HIDE DEF h
  <2> QED
    BY <1>1, <1>2, TakeFacts
<1>4. v + k - 1 \in Nat
  OBVIOUS
<1>5. Later(m0, m4)
  <2> HIDE DEF m0
  <2> QED
    BY <1>3, <1>4, MapTyped
<1>6. s2 = IF s.oom \/ a.frame = NULL THEN [s EXCEPT !.oom = TRUE]
           ELSE [m |-> m4, frames |-> Append(s.frames, a.frame), oom |-> FALSE]
  BY DEF MapOne
<1>7. m0 = Take(s.m, AllocFrame(s.m.bits, NFrames), h)
      /\ m4 = paging_map(m0, v + k - 1, a.frame)
  OBVIOUS
<1> HIDE DEF m0, m4
<1>8. CASE s.oom \/ a.frame = NULL
  <2>1. s2 = [m |-> s.m, frames |-> s.frames, oom |-> TRUE]
    BY <1>1, <1>6, <1>8
  <2>2. Later(s.m, s.m)
    BY <1>1 DEF Later
  <2> QED
    BY <1>1, <2>1, <2>2 DEF Progress
<1>9. CASE ~ (s.oom \/ a.frame = NULL)
  <2>1. s2 = [m |-> m4, frames |-> Append(s.frames, a.frame), oom |-> FALSE]
    BY <1>6, <1>9
  <2> HIDE DEF a
  <2>2. Later(s.m, m4) /\ m4 \in Machine
    BY <1>1, <1>3, <1>5 DEF Later
  <2>3. s2 \in Progress
    BY <1>1, <1>3, <2>1, <2>2 DEF Progress
  <2>4. a.frame \in Frames \ s.m.bits /\ a.bits = s.m.bits \cup {a.frame}
    BY <1>3, <1>9
  <2>5. s2.m = m4 /\ s2.frames = Append(s.frames, a.frame) /\ ~ s2.oom /\ ~ s.oom
    BY <1>9, <2>1
  <2>6. m0 = Take(s.m, AllocFrame(s.m.bits, NFrames), HoldsCount(s.m, a.frame))
        /\ m0.shared = (s.m.shared \/ HoldsCount(s.m, a.frame))
    BY <1>3, <1>7
  <2> HIDE DEF h
  <2>7. MapTurn(s, s2, v, k, a.frame, m0)
    BY <1>3, <1>5, <1>7, <2>4, <2>5, <2>6 DEF MapTurn
  <2> QED
    BY <2>2, <2>3, <2>4, <2>5, <2>7
<1> QED
  BY <1>8, <1>9

-----------------------------------------------------------------------------
(* K2 is the tree after some turns of the loop of vmm_alloc, from page v   *)
(* on: the frames taken are data, and unless a table was refused a frame   *)
(* the pages are mapped to them; no other page is touched.                 *)
Mapped(m, b, K, v, s, K2) ==
    /\ TreeInv(s.m, b, K2)
    /\ Data(s.m, K2) = Data(m, K) \cup { s.frames[i] : i \in 1 .. Len(s.frames) }
    /\ ~ s.m.starved => \A i \in 1 .. Len(s.frames) : Maps(s.m, v + i - 1, s.frames[i])
    /\ ~ s.m.starved /\ NoneEmpty(m, b, K) => NoneEmpty(s.m, b, K2)
    /\ \A u \in Window : \A g :
          (\A i \in 1 .. Len(s.frames) : u # v + i - 1) /\ Maps(m, u, g) => Maps(s.m, u, g)

LEMMA MappedOne ==
    ASSUME NEW m, NEW b, NEW K, NEW v \in Nat, NEW k \in Nat \ {0},
           \A i \in 1 .. k : v + i - 1 \in Window,
           NEW s \in Progress, Len(s.frames) = k - 1, NEW K1, Mapped(m, b, K, v, s, K1),
           NEW f \in Frames \ s.m.bits,
           NEW m0, NEW s2, MapTurn(s, s2, v, k, f, m0), ~ s2.m.wild, ~ s2.m.shared
    PROVE  \E K2 : Mapped(m, b, K, v, s2, K2)
<1>1. TreeInv(s.m, b, K1)
  BY DEF Mapped
<1> USE DEF MapTurn
<1>2. \A t \in AllIn(K1) : t + 1 # f
  <2>1. ~ m0.shared
    BY DEF Later
  <2>2. ~ HoldsCount(s.m, f)
    BY <2>1
  <2>3. Tables(s.m) = AllIn(K1)
    BY <1>1, TablesAre DEF TreeInv
  <2> QED
    BY <2>2, <2>3 DEF HoldsCount
<1>3. TreeInv(m0, b, K1) /\ Data(m0, K1) = Data(s.m, K1) \cup {f} /\ NoLeaf(m0, b, K1, f)
  BY <1>1, <1>2, TakeTree
<1>14. v + k - 1 \in Window
  BY k \in 1 .. k
<1>4. PICK K2 : /\ TreeInv(s2.m, b, K2) /\ Data(s2.m, K2) = Data(m0, K1)
                /\ ~ s2.m.starved => Maps(s2.m, v + k - 1, f)
                /\ ~ s2.m.starved /\ NoneEmpty(m0, b, K1) => NoneEmpty(s2.m, b, K2)
                /\ \A u \in Window : \A g : u # v + k - 1 /\ Maps(m0, u, g) => Maps(s2.m, u, g)
  <2>1. f \in Data(m0, K1)
    BY <1>3
  <2> QED
    BY <1>3, <1>14, <2>1, MapPage
<1>5. ~ s2.m.starved => ~ s.m.starved
  BY DEF Later
<1>6. \A u, g : Maps(s.m, u, g) => Maps(m0, u, g)
  BY DEF Maps, Chain
<1>7. NoneEmpty(s.m, b, K1) => NoneEmpty(m0, b, K1)
  BY SameMemory DEF NoneEmpty
<1>8. s.frames \in Seq(Frames) /\ f \in Frames /\ k - 1 \in Nat
  BY DEF Progress
<1>9. /\ Len(s2.frames) = k /\ s2.frames[k] = f
      /\ \A i \in 1 .. k - 1 : s2.frames[i] = s.frames[i]
  <2>1. Len(s2.frames) = k /\ \A i \in 1 .. k : s2.frames[i] = IF i <= k - 1 THEN s.frames[i] ELSE f
    BY <1>8, AppendProperties
  <2> QED
    BY <2>1
<1>10. Data(s2.m, K2) = Data(m, K) \cup { s2.frames[i] : i \in 1 .. Len(s2.frames) }
  <2>1. Data(s2.m, K2) = Data(m, K) \cup { s.frames[i] : i \in 1 .. k - 1 } \cup {f}
    BY <1>3, <1>4 DEF Mapped
  <2>2. \A i \in 1 .. k : i \in 1 .. k - 1 \/ i = k
    OBVIOUS
  <2>3. { s2.frames[i] : i \in 1 .. k } = { s.frames[i] : i \in 1 .. k - 1 } \cup {f}
    BY <1>9, <2>2
  <2> QED
    BY <1>9, <2>1, <2>3
<1>11. ASSUME ~ s2.m.starved, NEW i \in 1 .. Len(s2.frames)
       PROVE  Maps(s2.m, v + i - 1, s2.frames[i])
  <2>1. CASE i = k
    BY <1>4, <1>9, <1>11, <2>1
  <2>2. CASE i # k
    <3>1. i \in 1 .. k - 1 /\ v + i - 1 # v + k - 1
      BY <1>9, <2>2
    <3>2. Maps(s.m, v + i - 1, s.frames[i])
      BY <1>5, <1>11, <3>1 DEF Mapped
    <3>3. v + i - 1 \in Window
      BY <1>9
    <3> QED
      BY <1>4, <1>6, <1>9, <3>1, <3>2, <3>3
  <2> QED
    BY <2>1, <2>2
<1>12. ~ s2.m.starved /\ NoneEmpty(m, b, K) => NoneEmpty(s2.m, b, K2)
  BY <1>4, <1>5, <1>7 DEF Mapped
<1>13. ASSUME NEW u \in Window, NEW g, \A i \in 1 .. Len(s2.frames) : u # v + i - 1, Maps(m, u, g)
       PROVE  Maps(s2.m, u, g)
  <2>1. k \in 1 .. k /\ \A i \in 1 .. k - 1 : i \in 1 .. k
    OBVIOUS
  <2>3. u # v + k - 1 /\ \A i \in 1 .. Len(s.frames) : u # v + i - 1
    BY <1>9, <1>13, <2>1
  <2>2. Maps(s.m, u, g)
    BY <1>13, <2>3 DEF Mapped
  <2> QED
    BY <1>4, <1>6, <2>3, <2>2
<1> QED
  BY <1>4, <1>10, <1>11, <1>12, <1>13 DEF Mapped

(* Such a turn dereferences a NULL table only after one was refused.       *)
LEMMA MappedWild ==
    ASSUME NEW m, NEW b, NEW K, NEW v \in Nat, NEW k \in Nat \ {0},
           v + k - 1 \in Window,
           NEW s \in Progress, NEW K1, Mapped(m, b, K, v, s, K1),
           NEW f \in Frames \ s.m.bits,
           NEW m0, NEW s2, MapTurn(s, s2, v, k, f, m0), ~ s2.m.starved, ~ s2.m.shared,
           ~ s.m.wild
    PROVE  ~ s2.m.wild
<1>1. TreeInv(s.m, b, K1)
  BY DEF Mapped
<1> USE DEF MapTurn
<1>2. \A t \in AllIn(K1) : t + 1 # f
  <2>1. ~ m0.shared
    BY DEF Later
  <2>2. ~ HoldsCount(s.m, f)
    BY <2>1
  <2>3. Tables(s.m) = AllIn(K1)
    BY <1>1, TablesAre DEF TreeInv
  <2> QED
    BY <2>2, <2>3 DEF HoldsCount
<1>3. TreeInv(m0, b, K1) /\ Data(m0, K1) = Data(s.m, K1) \cup {f} /\ NoLeaf(m0, b, K1, f)
  BY <1>1, <1>2, TakeTree
<1>4. f \in Data(m0, K1) /\ ~ m0.wild /\ s2.m = paging_map(m0, v + k - 1, f)
  BY <1>3
<1> HIDE DEF MapTurn
<1> QED
  BY <1>3, <1>4, MapWild

(* What the loop of vmm_alloc leaves.                                      *)
LEMMA MapPagesProperty ==
    ASSUME NEW m \in Machine, NEW v \in Nat, NEW n \in Nat, NEW r, r = MapPages(m, v, n),
           NEW b, NEW K
    PROVE  /\ r \in Progress /\ Later(m, r.m)
           /\ ~ r.oom => Len(r.frames) = n
           /\ /\ TreeInv(m, b, K)
              /\ \A i \in 1 .. n : v + i - 1 \in Window
              /\ ~ r.m.shared
              => /\ ~ r.m.wild => \E K2 : Mapped(m, b, K, v, r, K2)
                 /\ ~ m.wild /\ ~ r.m.starved => ~ r.m.wild
<1>1. PICK t : /\ t[0] = NothingMapped(m)
               /\ \A k \in 1 .. n : t[k] = MapOne(t[k - 1], v, k)
               /\ MapPages(m, v, n) = t[n]
  BY MapUnfolds
<1> DEFINE Grows(s, k) ==
              /\ TreeInv(m, b, K)
              /\ \A i \in 1 .. k : v + i - 1 \in Window
              /\ ~ s.m.shared
              => /\ ~ s.m.wild => \E K2 : Mapped(m, b, K, v, s, K2)
                 /\ ~ m.wild /\ ~ s.m.starved => ~ s.m.wild
           Good(s, k) == /\ s \in Progress /\ Later(m, s.m)
                         /\ ~ s.oom => Len(s.frames) = k
                         /\ Grows(s, k)
           Bad == { k \in 0 .. n : ~ Good(t[k], k) }
<1>2. SUFFICES ASSUME Bad # {} PROVE FALSE
  <2> HIDE DEF Good
  <2>1. n \notin Bad /\ n \in 0 .. n
    BY <1>2
  <2>2. Good(t[n], n)
    BY <2>1
  <2> USE DEF Good
  <2> QED
    BY <1>1, <2>2
<1> DEFINE k == Lowest(Bad)
<1>3. k \in Bad /\ \A j \in Bad : k <= j
  <2>1. Bad \in SUBSET Nat
    OBVIOUS
  <2> HIDE DEF Bad
  <2> QED
    BY <1>2, <2>1, LowestProperty
<1> HIDE DEF k
<1>4. k \in 0 .. n /\ ~ Good(t[k], k)
  BY <1>3
<1>5. k # 0
  <2> SUFFICES Good(t[0], 0)
    BY <1>4
  <2> DEFINE s == NothingMapped(m)
  <2>1. s.m = m /\ s.frames = << >> /\ s.oom = FALSE /\ s \in Progress /\ Len(s.frames) = 0
    BY DEF NothingMapped, Progress
  <2>2. Later(m, m)
    BY DEF Later, Machine
  <2>3. TreeInv(m, b, K) => Mapped(m, b, K, v, s, K)
    <3>1. { s.frames[i] : i \in 1 .. Len(s.frames) } = {} /\ 1 .. Len(s.frames) = {}
      BY <2>1
    <3> HIDE DEF s
    <3> QED
      BY <2>1, <3>1 DEF Mapped
  <2> HIDE DEF s
  <2>4. Good(s, 0)
    BY <2>1, <2>2, <2>3
  <2> QED
    BY <1>1, <2>4 DEF s
<1>6. k \in Nat \ {0} /\ k \in 1 .. n /\ k - 1 \in 0 .. n /\ k - 1 \notin Bad
  <2>1. k - 1 \in 0 .. n /\ ~ (k - 1 >= k) /\ k \in 1 .. n /\ k \in Nat \ {0}
    BY <1>4, <1>5
  <2> HIDE DEF Bad
  <2> QED
    BY <1>3, <2>1
<1>7. Good(t[k - 1], k - 1)
  BY <1>6
<1> DEFINE s == t[k - 1]
           s2 == t[k]
<1>8. s2 = MapOne(s, v, k)
  BY <1>1, <1>6
<1>9. ~ Good(s2, k) /\ Good(s, k - 1)
  BY <1>4, <1>7
<1> HIDE DEF s, s2
<1>10. s \in Progress /\ s.m \in Machine /\ Later(m, s.m) /\ (~ s.oom => Len(s.frames) = k - 1)
       /\ Grows(s, k - 1)
  BY <1>9 DEF Progress
<1>11. /\ s2 \in Progress /\ Later(s.m, s2.m)
       /\ \/ s2.oom /\ s2.m = s.m /\ s2.frames = s.frames
          \/ ~ s.oom /\ ~ s2.oom
             /\ \E f \in Frames \ s.m.bits : \E m0 : MapTurn(s, s2, v, k, f, m0)
  <2>1. s \in Progress /\ v \in Nat /\ k \in Nat \ {0} /\ s2 = MapOne(s, v, k)
    BY <1>6, <1>8, <1>10
  <2> QED
    BY ONLY <2>1, MapOneTyped
<1>12. Later(m, s2.m)
  BY <1>10, <1>11 DEF Later
<1>13. /\ ~ s2.m.wild => ~ s.m.wild
       /\ ~ s2.m.shared => ~ s.m.shared
       /\ ~ s2.m.starved => ~ s.m.starved
  BY <1>11 DEF Later
<1>14. 1 .. k - 1 \subseteq 1 .. k
  BY <1>6
<1>15. CASE s2.oom /\ s2.m = s.m /\ s2.frames = s.frames
  <2>1. \A K2 : Mapped(m, b, K, v, s, K2) => Mapped(m, b, K, v, s2, K2)
    BY <1>15 DEF Mapped
  <2>2. Grows(s2, k)
    BY <1>10, <1>14, <1>15, <2>1
  <2> QED
    BY <1>9, <1>11, <1>12, <1>15, <2>2
<1>16. CASE ~ s2.oom
  <2>1. ~ s.oom /\ Len(s.frames) = k - 1
    BY <1>10, <1>11, <1>16
  <2>2. PICK f \in Frames \ s.m.bits : \E m0 : MapTurn(s, s2, v, k, f, m0)
    BY <1>11, <1>16
  <2>3. Len(s2.frames) = k
    BY <1>6, <1>10, <2>1, <2>2, AppendProperties DEF Progress, MapTurn
  <2>4. ASSUME TreeInv(m, b, K), \A i \in 1 .. k : v + i - 1 \in Window,
               ~ s2.m.wild, ~ s2.m.shared
        PROVE  \E K2 : Mapped(m, b, K, v, s2, K2)
    <3>1. PICK K1 : Mapped(m, b, K, v, s, K1)
      BY <1>10, <1>13, <1>14, <2>4
    <3>2. PICK m0 : MapTurn(s, s2, v, k, f, m0)
      BY <2>2
    <3> QED
      BY <1>6, <1>10, <2>1, <2>4, <3>1, <3>2, MappedOne
  <2>5. ASSUME TreeInv(m, b, K), \A i \in 1 .. k : v + i - 1 \in Window,
               ~ s2.m.shared, ~ m.wild, ~ s2.m.starved
        PROVE  ~ s2.m.wild
    <3>1. ~ s.m.wild
      BY <1>10, <1>13, <1>14, <2>5
    <3>2. PICK K1 : Mapped(m, b, K, v, s, K1)
      BY <1>10, <1>13, <1>14, <2>5, <3>1
    <3>3. PICK m0 : MapTurn(s, s2, v, k, f, m0)
      BY <2>2
    <3>4. k \in Nat \ {0} /\ v + k - 1 \in Window
      BY <1>6, <2>5, k \in 1 .. k
    <3> QED
      BY <1>10, <2>5, <3>1, <3>2, <3>3, <3>4, MappedWild
  <2>6. Grows(s2, k)
    BY <2>4, <2>5
  <2> QED
    BY <1>9, <1>11, <1>12, <2>3, <2>6
<1> QED
  BY <1>11, <1>15, <1>16

-----------------------------------------------------------------------------
(* The loop of vmm_free                                                    *)

(* m2 is a machine that differs from m in memory and bitmap only.          *)
Same(m, m2) ==
    /\ m2 \in Machine /\ m2.pool = m.pool
    /\ m2.starved = m.starved /\ m2.wild = m.wild /\ m2.shared = m.shared

(* Releasing leaves a machine, whatever the tables.                        *)
LEMMA FreeTyped ==
    ASSUME NEW m \in Machine, NEW t
    PROVE  /\ Same(m, [m EXCEPT !.bits = FreeFrame(@, t)])
           /\ [m EXCEPT !.bits = FreeFrame(@, t)].mem = m.mem
<1>1. FreeFrame(m.bits, t) \subseteq m.bits
  BY DEF FreeFrame, clear_bit
<1> DEFINE x == FreeFrame(m.bits, t)
<1>2. m.bits \subseteq Frames /\ x \subseteq Frames
  BY <1>1 DEF Machine
<1> HIDE DEF x
<1>3. /\ [m EXCEPT !.bits = x] \in Machine /\ Same(m, [m EXCEPT !.bits = x])
      /\ [m EXCEPT !.bits = x].mem = m.mem
  BY <1>2 DEF Machine, Same
<1> QED
  BY <1>3 DEF x

LEMMA DropTyped ==
    ASSUME NEW m \in Machine, NEW t, NEW parent \in Frames, NEW i \in Index
    PROVE  Same(m, DropTable(m, t, parent, i))
<1> DEFINE mb == [m EXCEPT !.bits = FreeFrame(@, t)]
<1>1. Same(m, mb) /\ mb \in Machine
  BY FreeTyped DEF Same
<1>2. DropTable(m, t, parent, i) = SetWord(mb, parent, i, 0)
  BY DEF DropTable
<1> HIDE DEF mb
<1>3. parent \in 0 .. NFrames /\ 0 \in Word
  BY Sizes DEF Frames
<1>4. SetWord(mb, parent, i, 0) \in Machine /\ Rest(SetWord(mb, parent, i, 0)) = Rest(mb)
  BY <1>1, <1>3, SetWordFacts
<1> QED
  BY <1>1, <1>2, <1>4 DEF Same, Rest

LEMMA DecRefTyped ==
    ASSUME NEW m \in Machine, NEW t \in Frames
    PROVE  Same(m, DecRef(m, t))
<1>1. t + 1 \in 0 .. NFrames /\ 0 \in Index
  BY Sizes DEF Frames
<1>2. ref_count(m, t) \in Word
  BY <1>1, MemoryFacts DEF ref_count
<1>3. ref_count(m, t) - 1 \in -1 .. WordCount
  BY <1>2, Sizes DEF Word
<1>4. DecRef(m, t) \in Machine /\ Rest(DecRef(m, t)) = Rest(m)
  BY <1>3, SetRefFacts DEF DecRef
<1> QED
  BY <1>4 DEF Same, Rest

LEMMA UnmapTyped ==
    ASSUME NEW m \in Machine, NEW v \in Nat
    PROVE  Same(m, paging_unmap(m, v)) /\ paging_get_physical(m, v) \in Frames
<1> DEFINE w == Tables3(m, v)
           next(t, level) == IF t = NULL THEN NULL ELSE NextTable(m, t, IndexAt(v, level))
<1>1. \A k \in 0 .. 3 : IndexAt(v, k) \in Index
  BY IndexIn
<1>11. 0 \in 0 .. 3 /\ 1 \in 0 .. 3 /\ 2 \in 0 .. 3 /\ 3 \in 0 .. 3
  OBVIOUS
<1>2. NULL \in Frames /\ Root \in Frames
  BY Sizes DEF NULL, Frames
<1>3. \A t \in Frames : \A k \in 0 .. 3 : next(t, k) \in Frames
  BY <1>1, <1>2, NextTableTyped
<1>4. /\ w.pdpt = next(Root, 3) /\ w.pd = next(w.pdpt, 2) /\ w.pt = next(w.pd, 1)
  BY DEF Tables3
<1>5. paging_get_physical(m, v) = next(w.pt, 0)
  BY DEF paging_get_physical
<1> HIDE DEF next, w
<1>6. w.pdpt \in Frames /\ w.pd \in Frames /\ w.pt \in Frames
  BY <1>2, <1>3, <1>4, <1>11
<1>7. \A x \in Machine : Same(m, x) => Same(m, ReleasePdpt(x, w, v))
  <2> SUFFICES ASSUME NEW x \in Machine, Same(m, x) PROVE Same(m, ReleasePdpt(x, w, v))
    OBVIOUS
  <2>1. Same(x, DropTable(x, w.pdpt, Root, IndexAt(v, 3)))
    BY <1>1, <1>2, <1>11, DropTyped
  <2> QED
    BY <2>1 DEF ReleasePdpt, Same
<1>8. \A x \in Machine : Same(m, x) => Same(m, ReleasePd(x, w, v))
  <2> SUFFICES ASSUME NEW x \in Machine, Same(m, x) PROVE Same(m, ReleasePd(x, w, v))
    OBVIOUS
  <2> DEFINE y == DropTable(x, w.pd, w.pdpt, IndexAt(v, 2))
             z == DecRef(y, w.pdpt)
  <2>1. ReleasePd(x, w, v) = IF ref_count(x, w.pd) # 0 THEN x ELSE ReleasePdpt(z, w, v)
    BY DEF ReleasePd
  <2>2. Same(x, y)
    BY <1>1, <1>6, <1>11, DropTyped
  <2> HIDE DEF y
  <2>3. Same(y, z)
    BY <1>6, <2>2, DecRefTyped DEF Same
  <2> HIDE DEF z
  <2>4. Same(m, z) /\ z \in Machine
    BY <2>2, <2>3 DEF Same
  <2> QED
    BY <1>7, <2>1, <2>4
<1>9. \A x \in Machine : Same(m, x) => Same(m, ReleasePt(x, w, v))
  <2> SUFFICES ASSUME NEW x \in Machine, Same(m, x) PROVE Same(m, ReleasePt(x, w, v))
    OBVIOUS
  <2> DEFINE y == DropTable(x, w.pt, w.pd, IndexAt(v, 1))
             z == DecRef(y, w.pd)
  <2>1. ReleasePt(x, w, v) = IF ref_count(x, w.pt) # 0 THEN x ELSE ReleasePd(z, w, v)
    BY DEF ReleasePt
  <2>2. Same(x, y)
    BY <1>1, <1>6, <1>11, DropTyped
  <2> HIDE DEF y
  <2>3. Same(y, z)
    BY <1>6, <2>2, DecRefTyped DEF Same
  <2> HIDE DEF z
  <2>4. Same(m, z) /\ z \in Machine
    BY <2>2, <2>3 DEF Same
  <2> QED
    BY <1>8, <2>1, <2>4
<1>10. Same(m, UnmapEntry(m, w, v))
  <2> DEFINE i == IndexAt(v, 0)
             e == m.mem[w.pt][i] - PAGE_PRESENT
             y == SetWord(m, w.pt, i, e)
             z == DecRef(y, w.pt)
  <2>1. UnmapEntry(m, w, v) = IF w.pt = NULL \/ ~ Present(m.mem[w.pt][i]) THEN m
                              ELSE ReleasePt(z, w, v)
    BY DEF UnmapEntry
  <2>2. Same(m, m)
    BY DEF Same
  <2>3. ASSUME Present(m.mem[w.pt][i]) PROVE Same(m, z) /\ z \in Machine
    <3>1. w.pt \in 0 .. NFrames /\ i \in Index
      BY <1>1, <1>6, <1>11, Sizes DEF Frames
    <3>2. e \in Word
      BY <2>3, <3>1, MemoryFacts, AbsentWord
    <3> HIDE DEF e, i
    <3>3. y \in Machine /\ Rest(y) = Rest(m)
      BY <3>1, <3>2, SetWordFacts
    <3> HIDE DEF y
    <3>4. Same(y, z)
      BY <1>6, <3>3, DecRefTyped
    <3> QED
      BY <3>3, <3>4 DEF Same, Rest
  <2> HIDE DEF z
  <2> QED
    BY <1>9, <2>1, <2>2, <2>3
<1> QED
  BY <1>2, <1>3, <1>5, <1>6, <1>10, <1>11 DEF paging_unmap, w

LEMMA UnmapOneTyped ==
    ASSUME NEW s \in Machine, NEW v \in Nat, NEW k \in Nat \ {0}
    PROVE  Same(s, UnmapOne(s, v, k))
<1> DEFINE p == paging_get_physical(s, v + k - 1)
           u == paging_unmap(s, v + k - 1)
<1>1. Same(s, u) /\ u \in Machine
  BY UnmapTyped DEF Same
<1>2. UnmapOne(s, v, k) = IF p = NULL THEN s ELSE [u EXCEPT !.bits = FreeFrame(@, p)]
  BY DEF UnmapOne
<1> HIDE DEF u, p
<1>3. Same(u, [u EXCEPT !.bits = FreeFrame(@, p)])
  BY <1>1, FreeTyped
<1>4. Same(s, s)
  BY DEF Same
<1> DEFINE u2 == [u EXCEPT !.bits = FreeFrame(@, p)]
<1>5. Same(u, u2) /\ UnmapOne(s, v, k) = IF p = NULL THEN s ELSE u2
  BY <1>2, <1>3
<1> HIDE DEF u2
<1>6. Same(s, u2)
  BY <1>1, <1>5 DEF Same
<1> QED
  BY <1>4, <1>5, <1>6

(* K2 is the tree after k turns of the loop of vmm_free, from page v on:   *)
(* where the n pages were mapped to the frames F, the first k of these are *)
(* data no longer; no other page is touched.                               *)
Unmapped(m, b, K, v, n, F, s, k, K2) ==
    /\ TreeInv(s, b, K2)
    /\ NoneEmpty(m, b, K) => NoneEmpty(s, b, K2)
    /\ (\A i \in 1 .. n : Maps(m, v + i - 1, F[i]))
          => Data(s, K2) = Data(m, K) \ { F[i] : i \in 1 .. k }
    /\ \A u \in Window : \A g :
          (\A i \in 1 .. k : u # v + i - 1) /\ Maps(m, u, g) => Maps(s, u, g)

LEMMA UnmappedOne ==
    ASSUME NEW m, NEW b, NEW K, NEW v \in Nat, NEW n \in Nat, NEW k \in 1 .. n, NEW F,
           \A i \in 1 .. n : v + i - 1 \in Window,
           NEW s, NEW K1, Unmapped(m, b, K, v, n, F, s, k - 1, K1),
           NEW s2, s2 = UnmapOne(s, v, k)
    PROVE  \E K2 : Unmapped(m, b, K, v, n, F, s2, k, K2)
<1> DEFINE x == v + k - 1
           p == paging_get_physical(s, x)
           u == paging_unmap(s, x)
           u2 == [u EXCEPT !.bits = FreeFrame(@, p)]
<1>1. TreeInv(s, b, K1) /\ x \in Window /\ s \in Machine /\ x \in Nat
  BY DEF Unmapped, TreeInv
<1>2. s2 = IF p = NULL THEN s ELSE u2
  BY DEF UnmapOne
<1>3. \A i \in 1 .. k - 1 : i \in 1 .. k /\ i \in 1 .. n /\ x # v + i - 1
  OBVIOUS
<1>4. \A i \in 1 .. k : i \in 1 .. k - 1 \/ i = k
  OBVIOUS
<1>5. ASSUME \A i \in 1 .. n : Maps(m, v + i - 1, F[i])
      PROVE  p = F[k] /\ p # NULL
  <2>1. Maps(m, x, F[k])
    BY <1>5
  <2>2. Maps(s, x, F[k])
    BY <1>1, <1>3, <2>1 DEF Unmapped
  <2>3. p = F[k] /\ p \in Data(s, K1)
    BY <1>1, <2>2, MapsWalk
  <2>4. NULL \notin s.pool
    BY <1>1, TreeFacts
  <2> QED
    BY <2>3, <2>4 DEF Data, InUse
<1>6. ASSUME NEW q \in Window, NEW g, \A i \in 1 .. k : q # v + i - 1, Maps(m, q, g)
      PROVE  q # x /\ Maps(s, q, g)
  <2>1. k \in 1 .. k
    OBVIOUS
  <2>2. q # x
    BY <1>6, <2>1
  <2> QED
    BY <1>3, <1>6, <2>2 DEF Unmapped
<1>7. CASE p = NULL
  <2>1. s2 = s
    BY <1>2, <1>7
  <2> HIDE DEF p, x
  <2> QED
    BY <1>5, <1>6, <1>7, <2>1 DEF Unmapped
<1>8. CASE p # NULL
  <2>1. s2 = u2
    BY <1>2, <1>8
  <2>2. Same(s, u) /\ u \in Machine
    BY <1>1, UnmapTyped DEF Same
  <2>3. p = paging_get_physical(s, x) /\ u = paging_unmap(s, x)
    OBVIOUS
  <2> HIDE DEF p, u, x
  <2>4. Same(u, u2) /\ u2.mem = u.mem
    BY <2>2, FreeTyped
  <2>5. u2.bits = FreeFrame(u.bits, p)
    BY <2>2 DEF Machine
  <2>6. /\ s2.mem = u.mem /\ s2.pool = u.pool /\ s2.bits = FreeFrame(u.bits, p)
        /\ s2.starved = u.starved /\ s2.wild = u.wild /\ s2.shared = u.shared
        /\ s2 \in Machine
    BY <2>1, <2>4, <2>5 DEF Same
  <2> HIDE DEF u2
  <2>7. /\ \E K2 : /\ TreeInv(s2, b, K2) /\ Data(s2, K2) = Data(s, K1) \ {p}
                   /\ NoneEmpty(s, b, K1) => NoneEmpty(s2, b, K2)
        /\ \A q \in Window : \A g : q # x /\ Maps(s, q, g) => Maps(s2, q, g)
    BY ONLY <1>1, <1>8, <2>3, <2>6, UnmapPage
  <2>8. PICK K2 : /\ TreeInv(s2, b, K2) /\ Data(s2, K2) = Data(s, K1) \ {p}
                  /\ NoneEmpty(s, b, K1) => NoneEmpty(s2, b, K2)
    BY <2>7
  <2>9. ASSUME \A i \in 1 .. n : Maps(m, v + i - 1, F[i])
        PROVE  Data(s2, K2) = Data(m, K) \ { F[i] : i \in 1 .. k }
    <3>1. Data(s2, K2) = (Data(m, K) \ { F[i] : i \in 1 .. k - 1 }) \ {F[k]}
      BY <1>5, <2>8, <2>9 DEF Unmapped
    <3>2. k \in 1 .. k
      OBVIOUS
    <3> QED
      BY <1>3, <1>4, <3>1, <3>2
  <2>10. NoneEmpty(m, b, K) => NoneEmpty(s2, b, K2)
    BY <2>8 DEF Unmapped
  <2>11. \A q \in Window : \A g :
            (\A i \in 1 .. k : q # v + i - 1) /\ Maps(m, q, g) => Maps(s2, q, g)
    BY <1>6, <2>7
  <2> QED
    BY <2>8, <2>9, <2>10, <2>11 DEF Unmapped
<1> QED
  BY <1>7, <1>8

(* What the loop of vmm_free leaves.                                       *)
LEMMA UnmapPagesProperty ==
    ASSUME NEW m \in Machine, NEW v \in Nat, NEW n \in Nat, NEW r, r = UnmapPages(m, v, n),
           NEW b, NEW K, NEW F
    PROVE  /\ Same(m, r)
           /\ TreeInv(m, b, K) /\ (\A i \in 1 .. n : v + i - 1 \in Window)
              => \E K2 : Unmapped(m, b, K, v, n, F, r, n, K2)
<1>1. PICK t : /\ t[0] = m
               /\ \A k \in 1 .. n : t[k] = UnmapOne(t[k - 1], v, k)
               /\ UnmapPages(m, v, n) = t[n]
  BY UnmapUnfolds
<1> DEFINE Given == TreeInv(m, b, K) /\ \A i \in 1 .. n : v + i - 1 \in Window
           Good(s, k) == Same(m, s) /\ (Given => \E K2 : Unmapped(m, b, K, v, n, F, s, k, K2))
           Bad == { k \in 0 .. n : ~ Good(t[k], k) }
<1>2. SUFFICES ASSUME Bad # {} PROVE FALSE
  <2> HIDE DEF Good
  <2>1. n \notin Bad /\ n \in 0 .. n
    BY <1>2
  <2>2. Good(t[n], n)
    BY <2>1
  <2> USE DEF Good
  <2> QED
    BY <1>1, <2>2
<1> DEFINE k == Lowest(Bad)
<1>3. k \in Bad /\ \A j \in Bad : k <= j
  <2>1. Bad \in SUBSET Nat
    OBVIOUS
  <2> HIDE DEF Bad
  <2> QED
    BY <1>2, <2>1, LowestProperty
<1> HIDE DEF k
<1>4. k \in 0 .. n /\ ~ Good(t[k], k)
  BY <1>3
<1>5. k # 0
  <2> SUFFICES Good(m, 0)
    BY <1>1, <1>4
  <2>1. Same(m, m)
    BY DEF Same
  <2>2. { F[i] : i \in 1 .. 0 } = {} /\ 1 .. 0 = {}
    OBVIOUS
  <2>3. TreeInv(m, b, K) => Unmapped(m, b, K, v, n, F, m, 0, K)
    BY <2>2 DEF Unmapped
  <2> QED
    BY <2>1, <2>3
<1>6. k \in Nat \ {0} /\ k \in 1 .. n /\ k - 1 \in 0 .. n /\ k - 1 \notin Bad
  <2>1. k - 1 \in 0 .. n /\ ~ (k - 1 >= k) /\ k \in 1 .. n /\ k \in Nat \ {0}
    BY <1>4, <1>5
  <2> HIDE DEF Bad
  <2> QED
    BY <1>3, <2>1
<1>7. Good(t[k - 1], k - 1)
  BY <1>6
<1> DEFINE s == t[k - 1]
           s2 == t[k]
<1>8. s2 = UnmapOne(s, v, k)
  BY <1>1, <1>6
<1>9. ~ Good(s2, k) /\ Good(s, k - 1)
  BY <1>4, <1>7
<1> HIDE DEF s, s2
<1>10. Same(m, s) /\ s \in Machine
  BY <1>9 DEF Same
<1>11. Same(s, s2)
  BY <1>6, <1>8, <1>10, UnmapOneTyped
<1>12. Same(m, s2)
  BY <1>10, <1>11 DEF Same
<1>13. ASSUME Given PROVE \E K2 : Unmapped(m, b, K, v, n, F, s2, k, K2)
  <2>1. PICK K1 : Unmapped(m, b, K, v, n, F, s, k - 1, K1)
    BY <1>9, <1>13
  <2>2. \A i \in 1 .. n : v + i - 1 \in Window
    BY <1>13
  <2> QED
    BY <1>6, <1>8, <2>1, <2>2, UnmappedOne
<1> QED
  BY <1>9, <1>12, <1>13

=============================================================================
