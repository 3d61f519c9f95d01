----------------------------- MODULE Mem_proofs -----------------------------
(***************************************************************************)
(* Proofs about pmm.c and, on top of it, mem.c.  First the frame           *)
(* allocator, for every bitmap size, every reserved prefix and every set   *)
(* of memory maps: the inductive invariant is the accounting of frames     *)
(* together with the fact that nothing is held before pmm_init.  Then the  *)
(* heap, for every page size, header size and set of request sizes.        *)
(***************************************************************************)
EXTENDS Heap, FiniteSetTheorems, WellFoundedInduction, TLAPS

-----------------------------------------------------------------------------
(* The frame allocator                                                     *)

(* A set of naturals that is not empty has a least member, so the first    *)
(* clear bit the scan of pmm_alloc_frame meets is well defined.            *)
LEMMA LowestProperty ==
    ASSUME NEW S \in SUBSET Nat, S # {}
    PROVE  Lowest(S) \in S /\ \A j \in S : Lowest(S) <= j
<1>1. \E x \in S : \A y \in S : ~ (<<y, x>> \in OpToRel(<, Nat))
  BY NatLessThanWellFounded, WFMin, Zenon
<1>2. PICK x \in S : \A y \in S : ~ (<<y, x>> \in OpToRel(<, Nat))
  BY <1>1
<1>3. \A y \in S : <<y, x>> \in Nat \X Nat /\ ~ (y < x)
  <2>1. \A y \in S : <<y, x>> \in Nat \X Nat
    BY <1>2
  <2>2. \A y \in S : <<y, x>>[1] = y /\ <<y, x>>[2] = x
    OBVIOUS
  <2> QED
    BY <1>2, <2>1, <2>2, Zenon DEF OpToRel
<1>4. \A y \in S : x <= y
  <2> TAKE y \in S
  <2>1. x \in Nat /\ y \in Nat
    BY <1>2
  <2>2. ~ (y < x)
    BY <1>3
  <2> QED
    BY <2>1, <2>2
<1> QED
  BY <1>4 DEF Lowest

(* What a call of pmm_alloc_frame returns: NULL and an unchanged bitmap if *)
(* no bit is clear, otherwise a frame whose bit was clear and is now set.  *)
LEMMA AllocFrameProperty ==
    ASSUME NEW bm \in SUBSET Frames
    PROVE  LET a == AllocFrame(bm, NFrames)
           IN  \/ /\ Frames \subseteq bm
                  /\ a.frame = NULL
                  /\ a.bits = bm
               \/ /\ a.frame \in Frames \ bm
                  /\ a.bits = bm \cup {a.frame}
<1>1. ClearFrames(bm, NFrames) = Frames \ bm
  BY NFramesAssumption DEF ClearFrames, Frames, test_bit
<1>2. CASE Frames \ bm = {}
  BY <1>1, <1>2 DEF AllocFrame
<1>3. CASE Frames \ bm # {}
  <2> DEFINE f == Lowest(Frames \ bm)
  <2>1. f \in Frames \ bm
    BY <1>3, LowestProperty, NFramesAssumption DEF Frames
  <2>2. set_bit(bm, f) = bm \cup {f}
    BY <2>1, NFramesAssumption DEF set_bit, Frames
  <2>3. AllocFrame(bm, NFrames) = [frame |-> f, bits |-> set_bit(bm, f)]
    BY <1>1, <1>3 DEF AllocFrame
  <2> QED
    BY <2>1, <2>2, <2>3
<1> QED
  BY <1>2, <1>3

(* Usable memory lies within the bitmap and does not contain frame 0.      *)
LEMMA UsableProperty ==
    ASSUME NEW m \in MMaps
    PROVE  /\ Usable(m) \subseteq Frames
           /\ NULL \notin Usable(m)
           /\ Frames \ InitialBitmap(m) = Usable(m)
<1>1. ConventionalFrames(m) \subseteq Nat
  <2>1. \A i \in DOMAIN m : m[i] \in Descriptor
    BY MMapsAssumption
  <2> QED
    BY <2>1 DEF ConventionalFrames, Descriptor
<1>2. Usable(m) \subseteq Frames /\ NULL \notin Usable(m)
  BY <1>1, NFramesAssumption, ReservedAssumption DEF Usable, Frames, NULL
<1>3. Frames \ InitialBitmap(m) = Usable(m)
  BY <1>1, NFramesAssumption, ReservedAssumption DEF Usable, Frames, InitialBitmap
<1> QED
  BY <1>2, <1>3

-----------------------------------------------------------------------------
(* The inductive invariant of the allocator.                               *)
PmmInv ==
    /\ PmmTypeOK
    /\ total_frames = 0 => held = {}
    /\ FrameAccounting

(* The zeroed statics satisfy the invariant.                               *)
LEMMA PmmInitInv == PmmInit => PmmInv
BY DEF PmmInit, PmmInv, PmmTypeOK, FrameAccounting

(* Every call of pmm.c preserves the invariant.                            *)
LEMMA PmmStepInv == PmmInv /\ [PmmNext]_pmm_vars => PmmInv'
<1> SUFFICES ASSUME PmmInv, [PmmNext]_pmm_vars
             PROVE  PmmInv'
  OBVIOUS
<1> USE DEF PmmInv
<1>1. CASE pmm_init
  <2>1. pmm_bitmap' \subseteq Frames
    BY <1>1, NFramesAssumption DEF pmm_init, InitialBitmap, Frames
  <2>2. Frames \ pmm_bitmap' = Usable(mmap')
    BY <1>1, UsableProperty DEF pmm_init, PmmTypeOK
  <2> QED
    BY <1>1, <2>1, <2>2 DEF pmm_init, PmmTypeOK, FrameAccounting
<1>2. CASE pmm_alloc_frame
  <2> DEFINE a == AllocFrame(pmm_bitmap, NFrames)
  <2>1. total_frames = NFrames /\ total_frames # 0
    BY <1>2 DEF pmm_alloc_frame, PmmTypeOK
  <2>2. /\ pmm_bitmap' = a.bits
        /\ held' = IF a.frame = NULL THEN held ELSE held \cup {a.frame}
        /\ mmap' = mmap /\ total_frames' = total_frames
    BY <1>2, <2>1 DEF pmm_alloc_frame
  <2>3. \/ Frames \subseteq pmm_bitmap /\ a.frame = NULL /\ a.bits = pmm_bitmap
        \/ a.frame \in Frames \ pmm_bitmap /\ a.bits = pmm_bitmap \cup {a.frame}
    BY AllocFrameProperty DEF PmmTypeOK
  <2>4. NULL \notin Usable(mmap) /\ Usable(mmap) \subseteq Frames
    BY UsableProperty DEF PmmTypeOK
  <2> HIDE DEF a
  <2> QED
    BY <2>1, <2>2, <2>3, <2>4 DEF PmmTypeOK, FrameAccounting
<1>3. CASE \E f \in held : pmm_free_frame(f)
  <2>1. PICK f \in held : pmm_free_frame(f)
    BY <1>3
  <2>2. pmm_bitmap' = pmm_bitmap \ {f}
    BY <2>1, NFramesAssumption
    DEF pmm_free_frame, FreeFrame, clear_bit, PmmTypeOK, Frames
  <2> QED
    BY <2>1, <2>2 DEF pmm_free_frame, PmmTypeOK, FrameAccounting
<1>4. CASE UNCHANGED pmm_vars
  BY <1>4 DEF pmm_vars, PmmTypeOK, FrameAccounting
<1> QED
  BY <1>1, <1>2, <1>3, <1>4 DEF PmmNext

(* The allocator's invariant holds in every reachable state.               *)
LEMMA PmmInvariant == PmmSpec => []PmmInv
BY PmmInitInv, PmmStepInv, PTL DEF PmmSpec

(* Type correctness of pmm.c's statics, for every number of frames.        *)
THEOREM PmmTypeCorrect == PmmSpec => []PmmTypeOK
<1>1. PmmInv => PmmTypeOK
  BY DEF PmmInv
<1> QED
  BY <1>1, PmmInvariant, PTL

(* No frame is lost, handed out twice, or handed out though it is not      *)
(* conventional memory above the reserved frames, for every memory map.    *)
THEOREM PmmAccounting == PmmSpec => []FrameAccounting
<1>1. PmmInv => FrameAccounting
  BY DEF PmmInv
<1> QED
  BY <1>1, PmmInvariant, PTL

(* The displayed number of free frames is exact, for every memory map.     *)
THEOREM PmmFreeCount == PmmSpec => []FreeCountExact
<1>1. PmmInv => FreeCountExact
  <2> SUFFICES ASSUME PmmInv, total_frames # 0
               PROVE  pmm_get_free_frames(pmm_bitmap, total_frames)
                        = Cardinality(Usable(mmap)) - Cardinality(held)
    BY DEF FreeCountExact
  <2>1. total_frames = NFrames
    BY DEF PmmInv, PmmTypeOK
  <2>2. ClearFrames(pmm_bitmap, NFrames) = Frames \ pmm_bitmap
    BY NFramesAssumption DEF ClearFrames, Frames, test_bit
  <2>3. Frames \ pmm_bitmap = Usable(mmap) \ held /\ held \subseteq Usable(mmap)
    BY DEF PmmInv, FrameAccounting
  <2>4. IsFiniteSet(Usable(mmap))
    <3>1. IsFiniteSet(Frames)
      BY FS_Interval, NFramesAssumption DEF Frames
    <3> QED
      BY <3>1, FS_Subset, UsableProperty DEF PmmInv, PmmTypeOK
  <2>5. Cardinality(Usable(mmap) \ held)
          = Cardinality(Usable(mmap)) - Cardinality(Usable(mmap) \cap held)
    BY <2>4, FS_Difference
  <2>6. Usable(mmap) \cap held = held
    BY <2>3
  <2> QED
    BY <2>1, <2>2, <2>3, <2>5, <2>6 DEF pmm_get_free_frames
<1> QED
  BY <1>1, PmmInvariant, PTL

(* A NULL result of pmm_alloc_frame means that all usable memory is held.  *)
THEOREM PmmNullMeansExhausted == PmmSpec => []NullMeansExhausted
<1>1. PmmInv => NullMeansExhausted
  <2> SUFFICES ASSUME PmmInv, total_frames # 0
               PROVE  AllocFrame(pmm_bitmap, total_frames).frame = NULL
                        <=> Usable(mmap) \subseteq held
    BY DEF NullMeansExhausted
  <2> DEFINE a == AllocFrame(pmm_bitmap, total_frames)
  <2>1. total_frames = NFrames
    BY DEF PmmInv, PmmTypeOK
  <2>2. \/ Frames \subseteq pmm_bitmap /\ a.frame = NULL
        \/ a.frame \in Frames \ pmm_bitmap
    BY <2>1, AllocFrameProperty DEF PmmInv, PmmTypeOK
  <2>3. NULL \notin Usable(mmap) /\ Usable(mmap) \subseteq Frames
    BY UsableProperty DEF PmmInv, PmmTypeOK
  <2> HIDE DEF a
  <2>4. a.frame = NULL <=> Usable(mmap) \subseteq held
    BY <2>2, <2>3 DEF PmmInv, FrameAccounting
  <2> QED
    BY <2>4 DEF a
<1> QED
  BY <1>1, PmmInvariant, PTL

(* Every behaviour of pmm.c is one of the abstract frame allocator.        *)
THEOREM PmmRefinement == PmmSpec => PmmImplementsFrameAllocator
<1>1. PmmInit => Abstract!Init
  <2> SUFFICES ASSUME PmmInit PROVE Abstract!Init
    OBVIOUS
  <2>1. Usable(mmap) \subseteq Frames
    BY UsableProperty DEF PmmInit
  <2> QED
    BY <2>1 DEF PmmInit, Abstract!Init
<1>2. PmmInv /\ [PmmNext]_pmm_vars => [Abstract!Next]_(Abstract!vars)
  <2> SUFFICES ASSUME PmmInv, [PmmNext]_pmm_vars
               PROVE  [Abstract!Next]_(Abstract!vars)
    OBVIOUS
  <2> USE DEF PmmInv
  <2> DEFINE av == IF total_frames = 0 THEN Usable(mmap) ELSE Frames \ pmm_bitmap
  <2>1. CASE pmm_init
    <3>1. Frames \ pmm_bitmap' = Usable(mmap)
      BY <2>1, UsableProperty DEF pmm_init, PmmTypeOK
    <3>2. av' = av /\ held' = held
      BY <2>1, <3>1 DEF pmm_init
    <3> QED
      BY <3>2 DEF Abstract!vars
  <2>2. CASE pmm_alloc_frame
    <3> DEFINE a == AllocFrame(pmm_bitmap, NFrames)
    <3>1. total_frames = NFrames /\ total_frames # 0 /\ total_frames' = total_frames
      BY <2>2 DEF pmm_alloc_frame, PmmTypeOK
    <3>2. /\ pmm_bitmap' = a.bits
          /\ held' = IF a.frame = NULL THEN held ELSE held \cup {a.frame}
      BY <2>2, <3>1 DEF pmm_alloc_frame
    <3>3. \/ Frames \subseteq pmm_bitmap /\ a.frame = NULL /\ a.bits = pmm_bitmap
          \/ a.frame \in Frames \ pmm_bitmap /\ a.bits = pmm_bitmap \cup {a.frame}
      BY AllocFrameProperty DEF PmmTypeOK
    <3>4. NULL \notin Usable(mmap) /\ Frames \ pmm_bitmap = Usable(mmap) \ held
      BY <3>1, UsableProperty DEF PmmTypeOK, FrameAccounting
    <3> HIDE DEF a
    <3>5. CASE a.frame = NULL
      BY <3>1, <3>2, <3>3, <3>4, <3>5 DEF Abstract!vars
    <3>6. CASE a.frame # NULL
      <4>1. a.frame \in av /\ av' = av \ {a.frame} /\ held' = held \cup {a.frame}
        BY <3>1, <3>2, <3>3, <3>6
      <4> QED
        BY <4>1 DEF Abstract!Next, Abstract!Alloc
    <3> QED
      BY <3>5, <3>6
  <2>3. CASE \E f \in held : pmm_free_frame(f)
    <3>1. PICK f \in held : pmm_free_frame(f)
      BY <2>3
    <3>2. pmm_bitmap' = pmm_bitmap \ {f} /\ held' = held \ {f}
      BY <3>1, NFramesAssumption
      DEF pmm_free_frame, FreeFrame, clear_bit, PmmTypeOK, Frames
    <3>3. total_frames # 0 /\ total_frames' = total_frames /\ f \in Frames
      BY <3>1 DEF pmm_free_frame, PmmTypeOK
    <3>4. av' = av \cup {f}
      BY <3>2, <3>3
    <3> QED
      BY <3>1, <3>2, <3>4 DEF Abstract!Next, Abstract!Free
  <2>4. CASE UNCHANGED pmm_vars
    BY <2>4 DEF pmm_vars, Abstract!vars
  <2> QED
    BY <2>1, <2>2, <2>3, <2>4 DEF PmmNext
<1> QED
  BY <1>1, <1>2, PmmInvariant, PTL
  DEF PmmSpec, PmmImplementsFrameAllocator, Abstract!Spec

-----------------------------------------------------------------------------
(* The loop of mem_alloc                                                   *)

(* One call of pmm_alloc_frame in the loop of mem_alloc.                   *)
Take(r) ==
    LET a == AllocFrame(r.bits, total_frames)
    IN  [bits |-> a.bits, got |-> r.got \cup ({a.frame} \ {NULL})]

NothingTaken(bm) == [bits |-> bm, got |-> {}]

Recursion(t, bm, n) ==
    t = [k \in 0 .. n |-> IF k = 0 THEN NothingTaken(bm) ELSE Take(t[k - 1])]

(* The loop of mem_alloc can be run any number of times.                   *)
LEMMA TakesLoop ==
    ASSUME NEW bm \in SUBSET Frames, NEW n \in Nat
    PROVE  \E t : Recursion(t, bm, n)
<1> DEFINE Bad == { m \in 0 .. n : ~ \E t : Recursion(t, bm, m) }
<1>1. SUFFICES ASSUME Bad # {} PROVE FALSE
  <2>1. n \notin Bad /\ n \in 0 .. n
    BY <1>1
  <2> QED
    BY <2>1
<1> DEFINE m == Lowest(Bad)
<1>2. m \in Bad /\ \A j \in Bad : m <= j
  <2>1. Bad \in SUBSET Nat
    OBVIOUS
  <2> HIDE DEF Bad
  <2> QED
    BY <1>1, <2>1, LowestProperty
<1> HIDE DEF m
<1>3. m \in 0 .. n /\ ~ \E t : Recursion(t, bm, m)
  BY <1>2
<1>4. m # 0
  <2> SUFFICES ASSUME m = 0 PROVE FALSE
    OBVIOUS
  <2> DEFINE t == [k \in 0 .. 0 |-> NothingTaken(bm)]
  <2>1. Recursion(t, bm, 0)
    BY DEF Recursion
  <2> HIDE DEF t
  <2> QED
    BY <1>3, <2>1
<1>5. m - 1 \in 0 .. n /\ m - 1 \notin Bad
  <2>1. m - 1 \in 0 .. n /\ ~ (m <= m - 1)
    BY <1>3, <1>4
  <2> HIDE DEF Bad
  <2> QED
    BY <1>2, <2>1
<1>6. PICK t : Recursion(t, bm, m - 1)
  BY <1>5
<1> DEFINE u == [k \in 0 .. m |-> IF k = m THEN Take(t[m - 1]) ELSE t[k]]
<1>7. ASSUME NEW k \in 0 .. m
      PROVE  u[k] = IF k = 0 THEN NothingTaken(bm) ELSE Take(u[k - 1])
  <2>1. CASE k = m
    <3>1. u[k - 1] = t[m - 1] /\ k # 0
      BY <1>3, <1>4, <2>1
    <3>2. u[k] = Take(t[m - 1])
      BY <1>3, <2>1
    <3> QED
      BY <3>1, <3>2
  <2>2. CASE k # m
    <3>1. k \in 0 .. m - 1 /\ u[k] = t[k] /\ (k # 0 => u[k - 1] = t[k - 1])
      BY <1>3, <2>2
    <3>2. t[k] = IF k = 0 THEN NothingTaken(bm) ELSE Take(t[k - 1])
      <4> DEFINE F(x) == IF x = 0 THEN NothingTaken(bm) ELSE Take(t[x - 1])
      <4>1. t = [x \in 0 .. m - 1 |-> F(x)]
        BY <1>6 DEF Recursion
      <4> HIDE DEF F
      <4>2. t[k] = F(k)
        BY <3>1, <4>1
      <4> QED
        BY <4>2 DEF F
    <3> QED
      BY <3>1, <3>2
  <2> QED
    BY <2>1, <2>2
<1>8. Recursion(u, bm, m)
  <2> DEFINE F(x) == IF x = 0 THEN NothingTaken(bm) ELSE Take(u[x - 1])
  <2>1. \A k \in 0 .. m : u[k] = F(k)
    BY <1>7
  <2>2. u = [k \in 0 .. m |-> u[k]]
    OBVIOUS
  <2> HIDE DEF u, F
  <2>3. u = [k \in 0 .. m |-> F(k)]
    BY <2>1, <2>2
  <2> QED
    BY <2>3 DEF F, Recursion
<1> HIDE DEF u
<1> QED
  BY <1>3, <1>8

(* Takes is that loop.                                                     *)
LEMMA TakesUnfolds ==
    ASSUME NEW bm \in SUBSET Frames, NEW n \in Nat
    PROVE  \E t : /\ t[0] = NothingTaken(bm)
                  /\ \A k \in 1 .. n : t[k] = Take(t[k - 1])
                  /\ Takes(bm, n) = t[n]
<1> DEFINE t == CHOOSE x : Recursion(x, bm, n)
<1>1. Recursion(t, bm, n)
  BY TakesLoop
<1>2. Takes(bm, n) = t[n]
  BY DEF Takes, Recursion, Take, NothingTaken
<1> HIDE DEF t
<1> DEFINE F(x) == IF x = 0 THEN NothingTaken(bm) ELSE Take(t[x - 1])
<1>3. t = [k \in 0 .. n |-> F(k)]
  BY <1>1 DEF Recursion
<1> HIDE DEF F
<1>4. \A k \in 0 .. n : t[k] = F(k)
  BY <1>3
<1>5. t[0] = NothingTaken(bm) /\ \A k \in 1 .. n : t[k] = Take(t[k - 1])
  BY <1>4 DEF F
<1> QED
  BY <1>2, <1>5

(* What the loop obtains was free, is marked, and is not frame 0.          *)
LEMMA TakesProperty ==
    ASSUME NEW bm \in SUBSET Frames, NEW n \in Nat, total_frames = NFrames, NULL \in bm
    PROVE  /\ Takes(bm, n).got \in SUBSET (Frames \ bm)
           /\ Takes(bm, n).bits = bm \cup Takes(bm, n).got
<1>1. PICK t : /\ t[0] = NothingTaken(bm)
               /\ \A k \in 1 .. n : t[k] = Take(t[k - 1])
               /\ Takes(bm, n) = t[n]
  BY TakesUnfolds
<1> DEFINE Good(k) == t[k].got \in SUBSET (Frames \ bm) /\ t[k].bits = bm \cup t[k].got
           Bad == { k \in 0 .. n : ~ Good(k) }
<1>2. SUFFICES ASSUME Bad # {} PROVE FALSE
  <2>1. n \in 0 .. n
    OBVIOUS
  <2> QED
    BY <1>1, <1>2, <2>1
<1> DEFINE m == Lowest(Bad)
<1>3. m \in Bad /\ \A j \in Bad : m <= j
  <2>1. Bad \in SUBSET Nat
    OBVIOUS
  <2> HIDE DEF Bad
  <2> QED
    BY <1>2, <2>1, LowestProperty
<1> HIDE DEF m
<1>4. m \in 0 .. n /\ ~ Good(m)
  BY <1>3
<1>5. m # 0
  BY <1>1, <1>4 DEF NothingTaken
<1>6. m \in 1 .. n /\ m - 1 \in 0 .. n /\ m - 1 \notin Bad
  <2>1. m - 1 \in 0 .. n /\ ~ (m <= m - 1) /\ m \in 1 .. n
    BY <1>4, <1>5
  <2> HIDE DEF Bad
  <2> QED
    BY <1>3, <2>1
<1>7. Good(m - 1) /\ t[m] = Take(t[m - 1])
  BY <1>1, <1>6
<1> DEFINE r == t[m - 1]
           a == AllocFrame(r.bits, NFrames)
<1>8. /\ t[m].bits = a.bits /\ t[m].got = r.got \cup ({a.frame} \ {NULL})
  BY <1>7 DEF Take
<1>9. r.bits \in SUBSET Frames /\ r.got \in SUBSET (Frames \ bm) /\ r.bits = bm \cup r.got
  BY <1>7
<1>10. \/ a.frame = NULL /\ a.bits = r.bits
       \/ a.frame \in Frames \ r.bits /\ a.bits = r.bits \cup {a.frame}
  BY <1>9, AllocFrameProperty
<1> HIDE DEF r, a
<1>11. Good(m)
  BY <1>8, <1>9, <1>10
<1> QED
  BY <1>4, <1>11

(* From free frames without a gap, the loop obtains frames in a row until  *)
(* there is none left.                                                     *)
LEMMA TakesInRow ==
    ASSUME NEW bm \in SUBSET Frames, NEW n \in Nat, total_frames = NFrames, NULL \in bm,
           NEW first \in Frames \ bm, \A f \in Frames \ bm : first <= f,
           GapFree(Frames \ bm), Takes(bm, n).bits # Frames
    PROVE  Takes(bm, n).got = Extent(first, n)
<1>1. PICK t : /\ t[0] = NothingTaken(bm)
               /\ \A k \in 1 .. n : t[k] = Take(t[k - 1])
               /\ Takes(bm, n) = t[n]
  BY TakesUnfolds
<1>2. first \in Nat /\ Frames \subseteq Nat
  BY NFramesAssumption DEF Frames
<1> DEFINE Row(k) == /\ t[k].got = Extent(first, k) /\ t[k].bits = bm \cup t[k].got
                     /\ t[k].bits \in SUBSET Frames
           Good(k) == t[k].bits = Frames \/ Row(k)
           Bad == { k \in 0 .. n : ~ Good(k) }
<1>3. SUFFICES ASSUME Bad # {} PROVE FALSE
  <2>1. n \in 0 .. n
    OBVIOUS
  <2> QED
    BY <1>1, <1>3, <2>1
<1> DEFINE m == Lowest(Bad)
<1>4. m \in Bad /\ \A j \in Bad : m <= j
  <2>1. Bad \in SUBSET Nat
    OBVIOUS
  <2> HIDE DEF Bad
  <2> QED
    BY <1>3, <2>1, LowestProperty
<1> HIDE DEF m
<1>5. m \in 0 .. n /\ ~ Good(m)
  BY <1>4
<1>6. m # 0
  <2>1. Extent(first, 0) = {}
    BY <1>2 DEF Extent
  <2> QED
    BY <1>1, <1>5, <2>1 DEF NothingTaken
<1>7. m \in 1 .. n /\ m - 1 \in 0 .. n /\ m - 1 \notin Bad
  <2>1. m - 1 \in 0 .. n /\ ~ (m <= m - 1) /\ m \in 1 .. n
    BY <1>5, <1>6
  <2> HIDE DEF Bad
  <2> QED
    BY <1>4, <2>1
<1>8. Good(m - 1) /\ t[m] = Take(t[m - 1])
  BY <1>1, <1>7
<1> DEFINE r == t[m - 1]
           a == AllocFrame(r.bits, NFrames)
<1>9. /\ t[m].bits = a.bits /\ t[m].got = r.got \cup ({a.frame} \ {NULL})
  BY <1>8 DEF Take
<1>10. CASE r.bits = Frames
  <2>1. a.bits = Frames
    BY <1>10, AllocFrameProperty
  <2> QED
    BY <1>5, <1>9, <2>1
<1>11. CASE Row(m - 1) /\ r.bits # Frames
  <2> DEFINE next == first + m - 1
  <2>1. next \in Nat /\ Extent(first, m - 1) = first .. next - 1
        /\ Extent(first, m) = first .. next
    BY <1>2, <1>7 DEF Extent
  <2>2. /\ r.got = first .. next - 1 /\ r.bits = bm \cup (first .. next - 1)
        /\ r.bits \in SUBSET Frames /\ r.bits # Frames
    BY <1>11, <2>1
  <2>3. Extent(first, m) = (first .. next - 1) \cup {next} /\ first <= next
    BY <1>2, <1>7, <2>1
  <2> HIDE DEF next, r
  <2>4. PICK g \in Frames : g \notin r.bits
    BY <2>2
  <2>5. g \in Frames \ bm /\ g \notin first .. next - 1 /\ first <= g /\ g \in Nat
    BY <1>2, <2>2, <2>4
  <2>6. next \in first .. g
    BY <1>2, <2>1, <2>3, <2>5
  <2>7. next \in Frames \ bm
    BY <2>5, <2>6 DEF GapFree
  <2>8. next \notin r.bits
    BY <1>2, <2>1, <2>2, <2>7
  <2>9. \A f \in Frames \ r.bits : next <= f
    <3> TAKE f \in Frames \ r.bits
    <3>1. f \in Frames \ bm /\ f \notin first .. next - 1 /\ first <= f /\ f \in Nat
      BY <1>2, <2>2
    <3> QED
      BY <1>2, <2>1, <3>1
  <2>10. ClearFrames(r.bits, NFrames) = Frames \ r.bits
    BY NFramesAssumption DEF ClearFrames, Frames, test_bit
  <2>11. Lowest(Frames \ r.bits) = next
    <3>1. /\ Lowest(Frames \ r.bits) \in Frames \ r.bits
          /\ \A j \in Frames \ r.bits : Lowest(Frames \ r.bits) <= j
      BY <1>2, <2>7, <2>8, LowestProperty
    <3>2. Lowest(Frames \ r.bits) <= next /\ next <= Lowest(Frames \ r.bits)
      BY <2>7, <2>8, <2>9, <3>1
    <3>3. Lowest(Frames \ r.bits) \in Nat
      BY <1>2, <3>1
    <3> QED
      BY <2>1, <3>2, <3>3
  <2>12. a.frame = next /\ a.bits = r.bits \cup {next}
    <3>1. set_bit(r.bits, next) = r.bits \cup {next}
      BY <2>7, NFramesAssumption DEF set_bit, Frames
    <3> QED
      BY <2>7, <2>8, <2>10, <2>11, <3>1 DEF AllocFrame
  <2>13. next # NULL
    BY <2>7
  <2> HIDE DEF a
  <2>14. Row(m)
    BY <1>9, <2>1, <2>2, <2>3, <2>7, <2>12, <2>13
  <2> QED
    BY <1>5, <2>14
<1> QED
  BY <1>8, <1>10, <1>11

(* The pages of a block hold its header and its payload.                   *)
LEMMA PagesEnough ==
    ASSUME NEW size \in Nat
    PROVE  /\ Pages(size) \in Nat \ {0}
           /\ HeaderSize + size <= PageSize * Pages(size)
<1> DEFINE x == size + HeaderSize + PageSize - 1
           q == x \div PageSize
           r == x % PageSize
<1>1. /\ PageSize \in Nat \ {0} /\ HeaderSize \in Nat \ {0}
  BY PageSizeAssumption, HeaderSizeAssumption
<1>2. x \in Nat /\ x >= PageSize
  BY <1>1
<1>3. q \in Nat /\ r \in 0 .. PageSize - 1 /\ x = PageSize * q + r
  BY <1>1, <1>2
<1>4. PageSize * q \in Nat
  BY <1>1, <1>3
<1> HIDE DEF q, r
<1>5. HeaderSize + size <= PageSize * q
  BY <1>1, <1>3, <1>4
<1>6. q # 0
  <2>1. PageSize * 0 = 0
    BY <1>1
  <2> QED
    BY <1>1, <1>5, <2>1
<1> QED
  BY <1>3, <1>5, <1>6 DEF Pages, q

(* pmm_alloc_frame returns the lowest free frame.                          *)
LEMMA AllocLowest ==
    ASSUME NEW bm \in SUBSET Frames, NEW g \in Frames \ bm
    PROVE  /\ AllocFrame(bm, NFrames).frame \in Frames \ bm
           /\ AllocFrame(bm, NFrames).frame <= g
<1>1. ClearFrames(bm, NFrames) = Frames \ bm
  BY NFramesAssumption DEF ClearFrames, Frames, test_bit
<1>2. AllocFrame(bm, NFrames).frame = Lowest(Frames \ bm)
  BY <1>1 DEF AllocFrame
<1>3. Frames \ bm \in SUBSET Nat /\ Frames \ bm # {}
  BY NFramesAssumption DEF Frames
<1> QED
  BY <1>2, <1>3, LowestProperty

(* The loop of mem_alloc obtains the lowest free frames.                   *)
LEMMA TakesLowest ==
    ASSUME NEW bm \in SUBSET Frames, NEW n \in Nat, total_frames = NFrames, NULL \in bm,
           NEW f \in Takes(bm, n).got, NEW g \in Frames \ Takes(bm, n).bits
    PROVE  f <= g
<1>1. PICK t : /\ t[0] = NothingTaken(bm)
               /\ \A k \in 1 .. n : t[k] = Take(t[k - 1])
               /\ Takes(bm, n) = t[n]
  BY TakesUnfolds
<1> DEFINE Good(k) == /\ t[k].bits \in SUBSET Frames /\ NULL \in t[k].bits
                      /\ \A x \in t[k].got, y \in Frames \ t[k].bits : x <= y
           Bad == { k \in 0 .. n : ~ Good(k) }
<1>2. SUFFICES ASSUME Bad # {} PROVE FALSE
  <2>1. n \in 0 .. n
    OBVIOUS
  <2> QED
    BY <1>1, <1>2, <2>1
<1> DEFINE m == Lowest(Bad)
<1>3. m \in Bad /\ \A j \in Bad : m <= j
  <2>1. Bad \in SUBSET Nat
    OBVIOUS
  <2> HIDE DEF Bad
  <2> QED
    BY <1>2, <2>1, LowestProperty
<1> HIDE DEF m
<1>4. m \in 0 .. n /\ ~ Good(m)
  BY <1>3
<1>5. m # 0
  BY <1>1, <1>4 DEF NothingTaken
<1>6. m \in 1 .. n /\ m - 1 \in 0 .. n /\ m - 1 \notin Bad
  <2>1. m - 1 \in 0 .. n /\ ~ (m <= m - 1) /\ m \in 1 .. n
    BY <1>4, <1>5
  <2> HIDE DEF Bad
  <2> QED
    BY <1>3, <2>1
<1>7. Good(m - 1) /\ t[m] = Take(t[m - 1])
  BY <1>1, <1>6
<1> DEFINE r == t[m - 1]
           a == AllocFrame(r.bits, NFrames)
<1>8. /\ t[m].bits = a.bits /\ t[m].got = r.got \cup ({a.frame} \ {NULL})
  BY <1>7 DEF Take
<1>9. r.bits \in SUBSET Frames /\ NULL \in r.bits /\ \A x \in r.got, y \in Frames \ r.bits : x <= y
  BY <1>7
<1>10. \/ a.frame = NULL /\ a.bits = r.bits
       \/ a.frame \in Frames \ r.bits /\ a.bits = r.bits \cup {a.frame}
  BY <1>9, AllocFrameProperty
<1>11. \A y \in Frames \ r.bits : a.frame <= y
  BY <1>9, AllocLowest
<1> HIDE DEF r, a
<1>12. Good(m)
  BY <1>8, <1>9, <1>10, <1>11
<1> QED
  BY <1>4, <1>12

-----------------------------------------------------------------------------
(* The pages of a memory map                                               *)

PagesOf(m, i) == IF m[i].type = EFI_CONVENTIONAL_MEMORY THEN m[i].pages ELSE 0

Running(t, m, n) == t = [i \in 0 .. n |-> IF i = 0 THEN 0 ELSE t[i - 1] + PagesOf(m, i)]

(* The loop of mem_init runs over any memory map.                          *)
LEMMA RunningTotal ==
    ASSUME NEW m, NEW n \in Nat
    PROVE  \E t : Running(t, m, n)
<1> DEFINE Bad == { j \in 0 .. n : ~ \E t : Running(t, m, j) }
<1>1. SUFFICES ASSUME Bad # {} PROVE FALSE
  <2>1. n \notin Bad /\ n \in 0 .. n
    BY <1>1
  <2> QED
    BY <2>1
<1> DEFINE j == Lowest(Bad)
<1>2. j \in Bad /\ \A i \in Bad : j <= i
  <2>1. Bad \in SUBSET Nat
    OBVIOUS
  <2> HIDE DEF Bad
  <2> QED
    BY <1>1, <2>1, LowestProperty
<1> HIDE DEF j
<1>3. j \in 0 .. n /\ ~ \E t : Running(t, m, j)
  BY <1>2
<1>4. j # 0
  <2> SUFFICES ASSUME j = 0 PROVE FALSE
    OBVIOUS
  <2> DEFINE t == [k \in 0 .. 0 |-> 0]
  <2>1. Running(t, m, 0)
    BY DEF Running
  <2> HIDE DEF t
  <2> QED
    BY <1>3, <2>1
<1>5. j - 1 \in 0 .. n /\ j - 1 \notin Bad
  <2>1. j - 1 \in 0 .. n /\ ~ (j <= j - 1)
    BY <1>3, <1>4
  <2> HIDE DEF Bad
  <2> QED
    BY <1>2, <2>1
<1>6. PICK t : Running(t, m, j - 1)
  BY <1>5
<1> DEFINE next == t[j - 1] + PagesOf(m, j)
           u == [k \in 0 .. j |-> IF k = j THEN next ELSE t[k]]
           F(x) == IF x = 0 THEN 0 ELSE t[x - 1] + PagesOf(m, x)
           G(x) == IF x = 0 THEN 0 ELSE u[x - 1] + PagesOf(m, x)
<1>7. ASSUME NEW k \in 0 .. j PROVE u[k] = G(k)
  <2>1. CASE k = j
    <3>1. u[k - 1] = t[j - 1] /\ k # 0 /\ u[k] = next
      BY <1>3, <1>4, <2>1
    <3> QED
      BY <2>1, <3>1
  <2>2. CASE k # j
    <3>1. k \in 0 .. j - 1 /\ u[k] = t[k] /\ (k # 0 => u[k - 1] = t[k - 1])
      BY <1>3, <2>2
    <3>2. t[k] = F(k)
      <4>1. t = [x \in 0 .. j - 1 |-> F(x)]
        BY <1>6 DEF Running
      <4> HIDE DEF F
      <4> QED
        BY <3>1, <4>1
    <3> QED
      BY <3>1, <3>2
  <2> QED
    BY <2>1, <2>2
<1>8. Running(u, m, j)
  <2>1. u = [k \in 0 .. j |-> u[k]]
    OBVIOUS
  <2> HIDE DEF u, G
  <2>2. u = [k \in 0 .. j |-> G(k)]
    BY <1>7, <2>1
  <2> QED
    BY <2>2 DEF G, Running
<1> HIDE DEF u
<1> QED
  BY <1>3, <1>8

(* The conventional frames among the first i descriptors.                  *)
CoveredBy(m, i) ==
    UNION { m[j].start .. (m[j].start + m[j].pages - 1) :
                j \in { x \in 1 .. i : m[x].type = EFI_CONVENTIONAL_MEMORY } }

(* total_ram_bytes is a number of pages, and no fewer than there are       *)
(* conventional frames: a frame counts once for every descriptor it is in. *)
LEMMA PagesCounted ==
    ASSUME NEW m \in MMaps
    PROVE  /\ ConventionalPages(m) \in Nat
           /\ IsFiniteSet(ConventionalFrames(m))
           /\ Cardinality(ConventionalFrames(m)) <= ConventionalPages(m)
<1> DEFINE t == CHOOSE x : Running(x, m, Len(m))
<1>1. m \in Seq(Descriptor) /\ Len(m) \in Nat
  BY MMapsAssumption
<1>2. Running(t, m, Len(m))
  BY <1>1, RunningTotal
<1>3. ConventionalPages(m) = t[Len(m)]
  BY DEF ConventionalPages, Running, PagesOf
<1> HIDE DEF t
<1> DEFINE F(x) == IF x = 0 THEN 0 ELSE t[x - 1] + PagesOf(m, x)
<1>4. \A i \in 0 .. Len(m) : t[i] = F(i)
  <2>1. t = [x \in 0 .. Len(m) |-> F(x)]
    BY <1>2 DEF Running
  <2> HIDE DEF F
  <2> QED
    BY <2>1
<1> DEFINE C(i) == CoveredBy(m, i)
           Good(i) == t[i] \in Nat /\ IsFiniteSet(C(i)) /\ Cardinality(C(i)) <= t[i]
           Bad == { i \in 0 .. Len(m) : ~ Good(i) }
<1>5. ConventionalFrames(m) = C(Len(m))
  BY <1>1 DEF ConventionalFrames, CoveredBy
<1>6. SUFFICES ASSUME Bad # {} PROVE FALSE
  <2>1. Len(m) \in 0 .. Len(m)
    BY <1>1
  <2>2. Good(Len(m))
    BY <1>6, <2>1
  <2> QED
    BY <1>3, <1>5, <2>2
<1> DEFINE k == Lowest(Bad)
<1>7. k \in Bad /\ \A j \in Bad : k <= j
  <2>1. Bad \in SUBSET Nat
    BY <1>1
  <2> HIDE DEF Bad
  <2> QED
    BY <1>6, <2>1, LowestProperty
<1> HIDE DEF k
<1>8. k \in 0 .. Len(m) /\ ~ Good(k)
  BY <1>7
<1>9. k # 0
  <2> SUFFICES ASSUME k = 0 PROVE FALSE
    OBVIOUS
  <2>1. C(0) = {}
    BY DEF CoveredBy
  <2>2. t[0] = 0
    BY <1>1, <1>4
  <2> HIDE DEF C
  <2>3. Good(0)
    BY <2>1, <2>2, FS_EmptySet
  <2> QED
    BY <1>8, <2>3
<1>10. k \in 1 .. Len(m) /\ k - 1 \in 0 .. Len(m) /\ Good(k - 1)
  <2>1. k - 1 \in 0 .. Len(m) /\ ~ (k <= k - 1) /\ k \in 1 .. Len(m)
    BY <1>1, <1>8, <1>9
  <2>2. k - 1 \notin Bad
    <3> HIDE DEF Bad
    <3> QED
      BY <1>7, <2>1
  <2> QED
    BY <2>1, <2>2
<1>11. t[k] = t[k - 1] + PagesOf(m, k)
  BY <1>4, <1>10
<1>12. m[k] \in Descriptor
  BY <1>1, <1>10
<1>13. m[k].start \in Nat /\ m[k].pages \in Nat
  BY <1>12 DEF Descriptor
<1>14. CASE m[k].type = EFI_CONVENTIONAL_MEMORY
  <2> DEFINE run == m[k].start .. (m[k].start + m[k].pages - 1)
  <2>1. C(k) = C(k - 1) \cup run
    <3>1. \A x \in Int : x \in 1 .. k <=> x \in 1 .. k - 1 \/ x = k
      BY <1>1, <1>10
    <3>2. { x \in 1 .. k : m[x].type = EFI_CONVENTIONAL_MEMORY }
            = { x \in 1 .. k - 1 : m[x].type = EFI_CONVENTIONAL_MEMORY } \cup {k}
      BY <1>10, <1>14, <3>1
    <3> QED
      BY <3>2 DEF CoveredBy
  <2>2. IsFiniteSet(run) /\ Cardinality(run) = m[k].pages
    <3> DEFINE a == m[k].start
               b == m[k].start + m[k].pages - 1
    <3>1. a \in Int /\ b \in Int /\ (IF a > b THEN 0 ELSE b - a + 1) = m[k].pages
      BY <1>13
    <3>2. run = a .. b
      OBVIOUS
    <3> HIDE DEF run, a, b
    <3> QED
      BY <3>1, <3>2, FS_Interval
  <2> HIDE DEF C, run
  <2>3. /\ IsFiniteSet(C(k)) /\ Cardinality(C(k - 1) \cap run) \in Nat
        /\ Cardinality(C(k)) = Cardinality(C(k - 1)) + Cardinality(run)
                               - Cardinality(C(k - 1) \cap run)
    <3>1. IsFiniteSet(C(k - 1))
      BY <1>10
    <3>2. IsFiniteSet(C(k - 1) \cap run)
      BY <3>1, FS_Subset
    <3> QED
      BY <2>1, <2>2, <3>1, <3>2, FS_Union, FS_CardinalityType
  <2>4. Cardinality(C(k - 1)) \in Nat /\ Cardinality(C(k)) \in Nat
    BY <1>10, <2>3, FS_CardinalityType
  <2>5. PagesOf(m, k) = m[k].pages
    BY <1>14 DEF PagesOf
  <2>6. Good(k)
    BY <1>10, <1>11, <1>13, <2>2, <2>3, <2>4, <2>5
  <2> QED
    BY <1>8, <2>6
<1>15. CASE m[k].type # EFI_CONVENTIONAL_MEMORY
  <2>1. C(k) = C(k - 1)
    <3>1. \A x \in Int : x \in 1 .. k <=> x \in 1 .. k - 1 \/ x = k
      BY <1>1, <1>10
    <3>2. { x \in 1 .. k : m[x].type = EFI_CONVENTIONAL_MEMORY }
            = { x \in 1 .. k - 1 : m[x].type = EFI_CONVENTIONAL_MEMORY }
      BY <1>15, <3>1
    <3> QED
      BY <3>2 DEF CoveredBy
  <2>2. t[k] = t[k - 1]
    BY <1>10, <1>11, <1>15 DEF PagesOf
  <2> HIDE DEF C
  <2> QED
    BY <1>8, <1>10, <2>1, <2>2
<1> QED
  BY <1>14, <1>15

-----------------------------------------------------------------------------
(* The inductive invariant                                                 *)

(* Frame 0 is never given out: its address is NULL.                        *)
NullReserved ==
    /\ total_frames # 0 => NULL \in pmm_bitmap
    /\ NULL \notin held
    /\ \A b \in blocks : b.base # NULL

(* Before mem_init nothing has been obtained.                              *)
BeforeInit == total_frames = 0 => held = {} /\ blocks = {} /\ intact

RamCounted == total_frames # 0 => total_ram = ConventionalPages(mmap)

(* A block that got consecutive frames has its size in its header.         *)
BlocksOwned ==
    intact =>
        \A b \in blocks :
            /\ header[b.base] = Pages(b.size)
            /\ b.got = Extent(b.base, Pages(b.size))
            /\ b.got \cap held = {}
            /\ \A c \in blocks \ {b} : b.got \cap c.got = {}

(* Blocks and single frames together are the usable memory that is not     *)
(* free.                                                                   *)
FramesCounted ==
    intact /\ total_frames # 0 =>
        /\ held \cup Taken \subseteq Usable(mmap)
        /\ Frames \ pmm_bitmap = Usable(mmap) \ (held \cup Taken)

(* Until something is freed, the free frames are the highest ones.         *)
HighestFree ==
    fresh /\ total_frames # 0 =>
        /\ Frames \ pmm_bitmap \subseteq Usable(mmap)
        /\ \A f \in Frames \ pmm_bitmap, g \in Usable(mmap) : f <= g => g \notin pmm_bitmap

HeapInv ==
    /\ HeapTypeOK /\ NullReserved /\ BeforeInit /\ RamCounted
    /\ BlocksOwned /\ FramesCounted /\ HighestFree /\ ScatterCauses

(* The initial state, before mem_init.                                     *)
LEMMA HeapInitInv == HeapInit => HeapInv
<1> SUFFICES ASSUME HeapInit PROVE HeapInv
  OBVIOUS
<1>1. PmmTypeOK /\ PmmInit
  BY PmmInitInv DEF HeapInit, PmmInv
<1>2. header \in [Frames -> Nat]
  BY DEF HeapInit
<1>3. HeapTypeOK
  BY <1>1, <1>2 DEF HeapInit, HeapTypeOK
<1>4. NullReserved /\ BeforeInit /\ RamCounted
  BY <1>1 DEF HeapInit, PmmInit, NullReserved, BeforeInit, RamCounted
<1>5. BlocksOwned /\ FramesCounted /\ HighestFree /\ ScatterCauses
  BY <1>1 DEF HeapInit, PmmInit, BlocksOwned, FramesCounted, HighestFree, ScatterCauses
<1> QED
  BY <1>3, <1>4, <1>5 DEF HeapInv

(* A block has at least one page, so its header is in a frame of its own.  *)
LEMMA BaseOwned ==
    ASSUME HeapInv, intact, NEW b \in blocks
    PROVE  b.base \in b.got /\ b.got \subseteq Frames /\ b.got \subseteq Taken
<1>1. b.base \in Frames /\ b.size \in Nat /\ b.got \subseteq Frames
  BY SizesAssumption DEF HeapInv, HeapTypeOK
<1>2. b.got = Extent(b.base, Pages(b.size)) /\ Pages(b.size) \in Nat \ {0}
  BY <1>1, PagesEnough DEF HeapInv, BlocksOwned
<1>3. b.base \in Nat
  BY <1>1, NFramesAssumption DEF Frames
<1>4. b.base \in Extent(b.base, Pages(b.size))
  BY <1>2, <1>3 DEF Extent
<1> QED
  BY <1>1, <1>2, <1>4 DEF Taken

(* mem_init clears the usable frames in the bitmap.                        *)
LEMMA MemInitInv == HeapInv /\ mem_init => HeapInv'
<1> SUFFICES ASSUME HeapInv, mem_init PROVE HeapInv'
  OBVIOUS
<1>1. /\ total_frames = 0 /\ total_frames' = NFrames /\ pmm_bitmap' = InitialBitmap(mmap)
      /\ UNCHANGED <<mmap, held, header, blocks, intact, fresh>>
      /\ total_ram' = ConventionalPages(mmap)
  BY DEF mem_init, pmm_init
<1>2. /\ HeapTypeOK /\ PmmTypeOK /\ BeforeInit /\ NullReserved
  BY DEF HeapInv, HeapTypeOK
<1>3. held = {} /\ blocks = {} /\ intact /\ mmap \in MMaps
  BY <1>1, <1>2 DEF BeforeInit, PmmTypeOK
<1>4. /\ Frames \ pmm_bitmap' = Usable(mmap) /\ NULL \notin Usable(mmap)
      /\ Usable(mmap) \subseteq Frames
  BY <1>1, <1>3, UsableProperty
<1>5. pmm_bitmap' \subseteq Frames
  BY <1>1, NFramesAssumption DEF InitialBitmap, Frames
<1>6. total_ram' \in Nat
  BY <1>1, <1>3, PagesCounted
<1>7. HeapTypeOK'
  BY <1>1, <1>2, <1>5, <1>6 DEF HeapTypeOK, PmmTypeOK
<1>8. NullReserved'
  <2>1. NFrames # 0 => NULL \in Frames
    BY NFramesAssumption DEF Frames, NULL
  <2> QED
    BY <1>1, <1>2, <1>4, <2>1 DEF NullReserved
<1>9. BeforeInit' /\ RamCounted' /\ BlocksOwned' /\ ScatterCauses'
  BY <1>1, <1>3 DEF BeforeInit, RamCounted, BlocksOwned, ScatterCauses
<1>10. FramesCounted' /\ HighestFree'
  BY <1>1, <1>3, <1>4 DEF FramesCounted, HighestFree, Taken
<1> QED
  BY <1>7, <1>8, <1>9, <1>10 DEF HeapInv

(* mem_alloc takes frames that were free and writes the header of no other *)
(* block.                                                                  *)
LEMMA MemAllocInv ==
    ASSUME HeapInv, NEW size \in Sizes, mem_alloc(size)
    PROVE  HeapInv'
<1> DEFINE n == Pages(size)
           first == AllocFrame(pmm_bitmap, total_frames).frame
           all == Takes(pmm_bitmap, n)
           new == [base |-> first, size |-> size, got |-> all.got]
<1>1. /\ total_frames # 0 /\ first # NULL
      /\ header' = [header EXCEPT ![first] = n]
      /\ pmm_bitmap' = all.bits
      /\ blocks' = blocks \cup {new}
      /\ intact' = (intact /\ all.got = Extent(first, n))
      /\ UNCHANGED <<mmap, total_frames, held, total_ram, fresh>>
  BY DEF mem_alloc
<1>2. /\ HeapTypeOK /\ PmmTypeOK /\ NullReserved /\ BeforeInit /\ RamCounted
      /\ BlocksOwned /\ FramesCounted /\ HighestFree /\ ScatterCauses
  BY DEF HeapInv, HeapTypeOK
<1>3. /\ total_frames = NFrames /\ pmm_bitmap \in SUBSET Frames /\ NULL \in pmm_bitmap
      /\ mmap \in MMaps /\ n \in Nat \ {0}
  BY <1>1, <1>2, PagesEnough, SizesAssumption DEF PmmTypeOK, NullReserved
<1>4. /\ first \in Frames \ pmm_bitmap /\ \A g \in Frames \ pmm_bitmap : first <= g
  BY <1>1, <1>3, AllocFrameProperty, AllocLowest
<1>5. /\ all.got \in SUBSET (Frames \ pmm_bitmap) /\ pmm_bitmap' = pmm_bitmap \cup all.got
  BY <1>1, <1>3, TakesProperty
<1>6. /\ new.base = first /\ new.size = size /\ new.got = all.got
  OBVIOUS
<1>7. Taken' = Taken \cup all.got
  BY <1>1, <1>6 DEF Taken
<1>8. first \in Nat /\ Frames \subseteq Nat
  BY <1>4, NFramesAssumption DEF Frames
<1> HIDE DEF first, all, new, n
<1>9. HeapTypeOK'
  <2>1. header' \in [Frames -> Nat]
    BY <1>1, <1>2, <1>3 DEF HeapTypeOK
  <2>2. \A b \in blocks' : b.base \in Frames /\ b.size \in Sizes /\ b.got \subseteq Frames
    BY <1>1, <1>2, <1>4, <1>5, <1>6 DEF HeapTypeOK
  <2>3. PmmTypeOK'
    BY <1>1, <1>2, <1>5 DEF PmmTypeOK
  <2>4. intact' \in BOOLEAN /\ fresh' \in BOOLEAN /\ total_ram' \in Nat
    BY <1>1, <1>2 DEF HeapTypeOK
  <2> QED
    BY <2>1, <2>2, <2>3, <2>4 DEF HeapTypeOK
<1>10. NullReserved' /\ BeforeInit' /\ RamCounted'
  BY <1>1, <1>2, <1>5, <1>6 DEF NullReserved, BeforeInit, RamCounted
<1>11. BlocksOwned'
  <2> SUFFICES ASSUME intact' PROVE BlocksOwned'
    BY DEF BlocksOwned
  <2>1. intact /\ all.got = Extent(first, n)
    BY <1>1
  <2>2. all.got \cap (held \cup Taken) = {}
    BY <1>1, <1>2, <1>5, <2>1 DEF FramesCounted
  <2>3. ASSUME NEW b \in blocks
        PROVE  /\ b.base # first /\ header'[b.base] = header[b.base]
               /\ b.got \cap all.got = {} /\ b # new
    <3>1. b.base \in b.got /\ b.got \subseteq Taken /\ b.base \in Frames
      BY <2>1, BaseOwned, <1>2 DEF HeapTypeOK
    <3>2. first \notin Taken
      BY <1>1, <1>2, <1>4, <2>1 DEF FramesCounted
    <3>3. b.base # first
      BY <3>1, <3>2
    <3> QED
      BY <1>1, <1>2, <1>6, <2>2, <3>1, <3>3 DEF HeapTypeOK
  <2>4. header'[first] = n
    BY <1>1, <1>2, <1>4 DEF HeapTypeOK
  <2>5. ASSUME NEW b \in blocks'
        PROVE  /\ header'[b.base] = Pages(b.size)
               /\ b.got = Extent(b.base, Pages(b.size))
               /\ b.got \cap held = {}
               /\ \A c \in blocks' \ {b} : b.got \cap c.got = {}
    <3>1. CASE b = new
      BY <1>1, <1>6, <2>1, <2>2, <2>3, <2>4, <3>1 DEF n
    <3>2. CASE b \in blocks
      <4>1. /\ header[b.base] = Pages(b.size) /\ b.got = Extent(b.base, Pages(b.size))
            /\ b.got \cap held = {} /\ \A c \in blocks \ {b} : b.got \cap c.got = {}
        BY <1>2, <2>1, <3>2 DEF BlocksOwned
      <4> QED
        BY <1>1, <1>6, <2>3, <3>2, <4>1
    <3> QED
      BY <1>1, <3>1, <3>2
  <2> QED
    BY <1>1, <2>5 DEF BlocksOwned
<1>12. FramesCounted'
  <2> SUFFICES ASSUME intact' PROVE FramesCounted'
    BY DEF FramesCounted
  <2>1. intact
    BY <1>1
  <2> QED
    BY <1>1, <1>2, <1>5, <1>7, <2>1 DEF FramesCounted
<1>13. HighestFree'
  <2>1. fresh => Frames \ pmm_bitmap' \subseteq Usable(mmap)
    BY <1>1, <1>2, <1>5 DEF HighestFree
  <2> SUFFICES ASSUME fresh, NEW f \in Frames \ pmm_bitmap', NEW g \in Usable(mmap), f <= g
               PROVE  g \notin pmm_bitmap'
    BY <1>1, <2>1 DEF HighestFree
  <2>2. f \in Frames \ pmm_bitmap /\ g \notin pmm_bitmap
    BY <1>1, <1>2, <1>5 DEF HighestFree
  <2>3. ASSUME g \in all.got PROVE FALSE
    <3>1. g <= f
      BY <1>1, <1>3, <2>3, TakesLowest DEF all
    <3>2. f = g
      <4>1. f \in Nat /\ g \in Nat
        BY <1>5, <1>8, <2>2, <2>3
      <4> QED
        BY <3>1, <4>1
    <3> QED
      BY <1>5, <2>3, <3>2
  <2> QED
    BY <1>5, <2>2, <2>3
<1>14. ScatterCauses'
  <2> SUFFICES ASSUME fresh, GapFree(Usable(mmap)), ClearFrames(pmm_bitmap', NFrames) # {}
               PROVE  intact'
    BY <1>1, <1>3 DEF ScatterCauses
  <2>1. \A bm : ClearFrames(bm, NFrames) = Frames \ bm
    BY NFramesAssumption DEF ClearFrames, Frames, test_bit
  <2>2. pmm_bitmap' # Frames /\ Frames \ pmm_bitmap # {}
    BY <1>5, <2>1
  <2>3. intact
    BY <1>2, <1>3, <2>1, <2>2 DEF ScatterCauses
  <2>4. Frames \ pmm_bitmap \subseteq Usable(mmap) /\ Usable(mmap) \subseteq Frames
    BY <1>1, <1>2, <1>3, UsableProperty DEF HighestFree
  <2>5. GapFree(Frames \ pmm_bitmap)
    <3> SUFFICES ASSUME NEW f \in Frames \ pmm_bitmap, NEW g \in Frames \ pmm_bitmap,
                        NEW x \in f .. g
                 PROVE  x \in Frames \ pmm_bitmap
      BY DEF GapFree
    <3>1. x \in Usable(mmap)
      BY <2>4 DEF GapFree
    <3>2. f <= x
      BY <1>8
    <3> QED
      BY <1>1, <1>2, <2>4, <3>1, <3>2 DEF HighestFree
  <2>6. all.got = Extent(first, n)
    BY <1>1, <1>3, <1>4, <2>2, <2>5, TakesInRow DEF all
  <2> QED
    BY <1>1, <2>3, <2>6
<1> QED
  BY <1>9, <1>10, <1>11, <1>12, <1>13, <1>14 DEF HeapInv

(* mem_free gives back the frames of one block, if they are in a row.      *)
LEMMA MemFreeInv ==
    ASSUME HeapInv, NEW b \in blocks, mem_free(b)
    PROVE  HeapInv'
<1>1. /\ pmm_bitmap' = { f \in pmm_bitmap : f \notin Extent(b.base, header[b.base]) }
      /\ blocks' = blocks \ {b}
      /\ fresh' = FALSE
      /\ UNCHANGED <<mmap, total_frames, held, total_ram, header, intact>>
  BY DEF mem_free
<1>2. /\ HeapTypeOK /\ PmmTypeOK /\ NullReserved /\ BeforeInit /\ RamCounted
      /\ BlocksOwned /\ FramesCounted
  BY DEF HeapInv, HeapTypeOK
<1>3. b.base \in Nat /\ b.base # NULL
  BY <1>2, NFramesAssumption DEF HeapTypeOK, NullReserved, Frames
<1>4. HeapTypeOK'
  <2>1. PmmTypeOK'
    BY <1>1, <1>2 DEF PmmTypeOK
  <2> QED
    BY <1>1, <1>2, <2>1 DEF HeapTypeOK
<1>5. NullReserved' /\ BeforeInit' /\ RamCounted'
  <2>1. header[b.base] \in Nat
    BY <1>2 DEF HeapTypeOK
  <2>2. NULL \notin Extent(b.base, header[b.base])
    BY <1>3, <2>1 DEF Extent, NULL
  <2>3. NullReserved'
    BY <1>1, <1>2, <2>2 DEF NullReserved
  <2> QED
    BY <1>1, <1>2, <2>3 DEF BeforeInit, RamCounted
<1>6. BlocksOwned'
  BY <1>1, <1>2 DEF BlocksOwned
<1>7. FramesCounted'
  <2> SUFFICES ASSUME intact, total_frames # 0 PROVE FramesCounted'
    BY <1>1 DEF FramesCounted
  <2>1. pmm_bitmap' = pmm_bitmap \ b.got
    BY <1>1, <1>2 DEF BlocksOwned
  <2>2. b.got \subseteq Frames /\ b.got \subseteq Taken
    BY BaseOwned
  <2>3. Taken' = Taken \ b.got
    <3>1. \A c \in blocks \ {b} : c.got \cap b.got = {}
      BY <1>2 DEF BlocksOwned
    <3> QED
      BY <1>1, <3>1 DEF Taken
  <2>4. b.got \cap held = {}
    BY <1>2 DEF BlocksOwned
  <2> QED
    BY <1>1, <1>2, <2>1, <2>2, <2>3, <2>4 DEF FramesCounted
<1>8. HighestFree' /\ ScatterCauses'
  BY <1>1 DEF HighestFree, ScatterCauses
<1> QED
  BY <1>4, <1>5, <1>6, <1>7, <1>8 DEF HeapInv

(* A client that fills its block reaches no header, its own included.      *)
LEMMA FillInv ==
    ASSUME HeapInv, NEW b \in blocks, fill(b)
    PROVE  HeapInv'
<1>1. /\ header' = [f \in Frames |-> IF f \in Extent(b.base, Pages(b.size)) \ {b.base}
                                     THEN Junk ELSE header[f]]
      /\ UNCHANGED <<mmap, pmm_bitmap, total_frames, held, total_ram, blocks, intact, fresh>>
  BY DEF fill, pmm_vars
<1>2. /\ HeapTypeOK /\ PmmTypeOK /\ NullReserved /\ BeforeInit /\ RamCounted
      /\ BlocksOwned /\ FramesCounted /\ HighestFree /\ ScatterCauses
  BY DEF HeapInv, HeapTypeOK
<1>3. HeapTypeOK'
  <2>1. header' \in [Frames -> Nat]
    BY <1>1, <1>2, JunkAssumption DEF HeapTypeOK
  <2> QED
    BY <1>1, <1>2, <2>1 DEF HeapTypeOK, PmmTypeOK
<1>4. BlocksOwned'
  <2> SUFFICES ASSUME intact, NEW c \in blocks
               PROVE  header'[c.base] = header[c.base]
    BY <1>1, <1>2 DEF BlocksOwned
  <2>1. c.base \in c.got /\ c.base \in Frames
    BY <1>2, BaseOwned DEF HeapTypeOK
  <2>2. b.got = Extent(b.base, Pages(b.size)) /\ (c # b => b.got \cap c.got = {})
    BY <1>2 DEF BlocksOwned
  <2>3. c.base \notin Extent(b.base, Pages(b.size)) \ {b.base}
    BY <2>1, <2>2
  <2> QED
    BY <1>1, <2>1, <2>3
<1>5. NullReserved' /\ BeforeInit' /\ RamCounted'
  BY <1>1, <1>2 DEF NullReserved, BeforeInit, RamCounted
<1>6. FramesCounted' /\ HighestFree' /\ ScatterCauses'
  BY <1>1, <1>2 DEF FramesCounted, HighestFree, ScatterCauses, Taken
<1> QED
  BY <1>3, <1>4, <1>5, <1>6 DEF HeapInv

(* Another client takes a frame that was free ...                          *)
LEMMA FrameTakenInv ==
    ASSUME HeapInv, pmm_alloc_frame, UNCHANGED heap_vars
    PROVE  HeapInv'
<1> DEFINE a == AllocFrame(pmm_bitmap, NFrames)
<1>1. /\ HeapTypeOK /\ PmmTypeOK /\ NullReserved /\ BeforeInit /\ RamCounted
      /\ BlocksOwned /\ FramesCounted /\ HighestFree /\ ScatterCauses
  BY DEF HeapInv, HeapTypeOK
<1>2. total_frames = NFrames /\ total_frames # 0 /\ pmm_bitmap \in SUBSET Frames
      /\ held \subseteq Frames /\ NULL \in pmm_bitmap
  BY <1>1 DEF pmm_alloc_frame, PmmTypeOK, NullReserved
<1>3. /\ pmm_bitmap' = a.bits
      /\ held' = IF a.frame = NULL THEN held ELSE held \cup {a.frame}
      /\ UNCHANGED <<mmap, total_frames, total_ram, header, blocks, intact, fresh>>
  BY <1>2 DEF pmm_alloc_frame, heap_vars
<1>4. \/ Frames \subseteq pmm_bitmap /\ a.frame = NULL /\ a.bits = pmm_bitmap
      \/ a.frame \in Frames \ pmm_bitmap /\ a.bits = pmm_bitmap \cup {a.frame}
  BY <1>2, AllocFrameProperty
<1>5. \A g \in Frames \ pmm_bitmap : a.frame <= g
  BY <1>2, AllocLowest
<1> HIDE DEF a
<1>6. CASE a.frame = NULL
  <2>1. UNCHANGED <<mmap, pmm_bitmap, total_frames, held, total_ram, header, blocks, intact, fresh>>
    BY <1>2, <1>3, <1>4, <1>6
  <2>2. HeapTypeOK' /\ NullReserved' /\ BeforeInit' /\ RamCounted' /\ BlocksOwned'
    BY <1>1, <2>1 DEF HeapTypeOK, PmmTypeOK, NullReserved, BeforeInit, RamCounted, BlocksOwned
  <2>3. FramesCounted' /\ HighestFree' /\ ScatterCauses'
    BY <1>1, <2>1 DEF FramesCounted, HighestFree, ScatterCauses, Taken
  <2> QED
    BY <2>2, <2>3 DEF HeapInv
<1>7. CASE a.frame # NULL
  <2>1. /\ a.frame \in Frames \ pmm_bitmap /\ pmm_bitmap' = pmm_bitmap \cup {a.frame}
        /\ held' = held \cup {a.frame}
    BY <1>3, <1>4, <1>7
  <2>2. HeapTypeOK'
    BY <1>1, <1>3, <2>1 DEF HeapTypeOK, PmmTypeOK
  <2>3. NullReserved' /\ BeforeInit' /\ RamCounted'
    BY <1>1, <1>2, <1>3, <1>7, <2>1 DEF NullReserved, BeforeInit, RamCounted
  <2>4. intact => a.frame \notin Taken
    BY <1>1, <1>2, <2>1 DEF FramesCounted
  <2>5. BlocksOwned'
    <3>1. ASSUME intact, NEW b \in blocks PROVE b.got \cap held' = {}
      <4>1. b.got \cap held = {} /\ b.got \subseteq Taken
        BY <1>1, <3>1 DEF BlocksOwned, Taken
      <4> QED
        BY <2>1, <2>4, <3>1, <4>1
    <3> QED
      BY <1>1, <1>3, <3>1 DEF BlocksOwned
  <2>6. FramesCounted'
    BY <1>1, <1>2, <1>3, <2>1 DEF FramesCounted, Taken
  <2>7. HighestFree'
    <3>1. fresh => Frames \ pmm_bitmap' \subseteq Usable(mmap)
      BY <1>1, <1>2, <2>1 DEF HighestFree
    <3>2. ASSUME fresh, NEW f \in Frames \ pmm_bitmap', NEW g \in Usable(mmap), f <= g
          PROVE  g \notin pmm_bitmap'
      <4>1. f \in Frames \ pmm_bitmap /\ f # a.frame /\ a.frame <= f
        BY <1>5, <2>1, <3>2
      <4>2. g \notin pmm_bitmap
        BY <1>1, <1>2, <3>2, <4>1 DEF HighestFree
      <4>3. f \in Nat /\ a.frame \in Nat
        BY <2>1, <4>1, NFramesAssumption DEF Frames
      <4> QED
        BY <2>1, <3>2, <4>1, <4>2, <4>3
    <3> QED
      BY <1>3, <3>1, <3>2 DEF HighestFree
  <2>8. ScatterCauses'
    <3>1. \A bm : ClearFrames(bm, NFrames) = Frames \ bm
      BY NFramesAssumption DEF ClearFrames, Frames, test_bit
    <3> QED
      BY <1>1, <1>2, <1>3, <2>1, <3>1 DEF ScatterCauses
  <2> QED
    BY <2>2, <2>3, <2>5, <2>6, <2>7, <2>8 DEF HeapInv
<1> QED
  BY <1>6, <1>7

(* ... and gives back one that no block has.                               *)
LEMMA FrameFreedInv ==
    ASSUME HeapInv, NEW f \in held, pmm_free_frame(f), fresh' = FALSE,
           UNCHANGED <<total_ram, header, blocks, intact>>
    PROVE  HeapInv'
<1>1. /\ HeapTypeOK /\ PmmTypeOK /\ NullReserved /\ BeforeInit /\ RamCounted
      /\ BlocksOwned /\ FramesCounted
  BY DEF HeapInv, HeapTypeOK
<1>2. f \in Frames /\ total_frames # 0 /\ f \in Nat
  BY <1>1, NFramesAssumption DEF PmmTypeOK, BeforeInit, Frames
<1>3. /\ pmm_bitmap' = pmm_bitmap \ {f} /\ held' = held \ {f}
      /\ mmap' = mmap /\ total_frames' = total_frames
  BY <1>2, NFramesAssumption DEF pmm_free_frame, FreeFrame, clear_bit, Frames
<1>4. HeapTypeOK' /\ NullReserved' /\ BeforeInit' /\ RamCounted' /\ BlocksOwned'
  BY <1>1, <1>3 DEF HeapTypeOK, PmmTypeOK, NullReserved, BeforeInit, RamCounted, BlocksOwned
<1>5. FramesCounted'
  <2>1. intact => f \notin Taken
    BY <1>1 DEF BlocksOwned, Taken
  <2> QED
    BY <1>1, <1>2, <1>3, <2>1 DEF FramesCounted, Taken
<1>6. HighestFree' /\ ScatterCauses'
  BY DEF HighestFree, ScatterCauses
<1> QED
  BY <1>4, <1>5, <1>6 DEF HeapInv

(* Every call of mem.c and of the clients of pmm.c.                        *)
LEMMA HeapStepInv == HeapInv /\ [HeapNext]_<<pmm_vars, heap_vars>> => HeapInv'
<1> SUFFICES ASSUME HeapInv, [HeapNext]_<<pmm_vars, heap_vars>> PROVE HeapInv'
  OBVIOUS
<1>1. CASE mem_init
  BY <1>1, MemInitInv
<1>2. ASSUME NEW size \in Sizes, mem_alloc(size) PROVE HeapInv'
  BY <1>2, MemAllocInv
<1>3. ASSUME NEW b \in blocks, mem_free(b) PROVE HeapInv'
  BY <1>3, MemFreeInv
<1>4. ASSUME NEW b \in blocks, fill(b) PROVE HeapInv'
  BY <1>4, FillInv
<1>5. CASE frame_client
  <2>1. CASE pmm_alloc_frame /\ UNCHANGED heap_vars
    BY <2>1, FrameTakenInv
  <2>2. CASE /\ \E f \in held : pmm_free_frame(f)
             /\ fresh' = FALSE
             /\ UNCHANGED <<total_ram, header, blocks, intact>>
    BY <2>2, FrameFreedInv
  <2> QED
    BY <1>5, <2>1, <2>2 DEF frame_client
<1>6. CASE UNCHANGED <<pmm_vars, heap_vars>>
  <2>1. UNCHANGED <<mmap, pmm_bitmap, total_frames, held, total_ram, header, blocks, intact, fresh>>
    BY <1>6 DEF pmm_vars, heap_vars
  <2>2. /\ HeapTypeOK' /\ NullReserved' /\ BeforeInit' /\ RamCounted' /\ BlocksOwned'
    BY <2>1 DEF HeapInv, HeapTypeOK, PmmTypeOK, NullReserved, BeforeInit, RamCounted, BlocksOwned
  <2>3. FramesCounted' /\ HighestFree' /\ ScatterCauses'
    BY <2>1 DEF HeapInv, FramesCounted, HighestFree, ScatterCauses, Taken
  <2> QED
    BY <2>2, <2>3 DEF HeapInv
<1> QED
  BY <1>1, <1>2, <1>3, <1>4, <1>5, <1>6 DEF HeapNext

(* The invariant holds in every reachable state.                           *)
LEMMA HeapInvariant == HeapSpec => []HeapInv
BY HeapInitInv, HeapStepInv, PTL DEF HeapSpec

-----------------------------------------------------------------------------
(* What the clients of the heap may rely on                                *)

(* Type correctness of mem.c's static and of what it keeps in memory.      *)
THEOREM HeapTypeCorrect == HeapSpec => []HeapTypeOK
<1>1. HeapInv => HeapTypeOK
  BY DEF HeapInv
<1> QED
  BY <1>1, HeapInvariant, PTL

(* While every block has got consecutive frames, the frames mem_free would *)
(* give back are the block's own, its payload fits in them, and nobody     *)
(* else has them: for every page size, header size and request size.       *)
THEOREM HeapBlocksSound == HeapSpec => []BlocksSound
<1>1. HeapInv => BlocksSound
  <2> SUFFICES ASSUME HeapInv, intact, NEW b \in blocks
               PROVE  /\ b.got = Extent(b.base, header[b.base])
                      /\ HeaderSize + b.size <= PageSize * Cardinality(b.got)
                      /\ b.got \cap held = {}
                      /\ \A c \in blocks \ {b} : b.got \cap c.got = {}
    BY DEF BlocksSound
  <2>1. /\ header[b.base] = Pages(b.size) /\ b.got = Extent(b.base, Pages(b.size))
        /\ b.got \cap held = {} /\ \A c \in blocks \ {b} : b.got \cap c.got = {}
    BY DEF HeapInv, BlocksOwned
  <2>2. b.base \in Nat /\ b.size \in Nat
    <3>1. b.base \in Frames /\ b.size \in Sizes
      BY DEF HeapInv, HeapTypeOK
    <3>2. Frames \subseteq Nat
      BY NFramesAssumption DEF Frames
    <3> QED
      BY <3>1, <3>2, SizesAssumption
  <2>3. Pages(b.size) \in Nat \ {0} /\ HeaderSize + b.size <= PageSize * Pages(b.size)
    BY <2>2, PagesEnough
  <2>4. Cardinality(b.got) = Pages(b.size)
    <3> DEFINE last == b.base + Pages(b.size) - 1
    <3>1. /\ b.base \in Int /\ last \in Int
          /\ (IF b.base > last THEN 0 ELSE last - b.base + 1) = Pages(b.size)
      BY <2>2, <2>3
    <3>2. b.got = b.base .. last
      BY <2>1 DEF Extent
    <3> HIDE DEF last
    <3> QED
      BY <3>1, <3>2, FS_Interval
  <2> QED
    BY <2>1, <2>3, <2>4
<1> QED
  BY <1>1, HeapInvariant, PTL

(* While every block has got consecutive frames, mem_alloc and mem_free    *)
(* lose no frame and release none that somebody uses.                      *)
THEOREM HeapFramesAccounted == HeapSpec => []HeapAccounting
<1>1. HeapInv => HeapAccounting
  BY DEF HeapInv, FramesCounted, HeapAccounting
<1> QED
  BY <1>1, HeapInvariant, PTL

(* The back buffer of the framebuffer, the kernel's only block, is one run *)
(* of frames: until something is freed, gapless memory and some frames     *)
(* left are enough for that.                                               *)
THEOREM HeapScatterCauses == HeapSpec => []ScatterCauses
<1>1. HeapInv => ScatterCauses
  BY DEF HeapInv
<1> QED
  BY <1>1, HeapInvariant, PTL

(* The used memory that sysinfo shows never wraps below zero.              *)
THEOREM HeapUsage == HeapSpec => []UsageNeverNegative
<1>1. HeapInv => UsageNeverNegative
  <2> SUFFICES ASSUME HeapInv, intact, total_frames # 0
               PROVE  pmm_get_free_frames(pmm_bitmap, total_frames) <= total_ram
    BY DEF UsageNeverNegative
  <2>1. total_frames = NFrames /\ mmap \in MMaps /\ total_ram = ConventionalPages(mmap)
    BY DEF HeapInv, HeapTypeOK, PmmTypeOK, RamCounted
  <2>2. ClearFrames(pmm_bitmap, NFrames) = Frames \ pmm_bitmap
    BY NFramesAssumption DEF ClearFrames, Frames, test_bit
  <2>3. Frames \ pmm_bitmap \subseteq ConventionalFrames(mmap)
    BY DEF HeapInv, FramesCounted, Usable
  <2>4. /\ IsFiniteSet(ConventionalFrames(mmap)) /\ ConventionalPages(mmap) \in Nat
        /\ Cardinality(ConventionalFrames(mmap)) <= ConventionalPages(mmap)
    BY <2>1, PagesCounted
  <2> DEFINE free == Cardinality(Frames \ pmm_bitmap)
             all == Cardinality(ConventionalFrames(mmap))
  <2>5. free <= all /\ free \in Nat /\ all \in Nat
    BY <2>3, <2>4, FS_Subset, FS_CardinalityType
  <2> HIDE DEF free, all
  <2>6. free <= ConventionalPages(mmap)
    BY <2>4, <2>5 DEF all
  <2> QED
    BY <2>1, <2>2, <2>6 DEF pmm_get_free_frames, free
<1> QED
  BY <1>1, HeapInvariant, PTL

=============================================================================
