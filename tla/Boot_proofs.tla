----------------------------- MODULE Boot_proofs -----------------------------
(***************************************************************************)
(* Proofs about Boot: the handover of the memory map for every length and  *)
(* every number of changes of the map, and the image of the kernel for     *)
(* every file.                                                             *)
(***************************************************************************)
EXTENDS Boot, WellFoundedInduction, NaturalsInduction, TLAPS

-----------------------------------------------------------------------------
(* Sets of numbers and the extent of the segments                          *)

(* A set of numbers that is not empty has a least one.                     *)
LEMMA MinProperty ==
    ASSUME NEW S \in SUBSET Nat, S # {}
    PROVE  Min(S) \in S /\ \A x \in S : Min(S) <= x
<1>1. PICK x \in S : \A y \in S : ~ (<<y, x>> \in OpToRel(<, Nat))
  BY WFMin, NatLessThanWellFounded
<1>2. ASSUME NEW y \in S PROVE x <= y
  <2>1. <<y, x>> \in Nat \X Nat
    OBVIOUS
  <2>2. ~ (y < x)
    BY <1>1, <2>1 DEF OpToRel
  <2> QED
    BY <2>2
<1> QED
  BY <1>2 DEF Min

(* min_vaddr is what the first loop of load_kernel finds.                  *)
LEMMA MinVaddr ==
    ASSUME NEW file \in File, Segments(file) # {}
    PROVE  /\ min_vaddr(file) \in Nat
           /\ \A i \in Segments(file) : min_vaddr(file) <= file.phdrs[i].vaddr
<1> DEFINE S == { file.phdrs[i].vaddr : i \in Segments(file) }
<1>1. \A i \in DOMAIN file.phdrs : file.phdrs[i] \in Phdr
  BY DEF File
<1>2. S \in SUBSET Nat /\ S # {}
  BY <1>1 DEF Segments, Phdr
<1>3. Min(S) \in S /\ \A x \in S : Min(S) <= x
  BY <1>2, MinProperty
<1> QED
  BY <1>2, <1>3 DEF min_vaddr

(* A set of numbers that is not empty and has a bound has a greatest one:  *)
(* the least of its bounds.                                                *)
LEMMA MaxProperty ==
    ASSUME NEW S \in SUBSET Nat, S # {}, NEW bound \in Nat, \A x \in S : x <= bound
    PROVE  Max(S) \in S /\ \A x \in S : x <= Max(S)
<1> DEFINE Bounds == { b \in Nat : \A x \in S : x <= b }
<1>1. Bounds \in SUBSET Nat /\ Bounds # {}
  OBVIOUS
<1> DEFINE m == Min(Bounds)
<1>2. m \in Bounds /\ \A b \in Bounds : m <= b
  BY <1>1, MinProperty
<1>3. m \in S
  <2>1. SUFFICES ASSUME m \notin S PROVE FALSE
    OBVIOUS
  <2>2. m \in Nat /\ \A x \in S : x \in Nat /\ x <= m
    BY <1>2
  <2> HIDE DEF m
  <2>3. \A x \in S : x < m
    BY <2>1, <2>2
  <2>4. PICK y \in S : TRUE
    OBVIOUS
  <2>5. y \in Nat /\ y < m
    BY <2>2, <2>3
  <2>6. m - 1 \in Nat
    BY <2>2, <2>5
  <2>7. ASSUME NEW x \in S PROVE x <= m - 1
    BY <2>2, <2>3
  <2> QED
    BY <1>2, <2>2, <2>6, <2>7
<1>4. \E x \in S : \A y \in S : x >= y
  BY <1>2, <1>3
<1> QED
  BY <1>4 DEF Max

(* The numbers of a finite list have a bound: of the prefixes without one  *)
(* there is no shortest.                                                   *)
LEMMA ListBounded ==
    ASSUME NEW n \in Nat, NEW f \in [1 .. n -> Nat]
    PROVE  \E b \in Nat : \A i \in 1 .. n : f[i] <= b
<1> DEFINE Unbounded == { k \in 0 .. n : \A b \in Nat : \E i \in 1 .. k : f[i] > b }
<1>1. SUFFICES ASSUME Unbounded # {} PROVE FALSE
  <2>1. n \notin Unbounded
    BY <1>1
  <2>2. PICK b \in Nat : \A i \in 1 .. n : ~ (f[i] > b)
    BY <2>1
  <2>3. ASSUME NEW i \in 1 .. n PROVE f[i] <= b
    BY <2>2
  <2> QED
    BY <2>3
<1> DEFINE k == Min(Unbounded)
<1>2. k \in Unbounded /\ \A j \in Unbounded : k <= j
  <2>1. Unbounded \in SUBSET Nat
    OBVIOUS
  <2> QED
    BY <1>1, <2>1, MinProperty
<1> HIDE DEF k
<1>3. k \in Nat /\ k # 0 /\ k <= n
  BY <1>2
<1>4. k - 1 \in 0 .. n /\ k - 1 \notin Unbounded
  <2>1. k - 1 \in 0 .. n /\ ~ (k <= k - 1)
    BY <1>3
  <2> HIDE DEF Unbounded
  <2> QED
    BY <1>2, <2>1
<1>5. PICK b \in Nat : \A i \in 1 .. k - 1 : ~ (f[i] > b)
  BY <1>4
<1>6. f[k] \in Nat /\ b + f[k] \in Nat
  BY <1>3
<1>7. \A i \in 1 .. k : ~ (f[i] > b + f[k])
  <2> TAKE i \in 1 .. k
  <2>1. f[i] \in Nat
    BY <1>3
  <2>2. CASE i = k
    BY <1>6, <2>2
  <2>3. CASE i \in 1 .. k - 1
    BY <1>5, <1>6, <2>1, <2>3
  <2> QED
    BY <1>3, <2>2, <2>3
<1> QED
  BY <1>2, <1>6, <1>7

(* max_vaddr likewise, and it is not below min_vaddr.                      *)
LEMMA MaxVaddr ==
    ASSUME NEW file \in File, Segments(file) # {}
    PROVE  /\ max_vaddr(file) \in Nat
           /\ \A i \in Segments(file) :
                 file.phdrs[i].vaddr + file.phdrs[i].memsz <= max_vaddr(file)
           /\ min_vaddr(file) <= max_vaddr(file)
<1> DEFINE End(i) == file.phdrs[i].vaddr + file.phdrs[i].memsz
           S == { End(i) : i \in Segments(file) }
           n == Len(file.phdrs)
<1>1. n \in Nat /\ DOMAIN file.phdrs = 1 .. n /\ \A i \in 1 .. n : file.phdrs[i] \in Phdr
  BY DEF File
<1>2. \A i \in 1 .. n : End(i) \in Nat
  BY <1>1 DEF Phdr
<1>3. [i \in 1 .. n |-> End(i)] \in [1 .. n -> Nat]
  BY <1>2
<1>4. PICK b \in Nat : \A i \in 1 .. n : [j \in 1 .. n |-> End(j)][i] <= b
  BY <1>1, <1>3, ListBounded
<1>5. S \in SUBSET Nat /\ S # {} /\ \A x \in S : x <= b
  BY <1>1, <1>2, <1>4 DEF Segments
<1>6. Max(S) \in S /\ \A x \in S : x <= Max(S)
  BY <1>5, MaxProperty
<1>7. max_vaddr(file) = Max(S)
  BY DEF max_vaddr
<1>8. PICK i \in Segments(file) : TRUE
  OBVIOUS
<1>9. /\ min_vaddr(file) \in Nat /\ min_vaddr(file) <= file.phdrs[i].vaddr
      /\ file.phdrs[i].vaddr \in Nat /\ file.phdrs[i].memsz \in Nat /\ End(i) \in S
  BY <1>1, MinVaddr DEF Segments, Phdr
<1>10. max_vaddr(file) \in Nat /\ \A j \in Segments(file) : End(j) <= max_vaddr(file)
  BY <1>5, <1>6, <1>7
<1>11. min_vaddr(file) <= max_vaddr(file)
  BY <1>9, <1>10
<1> QED
  BY <1>10, <1>11

(* Rounding up to whole units.                                             *)
LEMMA RoundUp ==
    ASSUME NEW n \in Nat, NEW unit \in Nat \ {0}
    PROVE  /\ (n + unit - 1) \div unit \in Nat
           /\ n <= ((n + unit - 1) \div unit) * unit
<1> DEFINE q == (n + unit - 1) \div unit
           r == (n + unit - 1) % unit
<1>1. n + unit - 1 \in Nat
  OBVIOUS
<1>2. q \in Nat /\ r \in 0 .. unit - 1 /\ n + unit - 1 = unit * q + r
  BY <1>1
<1>3. unit * q \in Nat /\ unit * q = q * unit
  BY <1>2
<1> HIDE DEF q, r
<1>4. n <= unit * q
  BY <1>2, <1>3
<1> QED
  BY <1>2, <1>3, <1>4 DEF q

(* Every segment lies in the pages that are allocated.                     *)
LEMMA SegmentAllocated ==
    ASSUME NEW file \in File, Segments(file) # {}, NEW i \in Segments(file)
    PROVE  /\ file.phdrs[i] \in Phdr /\ min_vaddr(file) \in Nat
           /\ total_pages(file) * PageSize \in Nat
           /\ min_vaddr(file) <= file.phdrs[i].vaddr
           /\ file.phdrs[i].vaddr - min_vaddr(file) + file.phdrs[i].memsz
                 <= total_pages(file) * PageSize
<1> DEFINE n == max_vaddr(file) - min_vaddr(file)
<1>1. n \in Nat /\ min_vaddr(file) \in Nat /\ max_vaddr(file) \in Nat
  BY MinVaddr, MaxVaddr
<1>2. (n + PageSize - 1) \div PageSize \in Nat /\ n <= ((n + PageSize - 1) \div PageSize) * PageSize
  BY <1>1, RoundUp, PageSizeAssumption
<1>3. total_pages(file) \in Nat /\ n <= total_pages(file) * PageSize
  BY <1>2 DEF total_pages
<1>4. file.phdrs[i] \in Phdr
  BY DEF File, Segments
<1>5. total_pages(file) * PageSize \in Nat
  BY <1>3, PageSizeAssumption
<1>6. /\ min_vaddr(file) <= file.phdrs[i].vaddr
      /\ file.phdrs[i].vaddr + file.phdrs[i].memsz <= max_vaddr(file)
  BY MinVaddr, MaxVaddr
<1>7. file.phdrs[i].vaddr - min_vaddr(file) + file.phdrs[i].memsz <= n
  BY <1>1, <1>4, <1>6 DEF Phdr
<1>8. file.phdrs[i].vaddr - min_vaddr(file) + file.phdrs[i].memsz \in Int
  BY <1>1, <1>4 DEF Phdr
<1> QED
  BY <1>1, <1>3, <1>4, <1>5, <1>6, <1>7, <1>8

-----------------------------------------------------------------------------
(* The image of the kernel                                                 *)

At(v) == v - min_vaddr(kernel_file)

(* The segments before the one to be loaded next are as they were linked.  *)
SegmentsLoaded ==
    unread = {} /\ WellFormed(kernel_file) =>
        \A i \in Segments(kernel_file) : i < next =>
            \A v \in kernel_file.phdrs[i].vaddr
                       .. kernel_file.phdrs[i].vaddr + kernel_file.phdrs[i].memsz - 1 :
                image[At(v)] = Linked(kernel_file.phdrs[i], v)

NoSpill ==
    \/ \A a \in DOMAIN image \ Allocated(kernel_file) : image[a] = Before
    \/ \E i \in Segments(kernel_file) :
          kernel_file.phdrs[i].filesz > kernel_file.phdrs[i].memsz

ImageInv ==
    /\ kernel_file \in Files
    /\ next \in Nat \ {0}
    /\ pc \in {"load_kernel", "load_segment"} \/ next \notin DOMAIN kernel_file.phdrs
       \/ pc \in {"hung", "crashed"}
    /\ pc = "load_kernel" => image = << >> /\ next = 1
    /\ pc \notin {"load_kernel", "hung", "crashed"} =>
          /\ Acceptable(kernel_file)
          /\ DOMAIN image = 0 .. total_pages(kernel_file) * PageSize + Beyond - 1
          /\ SegmentsLoaded
          /\ pc # "load_segment" => kernel_entry = At(kernel_file.entry)
    /\ image # << >> => NoSpill

(* The part of the file fits the memory of the segment.                    *)
Fits(file, i) == file.phdrs[i].filesz <= file.phdrs[i].memsz

Place(file, i) ==
    file.phdrs[i].vaddr - min_vaddr(file)
        .. file.phdrs[i].vaddr - min_vaddr(file) + file.phdrs[i].memsz - 1

SameElsewhere(mem1, mem2, file, i) ==
    \A a \in DOMAIN mem1 \cap Nat : a \notin Place(file, i) => mem2[a] = mem1[a]

(* A segment whose part of the file fits its memory changes nothing else.  *)
LEMMA LoadSegmentElsewhere ==
    ASSUME NEW file \in File, NEW i \in Segments(file), NEW mem, NEW readable, Fits(file, i)
    PROVE  SameElsewhere(mem, LoadSegment(mem, file, i, readable), file, i)
<1> SUFFICES ASSUME NEW a \in DOMAIN mem \cap Nat, a \notin Place(file, i)
             PROVE  LoadSegment(mem, file, i, readable)[a] = mem[a]
  BY DEF SameElsewhere
<1> DEFINE p == file.phdrs[i]
           dest == p.vaddr - min_vaddr(file)
           cleared == memset_local(mem, dest, p.memsz)
<1>1. p \in Phdr /\ min_vaddr(file) \in Nat
  BY SegmentAllocated
<1>2. dest \in Int /\ p.memsz \in Nat /\ p.filesz \in Nat /\ p.filesz <= p.memsz
  BY <1>1 DEF Phdr, Fits
<1> HIDE DEF p, dest
<1>3. a \notin dest .. dest + p.memsz - 1 /\ a \notin dest .. dest + p.filesz - 1
  <2>1. a \notin dest .. dest + p.memsz - 1
    BY DEF p, dest, Place
  <2> QED
    BY <2>1, <1>2
<1>4. DOMAIN cleared = DOMAIN mem /\ cleared[a] = mem[a]
  BY <1>3 DEF memset_local
<1>5. Read(cleared, file, dest, p.offset, p.filesz)[a] = cleared[a]
  BY <1>3, <1>4 DEF Read
<1>6. \/ LoadSegment(mem, file, i, readable) = Read(cleared, file, dest, p.offset, p.filesz)
      \/ LoadSegment(mem, file, i, readable) = cleared
  BY DEF LoadSegment, p, dest
<1> QED
  BY <1>4, <1>5, <1>6

(* Loading writes bytes, it makes none.                                    *)
LEMMA LoadSegmentDomain ==
    ASSUME NEW file, NEW i, NEW mem, NEW readable
    PROVE  DOMAIN LoadSegment(mem, file, i, readable) = DOMAIN mem
BY DEF LoadSegment, Read, memset_local

(* Where the byte of the address v stands in a segment at vaddr.           *)
LEMMA PlaceOfByte ==
    ASSUME NEW p \in Phdr, NEW v \in p.vaddr .. p.vaddr + p.memsz - 1,
           NEW least \in Nat, least <= p.vaddr, NEW dest, dest = p.vaddr - least,
           NEW room \in Nat, dest + p.memsz <= room,
           NEW size \in Nat, p.offset + p.filesz <= size
    PROVE  /\ v - least \in dest .. dest + p.memsz - 1
           /\ v - least \in 0 .. room + Beyond - 1
           /\ v - least \in dest .. dest + p.filesz - 1 <=> v - p.vaddr < p.filesz
           /\ v - p.vaddr < p.filesz => p.offset + ((v - least) - dest) < size
           /\ p.offset + ((v - least) - dest) = p.offset + v - p.vaddr
<1>1. /\ p.vaddr \in Nat /\ p.memsz \in Nat /\ p.filesz \in Nat /\ p.offset \in Nat
  BY DEF Phdr
<1> QED
  BY <1>1, BeyondAssumption

(* A segment that is read is in memory as it was linked.                   *)
LEMMA LoadSegmentExact ==
    ASSUME NEW file \in File, WellFormed(file), NEW i \in Segments(file), NEW mem,
           DOMAIN mem = 0 .. total_pages(file) * PageSize + Beyond - 1,
           NEW v \in file.phdrs[i].vaddr .. file.phdrs[i].vaddr + file.phdrs[i].memsz - 1
    PROVE  LoadSegment(mem, file, i, TRUE)[v - min_vaddr(file)] = Linked(file.phdrs[i], v)
<1> DEFINE p == file.phdrs[i]
           dest == p.vaddr - min_vaddr(file)
           room == total_pages(file) * PageSize
           a == v - min_vaddr(file)
           cleared == memset_local(mem, dest, p.memsz)
<1>1. /\ p \in Phdr /\ min_vaddr(file) \in Nat /\ room \in Nat
      /\ min_vaddr(file) <= p.vaddr /\ dest + p.memsz <= room
  BY SegmentAllocated
<1>2. /\ p.filesz \in Nat /\ p.memsz \in Nat /\ p.offset \in Nat /\ p.vaddr \in Nat
      /\ p.filesz <= p.memsz /\ p.offset + p.filesz <= file.size /\ file.size \in Nat
  BY <1>1 DEF WellFormed, Phdr, File
<1>3. v \in p.vaddr .. p.vaddr + p.memsz - 1
  OBVIOUS
<1>4. dest = p.vaddr - min_vaddr(file) /\ a = v - min_vaddr(file)
  OBVIOUS
<1>5. DOMAIN mem = 0 .. room + Beyond - 1
  OBVIOUS
<1> HIDE DEF p, room, a, dest
<1>6. /\ a \in dest .. dest + p.memsz - 1
      /\ a \in 0 .. room + Beyond - 1
      /\ a \in dest .. dest + p.filesz - 1 <=> v - p.vaddr < p.filesz
      /\ v - p.vaddr < p.filesz => p.offset + (a - dest) < file.size
      /\ p.offset + (a - dest) = p.offset + v - p.vaddr
  <2> DEFINE least == min_vaddr(file)
             size == file.size
  <2>1. /\ least \in Nat /\ least <= p.vaddr /\ dest = p.vaddr - least /\ a = v - least
        /\ size \in Nat /\ p.offset + p.filesz <= size /\ room \in Nat /\ p \in Phdr
        /\ dest + p.memsz <= room
    BY <1>1, <1>2, <1>4
  <2> HIDE DEF least, size
  <2>2. /\ v - least \in dest .. dest + p.memsz - 1
        /\ v - least \in 0 .. room + Beyond - 1
        /\ v - least \in dest .. dest + p.filesz - 1 <=> v - p.vaddr < p.filesz
        /\ v - p.vaddr < p.filesz => p.offset + ((v - least) - dest) < size
        /\ p.offset + ((v - least) - dest) = p.offset + v - p.vaddr
    BY <1>3, <2>1, PlaceOfByte
  <2> QED
    BY <2>1, <2>2 DEF size
<1>7. a \in DOMAIN mem
  BY <1>5, <1>6
<1>11. DOMAIN cleared = DOMAIN mem /\ cleared[a] = Zero
  BY <1>6, <1>7 DEF memset_local
<1> HIDE DEF cleared
<1>12. Read(cleared, file, dest, p.offset, p.filesz)[a] = Linked(p, v)
  BY <1>6, <1>7, <1>11 DEF Read, Linked
<1>13. LoadSegment(mem, file, i, TRUE) = Read(cleared, file, dest, p.offset, p.filesz)
  BY DEF LoadSegment, p, dest, cleared
<1> QED
  BY <1>12, <1>13 DEF p, a

(* Nothing is loaded yet.                                                  *)
LEMMA ImageInit == BootInit => ImageInv
BY DEF BootInit, ImageInv

(* One turn of the loop loads one segment more and leaves the others, and  *)
(* what is behind the pages, as they are.                                  *)
LEMMA SegmentInv ==
    ASSUME ImageInv, load_segment
    PROVE  ImageInv'
<1> DEFINE file == kernel_file
           top == total_pages(file) * PageSize
<1>1. /\ file \in File /\ file \in Files /\ kernel_file' = file
      /\ Acceptable(file) /\ Segments(file) # {}
      /\ DOMAIN image = 0 .. top + Beyond - 1 /\ next \in Nat \ {0} /\ next' = next + 1
      /\ SegmentsLoaded /\ pc = "load_segment"
  BY FilesAssumption DEF Acceptable, ImageInv, load_segment
<1>2. NoSpill
  <2>1. CASE image = << >>
    BY <2>1 DEF NoSpill
  <2>2. CASE image # << >>
    BY <2>2 DEF ImageInv
  <2> QED
    BY <2>1, <2>2
<1>3. CASE next \notin Segments(file) /\ UNCHANGED <<pc, image, unread>>
  <2>1. \A i \in Segments(file) : i < next' => i < next
    BY <1>1, <1>3 DEF Segments, File
  <2>2. SegmentsLoaded'
    BY <1>1, <1>3, <2>1 DEF SegmentsLoaded, At
  <2>3. NoSpill'
    BY <1>2, <1>1, <1>3 DEF NoSpill
  <2> QED
    BY <1>1, <1>3, <2>2, <2>3 DEF ImageInv
<1>4. ASSUME next \in Segments(file), NEW readable \in BOOLEAN,
             image' = LoadSegment(image, file, next, readable),
             unread' = IF readable THEN unread ELSE unread \cup {next},
             pc' \in {"load_segment", "crashed"}
      PROVE  ImageInv'
  <2>1. DOMAIN image' = DOMAIN image
    BY <1>4, LoadSegmentDomain
  <2>2. SegmentsLoaded'
    <3> SUFFICES ASSUME unread' = {}, WellFormed(file), NEW i \in Segments(file), i < next',
                        NEW v \in file.phdrs[i].vaddr
                                    .. file.phdrs[i].vaddr + file.phdrs[i].memsz - 1
                 PROVE  image'[At(v)] = Linked(file.phdrs[i], v)
      BY <1>1 DEF SegmentsLoaded, At
    <3>1. readable = TRUE /\ unread = {}
      BY <1>4
    <3>2. CASE i = next
      <4>1. image' = LoadSegment(image, file, next, TRUE)
        BY <1>4, <3>1
      <4>2. LoadSegment(image, file, next, TRUE)[v - min_vaddr(file)] = Linked(file.phdrs[next], v)
        <5>1. /\ file \in File /\ next \in Segments(file)
              /\ DOMAIN image = 0 .. total_pages(file) * PageSize + Beyond - 1
              /\ v \in file.phdrs[next].vaddr
                         .. file.phdrs[next].vaddr + file.phdrs[next].memsz - 1
          BY <1>1, <1>4, <3>2
        <5> QED
          BY <5>1, LoadSegmentExact
      <4> QED
        BY <3>2, <4>1, <4>2 DEF At
    <3>3. CASE i # next
      <4>1. i < next
        BY <1>1, <3>3 DEF Segments, File
      <4>2. image[At(v)] = Linked(file.phdrs[i], v)
        BY <1>1, <3>1, <4>1 DEF SegmentsLoaded
      <4>3. /\ file.phdrs[i] \in Phdr /\ min_vaddr(file) \in Nat /\ top \in Nat
            /\ min_vaddr(file) <= file.phdrs[i].vaddr
            /\ file.phdrs[i].vaddr - min_vaddr(file) + file.phdrs[i].memsz <= top
            /\ file.phdrs[next] \in Phdr
        BY <1>1, <1>4, SegmentAllocated
      <4> HIDE DEF top
      <4>4. At(v) \in 0 .. top + Beyond - 1
        <5>1. /\ file.phdrs[i].vaddr \in Nat /\ file.phdrs[i].memsz \in Nat
              /\ v \in file.phdrs[i].vaddr .. file.phdrs[i].vaddr + file.phdrs[i].memsz - 1
          BY <4>3 DEF Phdr
        <5> QED
          BY <4>3, <5>1, BeyondAssumption DEF At
      <4>5. ~ Covers(file.phdrs[next], v)
        BY <1>4, <3>3 DEF WellFormed
      <4>6. At(v) \notin Place(file, next)
        BY <4>3, <4>5 DEF At, Covers, Phdr, Place
      <4>7. Fits(file, next)
        BY <1>4 DEF WellFormed, Fits
      <4>8. LoadSegment(image, file, next, readable)[At(v)] = image[At(v)]
        <5>1. At(v) \in DOMAIN image \cap Nat
          BY <1>1, <4>4 DEF top
        <5>2. SameElsewhere(image, LoadSegment(image, file, next, readable), file, next)
          BY <1>1, <1>4, <4>7, LoadSegmentElsewhere
        <5> QED
          BY <4>6, <5>1, <5>2 DEF SameElsewhere
      <4> QED
        BY <1>4, <4>2, <4>8
    <3> QED
      BY <3>2, <3>3
  <2>3. NoSpill'
    <3>1. CASE \E i \in Segments(file) : file.phdrs[i].filesz > file.phdrs[i].memsz
      BY <1>1, <3>1 DEF NoSpill
    <3>2. CASE \A i \in Segments(file) : ~ (file.phdrs[i].filesz > file.phdrs[i].memsz)
      <4>1. \A a \in DOMAIN image \ Allocated(file) : image[a] = Before
        BY <1>2, <3>2 DEF NoSpill
      <4>2. /\ file.phdrs[next] \in Phdr /\ min_vaddr(file) \in Nat /\ top \in Nat
            /\ file.phdrs[next].vaddr - min_vaddr(file) + file.phdrs[next].memsz <= top
            /\ min_vaddr(file) <= file.phdrs[next].vaddr
        BY <1>1, <1>4, SegmentAllocated
      <4>3. Fits(file, next)
        BY <1>4, <3>2, <4>2 DEF Phdr, Fits
      <4>4. SameElsewhere(image, LoadSegment(image, file, next, readable), file, next)
        BY <1>1, <1>4, <4>3, LoadSegmentElsewhere
      <4>5. ASSUME NEW a \in DOMAIN image \ Allocated(file)
            PROVE  image'[a] = Before
        <5>1. a \in Nat /\ a >= top
          BY <1>1, <4>2, <4>5 DEF Allocated
        <5>2. a \notin Place(file, next)
          BY <4>2, <5>1 DEF Phdr, Place
        <5>3. LoadSegment(image, file, next, readable)[a] = image[a]
          BY <4>5, <4>4, <5>1, <5>2 DEF SameElsewhere
        <5> QED
          BY <1>4, <4>1, <4>5, <5>3
      <4> QED
        BY <1>1, <2>1, <4>5 DEF NoSpill
    <3> QED
      BY <3>1, <3>2
  <2> QED
    BY <1>1, <1>4, <2>1, <2>2, <2>3 DEF ImageInv
<1> QED
  BY <1>1, <1>3, <1>4 DEF load_segment

(* Only load_kernel touches the image.                                     *)
LEMMA ImageStep == ImageInv /\ [BootNext]_boot_vars => ImageInv'
<1> SUFFICES ASSUME ImageInv, [BootNext]_boot_vars PROVE ImageInv'
  OBVIOUS
<1>1. CASE load_kernel
  <2>1. /\ pc' = "load_segment" /\ image' = Fresh(kernel_file) /\ next' = 1
        /\ kernel_file' = kernel_file /\ kernel_file \in File /\ Acceptable(kernel_file)
    BY <1>1, FilesAssumption DEF load_kernel, ImageInv
  <2>2. SegmentsLoaded'
    BY <2>1 DEF SegmentsLoaded, Segments, File
  <2>3. NoSpill'
    BY <2>1 DEF NoSpill, Fresh
  <2> QED
    BY <2>1, <2>2, <2>3 DEF ImageInv, Fresh
<1>2. CASE load_refused
  BY <1>2 DEF load_refused, load_vars, ImageInv, NoSpill
<1>3. CASE load_segment
  BY <1>3, SegmentInv
<1>4. CASE load_done
  BY <1>4 DEF load_done, ImageInv, SegmentsLoaded, NoSpill, At
<1>5. CASE \/ get_size \/ alloc_map \/ get_map \/ alloc_info \/ exit_boot_services
           \/ get_map_again \/ exit_again \/ firmware_event \/ UNCHANGED boot_vars
  <2>1. /\ UNCHANGED load_vars
        /\ pc' = pc \/ (pc \notin Ended \cup {"load_kernel", "load_segment"}
                        /\ pc' \notin {"load_kernel", "load_segment"})
    BY <1>5 DEF get_size, alloc_map, get_map, alloc_info, exit_boot_services, get_map_again,
                exit_again, firmware_event, boot_vars, Ended
  <2> QED
    BY <2>1 DEF load_vars, ImageInv, SegmentsLoaded, NoSpill, At, Ended
<1> QED
  BY <1>1, <1>2, <1>3, <1>4, <1>5 DEF BootNext, Loader

-----------------------------------------------------------------------------
(* The handover of the memory map                                          *)

Loading == {"load_kernel", "load_segment", "get_size", "alloc_map"}

(* The key only grows, and what carries the current key is current.        *)
KeysInv ==
    /\ fw.key > NoKey /\ map_key <= fw.key /\ refused.key <= fw.key /\ buf.key <= fw.key
    /\ buf.key = fw.key => buf = fw

(* With a buffer, and unless the map outgrew the slack, the key and the    *)
(* size are those of the map that is in the buffer, and it fits.           *)
MapRead ==
    ~ burst /\ capacity # 0 =>
        map_key = buf.key /\ mmap_size = buf.len /\ mmap_size <= capacity

(* What holds before each call of the loader.                              *)
MapInv ==
    /\ pc \in Loading => capacity = 0 /\ ~ overrun /\ ~ burst /\ refused = NoMap
    /\ pc = "get_map" =>
          ~ overrun /\ refused = NoMap /\ (capacity # 0 => mmap_size = capacity)
    /\ pc \in {"alloc_info", "exit", "get_map_again"} => MapRead
    /\ pc \in {"exit", "get_map_again"} => info_size = mmap_size
    /\ pc \in {"alloc_info", "exit"} => refused = NoMap
    /\ pc \in {"get_map_again", "exit_again"} => refused.key > NoKey
    /\ pc = "get_map_again" => map_key < fw.key
    /\ pc = "exit_again" =>
          /\ map_key = fw.key /\ ~ burst /\ capacity # 0 => buf = fw \/ fw.len > info_size
          /\ fw = refused /\ fw.len <= info_size /\ capacity # 0 => map_key = fw.key

HandoverInv ==
    /\ BootTypeOK /\ KeysInv /\ MapInv
    /\ KernelGetsCurrentMap /\ OverrunNeedsBurst /\ RetryFailureExplained

(* EfiMain starts without map, key and buffer.                             *)
LEMMA HandoverInit == BootInit => HandoverInv
<1> SUFFICES ASSUME BootInit PROVE HandoverInv
  OBVIOUS
<1>1. /\ fw \in [key : Nat, len : 1 .. MaxLen] /\ fw.key = 1
      /\ NoMap \in [key : Nat, len : 0 .. MaxLen] /\ NoMap.key = 0
  BY MaxLenAssumption DEF BootInit, NoMap, NoKey
<1>2. BootTypeOK
  <2>1. pc = "load_kernel" /\ unread = {} /\ next = 1 /\ kernel_entry = 0
    BY DEF BootInit
  <2>2. /\ mmap_size = 0 /\ capacity = 0 /\ info_size = 0 /\ map_key = 0 /\ changes = 0
        /\ buf = NoMap /\ refused = NoMap /\ ~ exited /\ ~ overrun /\ ~ burst
    BY DEF BootInit, NoKey
  <2>3. exited \in BOOLEAN /\ overrun \in BOOLEAN /\ burst \in BOOLEAN
    BY DEF BootInit
  <2> QED
    BY <1>1, <2>1, <2>2, <2>3, MaxChangesAssumption DEF BootInit, BootTypeOK
<1>3. KeysInv /\ MapInv
  BY <1>1 DEF BootInit, KeysInv, MapInv, NoKey, Loading
<1>4. KernelGetsCurrentMap /\ OverrunNeedsBurst /\ RetryFailureExplained
  BY DEF BootInit, KernelGetsCurrentMap, OverrunNeedsBurst, RetryFailureExplained
<1> QED
  BY <1>2, <1>3, <1>4 DEF HandoverInv

(* A change of the map takes a key that nothing has yet.                   *)
LEMMA ChangeKeepsInv ==
    ASSUME BootTypeOK, KeysInv, Change
    PROVE  /\ fw' \in [key : Nat, len : 1 .. MaxLen] /\ fw'.key = fw.key + 1
           /\ changes' \in 0 .. MaxChanges
BY MaxLenAssumption, MaxChangesAssumption DEF BootTypeOK, KeysInv, Change

(* The map changes between two calls or during one, and the variables that *)
(* speak of it stay as they are.                                           *)
LEMMA EventInv ==
    ASSUME HandoverInv, firmware_event
    PROVE  HandoverInv'
<1>1. /\ fw' \in [key : Nat, len : 1 .. MaxLen] /\ fw'.key = fw.key + 1
      /\ changes' \in 0 .. MaxChanges
  BY ChangeKeepsInv DEF HandoverInv, firmware_event
<1> USE DEF HandoverInv, firmware_event, load_vars
<1>2. BootTypeOK'
  BY <1>1 DEF BootTypeOK
<1>3. KeysInv'
  BY <1>1 DEF KeysInv, BootTypeOK, NoKey
<1>4. MapInv'
  <2>1. /\ fw.key \in Nat /\ map_key \in Nat /\ refused.key \in Nat
        /\ map_key <= fw.key /\ refused.key <= fw.key
    BY DEF BootTypeOK, KeysInv
  <2>2. map_key < fw'.key /\ map_key # fw'.key /\ fw' # refused
    BY <1>1, <2>1
  <2> QED
    BY <2>1, <2>2 DEF MapInv, MapRead
<1>5. KernelGetsCurrentMap' /\ OverrunNeedsBurst' /\ RetryFailureExplained'
  BY DEF KernelGetsCurrentMap, OverrunNeedsBurst, RetryFailureExplained, Ended
<1> QED
  BY <1>2, <1>3, <1>4, <1>5

(* An allocation, and what it makes of the map.                            *)
LEMMA AllocationKeepsInv ==
    ASSUME BootTypeOK, KeysInv, MayChange
    PROVE  /\ fw' \in [key : Nat, len : 1 .. MaxLen] /\ changes' \in 0 .. MaxChanges
           /\ fw' = fw \/ fw'.key = fw.key + 1
<1>1. CASE Change
  BY <1>1, ChangeKeepsInv
<1>2. CASE UNCHANGED <<fw, changes>>
  BY <1>2 DEF BootTypeOK
<1> QED
  BY <1>1, <1>2 DEF MayChange

(* Loading the kernel leaves the variables of the handover as they are.    *)
LEMMA LoadKernelInv ==
    ASSUME HandoverInv, ImageInv, load_kernel \/ load_refused \/ load_segment \/ load_done
    PROVE  HandoverInv'
<1> USE DEF HandoverInv
<1>1. /\ fw' \in [key : Nat, len : 1 .. MaxLen] /\ changes' \in 0 .. MaxChanges
      /\ fw' = fw \/ fw'.key = fw.key + 1
  BY AllocationKeepsInv
     DEF load_kernel, load_refused, load_segment, load_done, BootTypeOK
<1>2. /\ pc \in Loading /\ pc' \in {"hung", "crashed", "load_segment", "get_size"}
      /\ UNCHANGED <<kernel_file, mmap_size, map_key, capacity, buf, info_size, exited,
                     overrun, burst, refused>>
  BY DEF load_kernel, load_refused, load_segment, load_done, load_vars, Loading
<1>3. capacity = 0 /\ ~ overrun /\ ~ burst /\ refused = NoMap
  BY <1>2 DEF MapInv
<1>4. unread' \subseteq Segments(kernel_file') /\ next' \in Nat /\ kernel_entry' \in Int
  <2>1. CASE load_done
    <3>1. kernel_file \in File /\ Segments(kernel_file) # {}
      BY <2>1, FilesAssumption DEF ImageInv, Acceptable, load_done
    <3>2. min_vaddr(kernel_file) \in Nat /\ kernel_file.entry \in Nat
      BY <3>1, MinVaddr DEF File
    <3> QED
      BY <2>1, <3>2 DEF load_done, BootTypeOK
  <2>2. CASE load_kernel \/ load_refused \/ load_segment
    BY <2>2 DEF load_kernel, load_refused, load_segment, load_vars, BootTypeOK
  <2> QED
    BY <2>1, <2>2
<1>5. BootTypeOK'
  BY <1>1, <1>2, <1>4 DEF BootTypeOK, Ended
<1>6. KeysInv'
  BY <1>1, <1>2 DEF KeysInv, BootTypeOK, NoKey
<1>7. MapInv'
  BY <1>2, <1>3 DEF MapInv, Loading
<1>8. KernelGetsCurrentMap' /\ OverrunNeedsBurst' /\ RetryFailureExplained'
  BY <1>2, <1>3 DEF KernelGetsCurrentMap, OverrunNeedsBurst, RetryFailureExplained
<1> QED
  BY <1>5, <1>6, <1>7, <1>8

(* What GetMemoryMap does to the variables it is given: it fails and says  *)
(* how long the map is, fails for want of a buffer, or writes the map.     *)
LEMMA GetMemoryMapInv ==
    ASSUME BootTypeOK, KeysInv, GetMemoryMap, UNCHANGED <<fw, refused>>
    PROVE  /\ buf' \in [key : Nat, len : 0 .. MaxLen] /\ mmap_size' \in Nat
           /\ map_key' \in Nat /\ overrun' \in BOOLEAN
           /\ KeysInv'
<1>1. fw \in [key : Nat, len : 0 .. MaxLen] /\ fw.len \in Nat /\ fw.key \in Nat
  BY MaxLenAssumption DEF BootTypeOK
<1>2. CASE fw.len > mmap_size /\ mmap_size' = fw.len /\ map_key' \in {map_key, fw.key}
           /\ UNCHANGED <<buf, overrun>>
  BY <1>1, <1>2 DEF BootTypeOK, KeysInv
<1>3. CASE UNCHANGED <<mmap_size, map_key, buf, overrun>>
  BY <1>3 DEF BootTypeOK, KeysInv
<1>4. CASE mmap_size' = fw.len /\ map_key' = fw.key /\ buf' = fw
           /\ overrun' = (overrun \/ fw.len > capacity)
  BY <1>1, <1>4 DEF BootTypeOK, KeysInv
<1> QED
  BY <1>2, <1>3, <1>4 DEF GetMemoryMap

(* The first call has no buffer to write to.                               *)
LEMMA GetSizeInv ==
    ASSUME HandoverInv, get_size
    PROVE  HandoverInv'
<1> USE DEF HandoverInv, get_size, load_vars
<1>1. /\ buf' \in [key : Nat, len : 0 .. MaxLen] /\ mmap_size' \in Nat
      /\ map_key' \in Nat /\ overrun' \in BOOLEAN
      /\ KeysInv'
  BY GetMemoryMapInv
<1>2. capacity = 0 /\ ~ overrun' /\ ~ burst /\ refused = NoMap
  BY DEF MapInv, Loading, GetMemoryMap
<1>3. BootTypeOK'
  BY <1>1 DEF BootTypeOK
<1>4. MapInv'
  BY <1>2 DEF MapInv, Loading
<1>5. KernelGetsCurrentMap' /\ OverrunNeedsBurst' /\ RetryFailureExplained'
  BY <1>2 DEF KernelGetsCurrentMap, OverrunNeedsBurst, RetryFailureExplained
<1> QED
  BY <1>1, <1>3, <1>4, <1>5

(* The buffer has the size that is passed next, or there is none.          *)
LEMMA AllocMapInv ==
    ASSUME HandoverInv, alloc_map
    PROVE  HandoverInv'
<1> USE DEF HandoverInv, alloc_map, load_vars
<1>1. /\ fw' \in [key : Nat, len : 1 .. MaxLen] /\ changes' \in 0 .. MaxChanges
      /\ fw' = fw \/ fw'.key = fw.key + 1
  BY AllocationKeepsInv DEF MayChange
<1>2. capacity = 0 /\ ~ overrun /\ ~ burst /\ refused = NoMap
  BY DEF MapInv, Loading
<1>3. mmap_size' \in Nat /\ capacity' \in {0, mmap_size'}
  BY SlackAssumption DEF BootTypeOK
<1>4. BootTypeOK'
  BY <1>1, <1>3 DEF BootTypeOK
<1>5. KeysInv'
  BY <1>1 DEF KeysInv, BootTypeOK, NoKey
<1>6. MapInv'
  BY <1>2, <1>3 DEF MapInv, Loading
<1>7. KernelGetsCurrentMap' /\ OverrunNeedsBurst' /\ RetryFailureExplained'
  BY <1>2 DEF KernelGetsCurrentMap, OverrunNeedsBurst, RetryFailureExplained
<1> QED
  BY <1>4, <1>5, <1>6, <1>7

(* The first map that is read fits, unless it has outgrown the slack.      *)
LEMMA GetMapInv ==
    ASSUME HandoverInv, get_map
    PROVE  HandoverInv'
<1> USE DEF HandoverInv, get_map, load_vars
<1>1. /\ buf' \in [key : Nat, len : 0 .. MaxLen] /\ mmap_size' \in Nat
      /\ map_key' \in Nat /\ overrun' \in BOOLEAN
      /\ KeysInv'
  BY GetMemoryMapInv
<1>2. /\ ~ overrun /\ refused = NoMap /\ (capacity # 0 => mmap_size = capacity)
      /\ fw.len \in Nat /\ mmap_size \in Nat /\ capacity \in Nat
  BY DEF MapInv, BootTypeOK
<1>3. overrun' => burst'
  BY <1>2 DEF GetMemoryMap
<1>4. MapRead'
  BY <1>2 DEF MapRead, GetMemoryMap
<1>5. BootTypeOK'
  BY <1>1, <1>2 DEF BootTypeOK
<1>6. MapInv'
  BY <1>2, <1>4 DEF MapInv, Loading
<1>7. KernelGetsCurrentMap' /\ OverrunNeedsBurst' /\ RetryFailureExplained'
  BY <1>3 DEF KernelGetsCurrentMap, OverrunNeedsBurst, RetryFailureExplained
<1> QED
  BY <1>1, <1>5, <1>6, <1>7

(* The size goes into BootInfo; the allocation may change the map.         *)
LEMMA AllocInfoInv ==
    ASSUME HandoverInv, alloc_info
    PROVE  HandoverInv'
<1> USE DEF HandoverInv, alloc_info, load_vars
<1>1. /\ fw' \in [key : Nat, len : 1 .. MaxLen] /\ changes' \in 0 .. MaxChanges
      /\ fw' = fw \/ fw'.key = fw.key + 1
  BY AllocationKeepsInv DEF MayChange
<1>2. MapRead /\ refused = NoMap
  BY DEF MapInv
<1>3. pc' \in {"exit", "crashed"} /\ (pc' = "exit" => info_size' = mmap_size)
  OBVIOUS
<1>4. BootTypeOK'
  BY <1>1, <1>3 DEF BootTypeOK, Ended
<1>5. KeysInv'
  BY <1>1 DEF KeysInv, BootTypeOK, NoKey
<1>6. MapInv'
  BY <1>2, <1>3 DEF MapInv, MapRead, Loading
<1>7. KernelGetsCurrentMap' /\ OverrunNeedsBurst' /\ RetryFailureExplained'
  BY <1>3 DEF KernelGetsCurrentMap, OverrunNeedsBurst, RetryFailureExplained
<1> QED
  BY <1>4, <1>5, <1>6, <1>7

(* The first attempt: with the current key the buffer holds the current    *)
(* map; otherwise the key is behind.                                       *)
LEMMA ExitInv ==
    ASSUME HandoverInv, exit_boot_services
    PROVE  HandoverInv'
<1> USE DEF HandoverInv, exit_boot_services, load_vars
<1>1. MapRead /\ info_size = mmap_size /\ refused = NoMap
  BY DEF MapInv
<1>2. fw \in [key : Nat, len : 0 .. MaxLen] /\ map_key \in Nat
  BY DEF BootTypeOK
<1>3. CASE map_key = fw.key
  <2>1. pc' = "kernel" /\ exited' = TRUE /\ refused' = refused
    BY <1>3
  <2>2. KernelGetsCurrentMap'
    BY <1>1, <1>2, <1>3, <2>1 DEF KernelGetsCurrentMap, MapRead, KeysInv
  <2> QED
    BY <2>1, <2>2 DEF BootTypeOK, Ended, KeysInv, MapInv, Loading, OverrunNeedsBurst,
                      RetryFailureExplained
<1>4. CASE map_key # fw.key
  <2>1. pc' = "get_map_again" /\ refused' = fw /\ exited' = exited
    BY <1>4
  <2>2. refused'.key > NoKey /\ map_key < fw.key
    BY <1>2, <1>4, <2>1 DEF KeysInv
  <2>3. MapInv'
    BY <1>1, <2>1, <2>2 DEF MapInv, MapRead, Loading
  <2> QED
    BY <1>2, <2>1, <2>3 DEF BootTypeOK, KeysInv, KernelGetsCurrentMap, OverrunNeedsBurst,
                            RetryFailureExplained
<1> QED
  BY <1>3, <1>4

(* The map is read again, with the size of the one before.                 *)
LEMMA GetMapAgainInv ==
    ASSUME HandoverInv, get_map_again
    PROVE  HandoverInv'
<1> USE DEF HandoverInv, get_map_again, load_vars
<1>1. /\ buf' \in [key : Nat, len : 0 .. MaxLen] /\ mmap_size' \in Nat
      /\ map_key' \in Nat /\ overrun' \in BOOLEAN
      /\ KeysInv'
  BY GetMemoryMapInv
<1>2. /\ MapRead /\ info_size = mmap_size /\ refused.key > NoKey /\ map_key < fw.key
      /\ fw.len \in Nat /\ mmap_size \in Nat /\ capacity \in Nat /\ fw.key \in Nat
      /\ map_key \in Nat
  BY DEF MapInv, BootTypeOK
<1>3. overrun' => burst'
  <2>1. CASE burst
    BY <2>1
  <2>2. CASE ~ burst
    <3>1. ~ overrun
      BY <2>2 DEF OverrunNeedsBurst
    <3>2. capacity # 0 => mmap_size <= capacity
      BY <2>2, <1>2 DEF MapRead
    <3>3. ~ (fw.len <= mmap_size /\ capacity # 0 /\ fw.len > capacity)
      BY <1>2, <3>2
    <3> QED
      BY <3>1, <3>3 DEF GetMemoryMap
  <2> QED
    BY <2>1, <2>2
<1>4. /\ map_key' = fw.key /\ ~ burst /\ capacity # 0 => buf' = fw \/ fw.len > info_size
      /\ fw.len <= info_size /\ capacity # 0 => map_key' = fw.key
  BY <1>2 DEF GetMemoryMap
<1>5. BootTypeOK'
  BY <1>1 DEF BootTypeOK
<1>6. MapInv'
  BY <1>2, <1>4 DEF MapInv, Loading
<1>7. KernelGetsCurrentMap' /\ OverrunNeedsBurst' /\ RetryFailureExplained'
  BY <1>3 DEF KernelGetsCurrentMap, OverrunNeedsBurst, RetryFailureExplained
<1> QED
  BY <1>1, <1>5, <1>6, <1>7

(* The retry enters the kernel or stops.                                   *)
LEMMA ExitAgainInv ==
    ASSUME HandoverInv, exit_again
    PROVE  HandoverInv'
<1> USE DEF HandoverInv, exit_again, load_vars
<1>1. /\ map_key = fw.key /\ ~ burst /\ capacity # 0 => buf = fw \/ fw.len > info_size
      /\ fw = refused /\ fw.len <= info_size /\ capacity # 0 => map_key = fw.key
      /\ refused # NoMap /\ fw.len \in Nat /\ info_size \in Nat
  BY DEF MapInv, NoMap, NoKey, BootTypeOK
<1>2. /\ pc' \in {"kernel", "hung"} /\ (pc' = "kernel" <=> map_key = fw.key)
      /\ exited' = (pc' = "kernel" \/ exited)
  BY DEF BootTypeOK
<1>3. BootTypeOK' /\ KeysInv' /\ MapInv'
  BY <1>2 DEF BootTypeOK, Ended, KeysInv, MapInv, Loading
<1>4. KernelGetsCurrentMap' /\ OverrunNeedsBurst' /\ RetryFailureExplained'
  BY <1>1, <1>2 DEF KernelGetsCurrentMap, OverrunNeedsBurst, RetryFailureExplained
<1> QED
  BY <1>3, <1>4

(* Every step keeps the invariant of the handover.                         *)
LEMMA HandoverStep == HandoverInv /\ ImageInv /\ [BootNext]_boot_vars => HandoverInv'
<1> SUFFICES ASSUME HandoverInv, ImageInv, [BootNext]_boot_vars PROVE HandoverInv'
  OBVIOUS
<1>1. CASE UNCHANGED boot_vars
  BY <1>1 DEF boot_vars, load_vars, HandoverInv, BootTypeOK, KeysInv, MapInv, MapRead,
              KernelGetsCurrentMap, OverrunNeedsBurst, RetryFailureExplained
<1> QED
  BY <1>1, EventInv, LoadKernelInv, GetSizeInv, AllocMapInv, GetMapInv, AllocInfoInv, ExitInv,
     GetMapAgainInv, ExitAgainInv DEF BootNext, Loader

(* Both invariants together are inductive.                                 *)
LEMMA BootInvariant == BootSpec => [](HandoverInv /\ ImageInv)
<1>1. BootInit => HandoverInv /\ ImageInv
  BY HandoverInit, ImageInit
<1>2. HandoverInv /\ ImageInv /\ [BootNext]_boot_vars => (HandoverInv /\ ImageInv)'
  BY HandoverStep, ImageStep
<1> QED
  BY <1>1, <1>2, PTL DEF BootSpec

-----------------------------------------------------------------------------
(* What follows                                                            *)

(* The variables of EfiMain and load_kernel, the firmware's map and what   *)
(* the buffer holds are of their types, with any number of changes.        *)
THEOREM BootTypeCorrect == BootSpec => []BootTypeOK
<1>1. HandoverInv => BootTypeOK
  BY DEF HandoverInv
<1> QED
  BY <1>1, BootInvariant, PTL

(* For every file, the kernel that EfiMain jumps to is in memory as it was *)
(* linked, if the file is in the ELF format and load_kernel could read it, *)
(* whatever order, gaps and sizes the segments have.                       *)
THEOREM BootImageExact == BootSpec => []ImageExact
<1>1. HandoverInv /\ ImageInv => ImageExact
  <2> SUFFICES ASSUME ImageInv, pc = "kernel" PROVE ImageExact
    BY DEF ImageExact
  <2>1. /\ kernel_file \in File /\ Acceptable(kernel_file) /\ SegmentsLoaded
        /\ kernel_entry = At(kernel_file.entry)
        /\ next \in Nat \ {0} /\ next \notin DOMAIN kernel_file.phdrs
    BY FilesAssumption DEF ImageInv
  <2>2. \A i \in Segments(kernel_file) : i < next
    BY <2>1 DEF Segments, File
  <2> QED
    BY <2>1, <2>2 DEF ImageExact, SegmentsLoaded, Acceptable, At
<1> QED
  BY <1>1, BootInvariant, PTL

(* load_kernel writes behind the pages it allocated only for a file with a *)
(* segment that is longer than its memory, which it does not compare.      *)
THEOREM BootSpill == BootSpec => []SpillNeedsLongSegment
<1>1. ImageInv => SpillNeedsLongSegment
  BY DEF ImageInv, NoSpill, SpillNeedsLongSegment
<1> QED
  BY <1>1, BootInvariant, PTL

(* Boot services have ended when the kernel is entered, and without a      *)
(* burst, with a buffer and room for the map, the BootInfo that EfiMain    *)
(* hands over describes the firmware's final map: for any number of        *)
(* changes of the map between any two calls.                               *)
THEOREM BootCurrentMap == BootSpec => []KernelGetsCurrentMap
<1>1. HandoverInv => KernelGetsCurrentMap
  BY DEF HandoverInv
<1> QED
  BY <1>1, BootInvariant, PTL

(* EfiMain passes GetMemoryMap a size beyond the buffer only after the map *)
(* has outgrown the 4096 bytes added to its first size.                    *)
THEOREM BootOverrun == BootSpec => []OverrunNeedsBurst
<1>1. HandoverInv => OverrunNeedsBurst
  BY DEF HandoverInv
<1> QED
  BY <1>1, BootInvariant, PTL

(* The second ExitBootServices of EfiMain fails only for the reasons that  *)
(* RetryFailureExplained names.                                            *)
THEOREM BootRetry == BootSpec => []RetryFailureExplained
<1>1. HandoverInv => RetryFailureExplained
  BY DEF HandoverInv
<1> QED
  BY <1>1, BootInvariant, PTL

=============================================================================
