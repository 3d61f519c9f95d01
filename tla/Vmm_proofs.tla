----------------------------- MODULE Vmm_proofs -----------------------------
(***************************************************************************)
(* Proofs about vmm.c, for every size of the node array, every set of      *)
(* request sizes, every memory and every firmware that Firmware assumes.   *)
(* The VMA list and the bump pointer come first: their proofs never look   *)
(* into the machine.  Then the machine: MemoryInv joins the tree of page   *)
(* tables (Paging_proofs) to the regions the kernel holds.                 *)
(***************************************************************************)
EXTENDS Paging_proofs

-----------------------------------------------------------------------------
(* The VMA list                                                            *)

Node == [vaddr : Nat, pages : Counts]

VmaTyped ==
    /\ next_vaddr \in Nat
    /\ vma_count \in Nat
    /\ vma_list \in Seq(Node)
    /\ \A r \in live : r.vaddr \in Nat /\ r.pages \in Counts
    /\ DOMAIN history = Mishaps

VmaInv == VmaTyped /\ VmaListSound

(* A sequence without its i-th element.                                    *)
LEMMA WithoutProperty ==
    ASSUME NEW S, NEW list \in Seq(S), NEW i \in 1 .. Len(list)
    PROVE  /\ Without(list, i) \in Seq(S)
           /\ Len(Without(list, i)) = Len(list) - 1
           /\ \A k \in 1 .. Len(list) - 1 :
                 Without(list, i)[k] = IF k < i THEN list[k] ELSE list[k + 1]
<1> DEFINE a == SubSeq(list, 1, i - 1)
           b == SubSeq(list, i + 1, Len(list))
<1>1. Len(list) \in Nat /\ \A k \in 1 .. Len(list) : list[k] \in S
  BY LenProperties, ElementOfSeq
<1>2. a \in Seq(S) /\ Len(a) = i - 1 /\ \A k \in 1 .. i - 1 : a[k] = list[k]
  <2>1. \A k \in 1 .. i - 1 : list[k] \in S
    BY <1>1
  <2>2. 1 \in Int /\ i - 1 \in Int /\ (1 <= i - 1 => 1 \in 1 .. Len(list) /\ i - 1 \in 1 .. Len(list))
    BY <1>1
  <2> QED
    BY <1>1, <2>1, <2>2
<1>3. /\ b \in Seq(S) /\ Len(b) = Len(list) - i
      /\ \A k \in 1 .. Len(list) - i : b[k] = list[i + k]
  BY <1>1
<1>4. Without(list, i) = a \o b
  BY DEF Without
<1> HIDE DEF a, b
<1>5. a \o b \in Seq(S) /\ Len(a \o b) = Len(a) + Len(b)
  BY <1>2, <1>3, ConcatProperties
<1>6. ASSUME NEW k \in 1 .. Len(list) - 1
      PROVE  (a \o b)[k] = IF k < i THEN list[k] ELSE list[k + 1]
  <2>1. k \in 1 .. Len(a) + Len(b)
    BY <1>1, <1>2, <1>3
  <2>2. (a \o b)[k] = IF k <= Len(a) THEN a[k] ELSE b[k - Len(a)]
    BY <1>2, <1>3, <2>1, ConcatProperties
  <2>3. CASE k < i
    BY <1>1, <1>2, <2>2, <2>3
  <2>4. CASE ~ (k < i)
    <3>1. k - Len(a) \in 1 .. Len(list) - i /\ i + (k - Len(a)) = k + 1 /\ ~ (k <= Len(a))
      BY <1>1, <1>2, <2>4
    <3> QED
      BY <1>3, <2>2, <2>4, <3>1
  <2> QED
    BY <2>3, <2>4
<1> QED
  BY <1>1, <1>2, <1>3, <1>4, <1>5, <1>6

(* A sequence with an element in front.                                    *)
LEMMA InFront ==
    ASSUME NEW S, NEW list \in Seq(S), NEW x \in S
    PROVE  /\ <<x>> \o list \in Seq(S)
           /\ Len(<<x>> \o list) = Len(list) + 1
           /\ (<<x>> \o list)[1] = x
           /\ \A k \in 1 .. Len(list) : (<<x>> \o list)[k + 1] = list[k]
<1>1. <<x>> \in Seq(S) /\ Len(<<x>>) = 1 /\ <<x>>[1] = x /\ Len(list) \in Nat
  BY LenProperties
<1> QED
  BY <1>1, ConcatProperties

(* The initial state.                                                      *)
LEMMA VmaInit == VmmInit => VmaInv
BY StartVaddrsAssumption DEF VmmInit, VmaInv, VmaTyped, VmaListSound, Found

(* vmm_alloc preserves the invariant.                                      *)
LEMMA AllocVma ==
    ASSUME NEW n \in Counts, VmaInv, vmm_alloc(n)
    PROVE  VmaInv'
<1> USE DEF VmaInv
<1> DEFINE r == MapPages(Watched(machine), next_vaddr, n)
           x == [vaddr |-> next_vaddr, pages |-> n]
           new == [vaddr |-> next_vaddr, pages |-> n, frames |-> r.frames]
<1>1. /\ history' = [overlap |-> history.overlap \/ r.m.shared,
                     oom |-> history.oom \/ r.oom,
                     starved |-> history.starved \/ r.m.starved,
                     wild |-> history.wild \/ r.m.wild,
                     unlisted |-> history.unlisted \/ (~ r.oom /\ ~ NodeLeft),
                     uncounted |-> history.uncounted]
      /\ IF r.oom
         THEN UNCHANGED <<vma_list, vma_count, next_vaddr, live>>
         ELSE /\ IF NodeLeft
                 THEN /\ vma_list' = <<x>> \o vma_list
                      /\ vma_count' = vma_count + 1
                 ELSE UNCHANGED <<vma_list, vma_count>>
              /\ next_vaddr' = next_vaddr + n
              /\ live' = live \cup {new}
  BY DEF vmm_alloc, RegionEnd
<1>2. n \in Nat /\ n # 0 /\ next_vaddr \in Nat /\ x \in Node
  BY CountsAssumption DEF VmaTyped, Node
<1>3. new.vaddr = next_vaddr /\ new.pages = n
  OBVIOUS
<1>4. \A s \in live : s.vaddr \in Nat /\ s.pages \in Nat /\ s.pages # 0
                      /\ s.vaddr + s.pages <= next_vaddr
  BY CountsAssumption DEF VmaTyped, VmaListSound
<1> HIDE DEF r, x, new
<1>5. DOMAIN history' = Mishaps
  BY <1>1 DEF Mishaps
<1>6. ~ history'.unlisted => ~ history.unlisted /\ (r.oom \/ NodeLeft)
  BY <1>1
<1>7. CASE r.oom
  BY <1>1, <1>5, <1>6, <1>7 DEF VmaTyped, VmaListSound, Found, PagesOf
<1>8. CASE ~ r.oom
  <2>1. next_vaddr' = next_vaddr + n /\ live' = live \cup {new}
    BY <1>1, <1>8
  <2>2. \/ /\ NodeLeft
           /\ vma_list' = <<x>> \o vma_list /\ vma_count' = vma_count + 1
        \/ /\ ~ NodeLeft
           /\ vma_list' = vma_list /\ vma_count' = vma_count
    BY <1>1, <1>8
  <2>3. \A s \in live' : s.vaddr \in Nat /\ s.pages \in Counts
                         /\ s.vaddr + s.pages <= next_vaddr'
    BY <1>2, <1>3, <1>4, <2>1 DEF VmaTyped
  <2>4. ASSUME NEW s \in live', NEW t \in live', s # t
        PROVE  PagesOf(s) \cap PagesOf(t) = {}
    <3>1. CASE s \in live /\ t \in live
      BY <2>4, <3>1 DEF VmaListSound
    <3>2. CASE s = new /\ t \in live
      BY <1>2, <1>3, <1>4, <3>2 DEF PagesOf
    <3>3. CASE t = new /\ s \in live
      BY <1>2, <1>3, <1>4, <3>3 DEF PagesOf
    <3> QED
      BY <2>1, <2>4, <3>1, <3>2, <3>3
  <2>5. vma_list \in Seq(Node) /\ Len(vma_list) \in Nat /\ vma_count \in Nat
        /\ Len(vma_list) <= vma_count
    BY LenProperties DEF VmaTyped, VmaListSound
  <2>6. CASE NodeLeft
    <3>1. /\ vma_list' \in Seq(Node) /\ Len(vma_list') = Len(vma_list) + 1
          /\ vma_list'[1] = x
          /\ \A k \in 1 .. Len(vma_list) : vma_list'[k + 1] = vma_list[k]
          /\ vma_count' = vma_count + 1
      BY <1>2, <2>2, <2>5, <2>6, InFront
    <3>2. \A i \in 1 .. Len(vma_list') : i = 1 \/
             (i - 1 \in 1 .. Len(vma_list) /\ vma_list'[i] = vma_list[i - 1])
      BY <2>5, <3>1
    <3>3. \A i \in 1 .. Len(vma_list) : \E s \in live :
             vma_list[i] = [vaddr |-> s.vaddr, pages |-> s.pages]
      BY DEF VmaListSound
    <3>4. x = [vaddr |-> new.vaddr, pages |-> new.pages]
      BY <1>3 DEF x
    <3>5. \A i \in 1 .. Len(vma_list') : \E s \in live' :
             vma_list'[i] = [vaddr |-> s.vaddr, pages |-> s.pages]
      <4> SUFFICES ASSUME NEW i \in 1 .. Len(vma_list')
                   PROVE  \E s \in live' :
                             vma_list'[i] = [vaddr |-> s.vaddr, pages |-> s.pages]
        OBVIOUS
      <4>1. CASE i = 1
        <5>1. new \in live' /\ vma_list'[i] = [vaddr |-> new.vaddr, pages |-> new.pages]
          BY <2>1, <3>1, <3>4, <4>1
        <5> QED
          BY <5>1
      <4>2. CASE i # 1
        <5>1. i - 1 \in 1 .. Len(vma_list) /\ vma_list'[i] = vma_list[i - 1]
          BY <3>2, <4>2
        <5>2. PICK s \in live : vma_list[i - 1] = [vaddr |-> s.vaddr, pages |-> s.pages]
          BY <3>3, <5>1
        <5> QED
          BY <2>1, <5>1, <5>2
      <4> QED
        BY <4>1, <4>2
    <3>6. ASSUME NEW i \in 1 .. Len(vma_list)
          PROVE  vma_list[i].vaddr < next_vaddr /\ vma_list[i].vaddr \in Nat
      <4>1. PICK s \in live : vma_list[i] = [vaddr |-> s.vaddr, pages |-> s.pages]
        BY <3>3
      <4>2. vma_list[i].vaddr = s.vaddr
        BY <4>1
      <4> QED
        BY <1>2, <1>4, <4>2
    <3>7. x.vaddr = next_vaddr
      BY DEF x
    <3>8. \A i, j \in 1 .. Len(vma_list') : vma_list'[i].vaddr = vma_list'[j].vaddr => i = j
      <4> SUFFICES ASSUME NEW i \in 1 .. Len(vma_list'), NEW j \in 1 .. Len(vma_list'),
                          vma_list'[i].vaddr = vma_list'[j].vaddr
                   PROVE  i = j
        OBVIOUS
      <4>1. CASE i = 1 \/ j = 1
        <5>1. vma_list'[1].vaddr = next_vaddr
          BY <3>1, <3>7
        <5>2. ASSUME NEW k \in 1 .. Len(vma_list'), k # 1
              PROVE  vma_list'[k].vaddr < next_vaddr /\ vma_list'[k].vaddr \in Nat
          <6>1. k - 1 \in 1 .. Len(vma_list) /\ vma_list'[k] = vma_list[k - 1]
            BY <3>2, <5>2
          <6> QED
            BY <6>1, <3>6
        <5> QED
          BY <1>2, <5>1, <5>2, <4>1
      <4>2. CASE i # 1 /\ j # 1
        <5>1. /\ i - 1 \in 1 .. Len(vma_list) /\ vma_list'[i] = vma_list[i - 1]
              /\ j - 1 \in 1 .. Len(vma_list) /\ vma_list'[j] = vma_list[j - 1]
          BY <3>2, <4>2
        <5>2. i - 1 = j - 1
          BY <5>1 DEF VmaListSound
        <5> QED
          BY <5>2, <2>5, <3>1
      <4> QED
        BY <4>1, <4>2
    <3>9. ASSUME ~ history'.unlisted, NEW s \in live'
          PROVE  \E i \in 1 .. Len(vma_list') : vma_list'[i].vaddr = s.vaddr
      <4>1. CASE s = new
        BY <1>3, <2>5, <3>1, <3>7, <4>1
      <4>2. CASE s \in live
        <5>1. PICK i \in 1 .. Len(vma_list) : vma_list[i].vaddr = s.vaddr
          BY <1>6, <3>9, <4>2 DEF VmaListSound, Found
        <5>2. i + 1 \in 1 .. Len(vma_list') /\ vma_list'[i + 1].vaddr = s.vaddr
          BY <2>5, <3>1, <5>1
        <5> QED
          BY <5>2
      <4> QED
        BY <2>1, <4>1, <4>2
    <3>10. VmaTyped'
      BY <1>2, <1>5, <2>1, <2>3, <2>5, <3>1 DEF VmaTyped
    <3>11. VmaListSound'
      <4>1. Len(vma_list') <= vma_count'
        BY <2>5, <3>1
      <4>2. ~ history'.unlisted => \A s \in live' : Found(vma_list', s.vaddr) # {}
        BY <3>9 DEF Found
      <4>3. \A s, t \in live' : s # t => PagesOf(s) \cap PagesOf(t) = {}
        BY <2>4
      <4>4. \A s \in live' : s.vaddr + s.pages <= next_vaddr'
        BY <2>3
      <4> QED
        BY <4>1, <4>2, <4>3, <4>4, <3>5, <3>8 DEF VmaListSound, PagesOf
    <3> QED
      BY <3>10, <3>11
  <2>7. CASE ~ NodeLeft
    <3>1. vma_list' = vma_list /\ vma_count' = vma_count
      BY <2>2, <2>7
    <3>2. history'.unlisted
      BY <1>6, <1>8, <2>7
    <3>3. VmaTyped'
      BY <1>2, <1>5, <2>1, <2>3, <2>5, <3>1 DEF VmaTyped
    <3>4. VmaListSound'
      BY <2>1, <2>3, <2>4, <3>1, <3>2 DEF VmaListSound, PagesOf
    <3> QED
      BY <3>3, <3>4
  <2> QED
    BY <2>6, <2>7
<1> QED
  BY <1>7, <1>8

(* In vmm_free the search finds at most one node, that of the region.      *)
LEMMA FoundOne ==
    ASSUME VmaInv, NEW r \in live, Found(vma_list, r.vaddr) # {}
    PROVE  LET i == Lowest(Found(vma_list, r.vaddr))
           IN  i \in 1 .. Len(vma_list) /\ vma_list[i].vaddr = r.vaddr
<1>1. PICK i \in 1 .. Len(vma_list) : vma_list[i].vaddr = r.vaddr
  BY DEF Found
<1>2. \A j \in 1 .. Len(vma_list) : vma_list[j].vaddr = r.vaddr => j = i
  BY <1>1 DEF VmaInv, VmaListSound
<1>3. Found(vma_list, r.vaddr) = {i}
  BY <1>1, <1>2 DEF Found
<1>4. i <= i
  BY <1>1
<1>5. Lowest({i}) = i
  BY <1>4 DEF Lowest
<1> QED
  BY <1>1, <1>3, <1>5

(* Regions with the same address are the same.                             *)
LEMMA SameAddress ==
    ASSUME VmaInv, NEW r \in live, NEW s \in live, r.vaddr = s.vaddr
    PROVE  r = s
<1>1. /\ r.vaddr \in Nat /\ r.pages \in Nat /\ r.pages # 0
      /\ s.vaddr \in Nat /\ s.pages \in Nat /\ s.pages # 0
  BY CountsAssumption DEF VmaInv, VmaTyped
<1>2. r.vaddr \in PagesOf(r) \cap PagesOf(s)
  BY <1>1 DEF PagesOf
<1> QED
  BY <1>2 DEF VmaInv, VmaListSound

(* vmm_free preserves the invariant.                                       *)
LEMMA FreeVma ==
    ASSUME NEW r \in live, VmaInv, vmm_free(r)
    PROVE  VmaInv'
<1> USE DEF VmaInv
<1>1. live' = live \ {r} /\ UNCHANGED <<vma_count, next_vaddr>>
  BY DEF vmm_free
<1>2. DOMAIN history' = Mishaps /\ (~ history'.unlisted => ~ history.unlisted)
  BY DEF vmm_free, VmaTyped
<1>3. \/ /\ Found(vma_list, r.vaddr) = {} /\ vma_list' = vma_list
      \/ \E i \in 1 .. Len(vma_list) :
            vma_list[i].vaddr = r.vaddr /\ vma_list' = Without(vma_list, i)
  <2>1. CASE Found(vma_list, r.vaddr) = {}
    BY <2>1 DEF vmm_free
  <2>2. CASE Found(vma_list, r.vaddr) # {}
    <3>1. vma_list' = Without(vma_list, Lowest(Found(vma_list, r.vaddr)))
      BY <2>2 DEF vmm_free
    <3> QED
      BY <2>2, <3>1, FoundOne
  <2> QED
    BY <2>1, <2>2
<1>4. vma_list \in Seq(Node) /\ Len(vma_list) \in Nat /\ Len(vma_list) <= vma_count
      /\ vma_count \in Nat
  BY LenProperties DEF VmaTyped, VmaListSound
<1>5. \A k \in 1 .. Len(vma_list) : \E s \in live :
         vma_list[k] = [vaddr |-> s.vaddr, pages |-> s.pages]
  BY DEF VmaListSound
(* What both cases have in common: nodes of vma_list' are nodes of         *)
(* vma_list at distinct positions, all but those of r.                     *)
<1> DEFINE Kept(f) ==
              /\ f \in [1 .. Len(vma_list') -> 1 .. Len(vma_list)]
              /\ \A k \in 1 .. Len(vma_list') :
                    vma_list'[k] = vma_list[f[k]] /\ vma_list[f[k]].vaddr # r.vaddr
              /\ \A j, k \in 1 .. Len(vma_list') : f[j] = f[k] => j = k
              /\ \A j \in 1 .. Len(vma_list) : vma_list[j].vaddr # r.vaddr =>
                    \E k \in 1 .. Len(vma_list') : f[k] = j
<1>6. vma_list' \in Seq(Node) /\ Len(vma_list') \in Nat /\ Len(vma_list') <= Len(vma_list)
      /\ \E f : Kept(f)
  <2>1. CASE Found(vma_list, r.vaddr) = {} /\ vma_list' = vma_list
    <3> DEFINE f == [k \in 1 .. Len(vma_list) |-> k]
    <3>1. \A k \in 1 .. Len(vma_list) : vma_list[k].vaddr # r.vaddr
      BY <2>1 DEF Found
    <3>2. Kept(f)
      BY <2>1, <3>1
    <3> HIDE DEF Kept, f
    <3>3. \E g : Kept(g)
      BY <3>2
    <3> QED
      BY <1>4, <2>1, <3>3
  <2>2. ASSUME NEW i \in 1 .. Len(vma_list), vma_list[i].vaddr = r.vaddr,
               vma_list' = Without(vma_list, i)
        PROVE  vma_list' \in Seq(Node) /\ Len(vma_list') \in Nat
               /\ Len(vma_list') <= Len(vma_list) /\ \E f : Kept(f)
    <3>1. /\ vma_list' \in Seq(Node) /\ Len(vma_list') = Len(vma_list) - 1
          /\ \A k \in 1 .. Len(vma_list) - 1 :
                vma_list'[k] = IF k < i THEN vma_list[k] ELSE vma_list[k + 1]
      BY <1>4, <2>2, WithoutProperty
    <3>2. \A j \in 1 .. Len(vma_list) : j # i => vma_list[j].vaddr # r.vaddr
      BY <2>2 DEF VmaListSound
    <3> DEFINE f == [k \in 1 .. Len(vma_list') |-> IF k < i THEN k ELSE k + 1]
    <3>3. \A k \in 1 .. Len(vma_list') : f[k] = (IF k < i THEN k ELSE k + 1)
                                         /\ f[k] \in 1 .. Len(vma_list) /\ f[k] # i
      BY <1>4, <3>1
    <3>4. f \in [1 .. Len(vma_list') -> 1 .. Len(vma_list)]
      BY <3>3
    <3> HIDE DEF f
    <3>5. \A k \in 1 .. Len(vma_list') :
             vma_list'[k] = vma_list[f[k]] /\ vma_list[f[k]].vaddr # r.vaddr
      BY <3>1, <3>2, <3>3
    <3>6. \A j, k \in 1 .. Len(vma_list') : f[j] = f[k] => j = k
      <4> SUFFICES ASSUME NEW j \in 1 .. Len(vma_list'), NEW k \in 1 .. Len(vma_list'),
                          f[j] = f[k]
                   PROVE  j = k
        OBVIOUS
      <4>1. f[j] = (IF j < i THEN j ELSE j + 1) /\ f[k] = (IF k < i THEN k ELSE k + 1)
        BY <3>3
      <4>2. j \in Nat /\ k \in Nat /\ i \in Nat
        BY <1>4, <3>1
      <4>3. (IF j < i THEN j ELSE j + 1) = (IF k < i THEN k ELSE k + 1)
        BY <4>1
      <4> QED
        BY <4>2, <4>3
    <3>7. ASSUME NEW j \in 1 .. Len(vma_list), vma_list[j].vaddr # r.vaddr
          PROVE  \E k \in 1 .. Len(vma_list') : f[k] = j
      <4>1. j # i
        BY <2>2, <3>7
      <4>2. CASE j < i
        <5>1. j \in 1 .. Len(vma_list') /\ f[j] = j
          BY <1>4, <3>1, <3>3, <4>2
        <5> QED
          BY <5>1
      <4>3. CASE j > i
        <5>1. j - 1 \in 1 .. Len(vma_list') /\ f[j - 1] = j
          BY <1>4, <3>1, <3>3, <4>3
        <5> QED
          BY <5>1
      <4> QED
        BY <1>4, <4>1, <4>2, <4>3
    <3>8. Kept(f)
      BY <3>4, <3>5, <3>6, <3>7
    <3> HIDE DEF Kept
    <3> QED
      BY <1>4, <3>1, <3>8
  <2> QED
    BY <1>3, <2>1, <2>2
<1>7. PICK f : Kept(f)
  BY <1>6
<1>8. ASSUME NEW k \in 1 .. Len(vma_list')
      PROVE  \E s \in live' : vma_list'[k] = [vaddr |-> s.vaddr, pages |-> s.pages]
  <2>1. f[k] \in 1 .. Len(vma_list) /\ vma_list'[k] = vma_list[f[k]]
        /\ vma_list[f[k]].vaddr # r.vaddr
    BY <1>7
  <2>2. PICK s \in live : vma_list[f[k]] = [vaddr |-> s.vaddr, pages |-> s.pages]
    BY <1>5, <2>1
  <2>3. s.vaddr # r.vaddr
    BY <2>1, <2>2
  <2> QED
    BY <1>1, <2>1, <2>2, <2>3
<1>9. ASSUME NEW j \in 1 .. Len(vma_list'), NEW k \in 1 .. Len(vma_list'),
             vma_list'[j].vaddr = vma_list'[k].vaddr
      PROVE  j = k
  <2>1. /\ f[j] \in 1 .. Len(vma_list) /\ vma_list'[j] = vma_list[f[j]]
        /\ f[k] \in 1 .. Len(vma_list) /\ vma_list'[k] = vma_list[f[k]]
    BY <1>7
  <2>2. f[j] = f[k]
    BY <1>9, <2>1 DEF VmaListSound
  <2> QED
    BY <1>7, <2>2
<1>10. ASSUME ~ history'.unlisted, NEW s \in live'
       PROVE  Found(vma_list', s.vaddr) # {}
  <2>1. s \in live /\ s # r
    BY <1>1
  <2>2. PICK j \in 1 .. Len(vma_list) : vma_list[j].vaddr = s.vaddr
    BY <1>2, <1>10, <2>1 DEF VmaListSound, Found
  <2>3. s.vaddr # r.vaddr
    BY <2>1, SameAddress
  <2>4. PICK k \in 1 .. Len(vma_list') : f[k] = j
    BY <1>7, <2>2, <2>3
  <2>5. vma_list'[k].vaddr = s.vaddr
    BY <1>7, <2>2, <2>4
  <2> QED
    BY <2>5 DEF Found
<1>11. VmaTyped'
  BY <1>1, <1>2, <1>6 DEF VmaTyped
<1>12. VmaListSound'
  <2>1. \A s \in live' : s.vaddr + s.pages <= next_vaddr'
    BY <1>1 DEF VmaListSound
  <2>2. \A s, t \in live' : s # t => PagesOf(s) \cap PagesOf(t) = {}
    BY <1>1 DEF VmaListSound
  <2>3. Len(vma_list') <= vma_count'
    BY <1>1, <1>4, <1>6
  <2>4. \A j, k \in 1 .. Len(vma_list') : vma_list'[j].vaddr = vma_list'[k].vaddr => j = k
    BY <1>9
  <2> QED
    BY <1>8, <1>10, <2>1, <2>2, <2>3, <2>4 DEF VmaListSound, PagesOf
<1> QED
  BY <1>11, <1>12

(* Every step preserves the invariant.                                     *)
LEMMA VmaStep == VmaInv /\ [VmmNext]_vmm_vars => VmaInv'
<1> SUFFICES ASSUME VmaInv, [VmmNext]_vmm_vars PROVE VmaInv'
  OBVIOUS
<1>1. ASSUME NEW n \in Counts, vmm_alloc(n) PROVE VmaInv'
  BY <1>1, AllocVma
<1>2. ASSUME NEW r \in live, vmm_free(r) PROVE VmaInv'
  BY <1>2, FreeVma
<1>3. ASSUME UNCHANGED <<vma_list, vma_count, next_vaddr, live, history>> PROVE VmaInv'
  BY <1>3 DEF VmaInv, VmaTyped, VmaListSound, PagesOf, Found
<1>4. ASSUME NEW r \in live, store(r) PROVE VmaInv'
  BY <1>3, <1>4 DEF store
<1>5. CASE UNCHANGED vmm_vars
  BY <1>3, <1>5 DEF vmm_vars
<1> QED
  BY <1>1, <1>2, <1>4, <1>5 DEF VmmNext

(* The list of vmm.c is sound in every reachable state.                    *)
LEMMA VmaInvariant == VmmSpec => []VmaInv
BY VmaInit, VmaStep, PTL DEF VmmSpec

(* The VMA list and the bump pointer agree with what owners hold: regions  *)
(* never overlap, every node is a region in somebody's hands, and only a   *)
(* full node array leaves a region without one.                            *)
THEOREM VmmListSound == VmmSpec => []VmaListSound
<1>1. VmaInv => VmaListSound
  BY DEF VmaInv
<1> QED
  BY <1>1, VmaInvariant, PTL

-----------------------------------------------------------------------------
Held == { [vaddr |-> r.vaddr, pages |-> r.pages] : r \in live }

(* vmm.c implements the abstract allocator of address ranges: Process,     *)
(* which is built on the abstraction, may rely on it.                      *)
THEOREM VmmRefinement == VmmSpec => VmmImplementsRegionAllocator
<1>1. VmmInit => Regions!Init
  BY StartVaddrsAssumption DEF VmmInit, Regions!Init
<1>2. VmaInv /\ [VmmNext]_vmm_vars => [Regions!Next]_(Regions!vars)
  <2> SUFFICES ASSUME VmaInv, [VmmNext]_vmm_vars PROVE [Regions!Next]_(Regions!vars)
    OBVIOUS
  <2>1. ASSUME UNCHANGED <<next_vaddr, live>> PROVE [Regions!Next]_(Regions!vars)
    BY <2>1 DEF Regions!vars
  <2>2. ASSUME NEW n \in Counts, vmm_alloc(n) PROVE [Regions!Next]_(Regions!vars)
    <3>1. \/ UNCHANGED <<next_vaddr, live>>
          \/ /\ next_vaddr' = next_vaddr + n
             /\ \E fs : live' = live \cup {[vaddr |-> next_vaddr, pages |-> n, frames |-> fs]}
      BY <2>2 DEF vmm_alloc, RegionEnd
    <3>2. ASSUME NEW fs, next_vaddr' = next_vaddr + n,
                 live' = live \cup {[vaddr |-> next_vaddr, pages |-> n, frames |-> fs]}
          PROVE  Regions!Alloc
      <4> DEFINE new == [vaddr |-> next_vaddr, pages |-> n, frames |-> fs]
                 Part(s) == [vaddr |-> s.vaddr, pages |-> s.pages]
      <4>1. Held' = Held \cup {[vaddr |-> next_vaddr, pages |-> n]}
        <5>1. Part(new) = [vaddr |-> next_vaddr, pages |-> n]
          OBVIOUS
        <5>2. live' = live \cup {new}
          BY <3>2
        <5>3. Held = { Part(s) : s \in live } /\ Held' = { Part(s) : s \in live' }
          BY DEF Held
        <5> HIDE DEF new, Part
        <5> QED
          BY <5>1, <5>2, <5>3, Zenon
      <4> QED
        BY <3>2, <4>1 DEF Regions!Alloc, Held
    <3> QED
      BY <2>1, <3>1, <3>2 DEF Regions!Next
  <2>3. ASSUME NEW r \in live, vmm_free(r) PROVE [Regions!Next]_(Regions!vars)
    <3>1. live' = live \ {r} /\ next_vaddr' = next_vaddr
      BY <2>3 DEF vmm_free
    <3> DEFINE x == [vaddr |-> r.vaddr, pages |-> r.pages]
    <3>2. x \in Held
      BY DEF Held
    <3>3. \A s \in live : [vaddr |-> s.vaddr, pages |-> s.pages] = x => s = r
      BY SameAddress
    <3>4. Held' = Held \ {x}
      BY <3>1, <3>3 DEF Held
    <3>5. Regions!Free
      BY <3>1, <3>2, <3>4 DEF Regions!Free, Held
    <3> QED
      BY <3>5 DEF Regions!Next
  <2>4. ASSUME NEW r \in live, store(r) PROVE [Regions!Next]_(Regions!vars)
    BY <2>1, <2>4 DEF store
  <2>5. CASE UNCHANGED vmm_vars
    BY <2>1, <2>5 DEF vmm_vars
  <2> QED
    BY <2>2, <2>3, <2>4, <2>5 DEF VmmNext
<1> QED
  BY <1>1, <1>2, VmaInvariant, PTL DEF VmmSpec, VmmImplementsRegionAllocator, Regions!Spec

-----------------------------------------------------------------------------
(* The invariant of Vmm                                                    *)

LiveFrames == UNION { { r.frames[i] : i \in 1 .. r.pages } : r \in live }

LiveMapped == \A r \in live : \A i \in 1 .. r.pages : Maps(machine, r.vaddr + i - 1, r.frames[i])

NoMishap == \A h \in Mishaps : ~ history[h]

MemoryTyped ==
    /\ machine \in Machine
    /\ history \in [Mishaps -> BOOLEAN]
    /\ panicked \in BOOLEAN
    /\ vma_count \in 0 .. MaxVma
    /\ \E s \in StartVaddrs : s <= next_vaddr
    /\ \A r \in live : /\ r.frames \in Seq(Frames) /\ Len(r.frames) = r.pages
                       /\ \A i \in 1 .. r.pages : r.vaddr + i - 1 \in Window

(* The tables and the data frames of the machine are as boot b and the     *)
(* owners' regions ask for, with tables K.                                 *)
Sound(m, b, K) ==
    /\ TreeInv(m, b, K)
    /\ ~ history.starved => LiveMapped
    /\ NoMishap => Data(m, K) = LiveFrames /\ NoneEmpty(m, b, K)

MemorySound ==
    /\ CountsApart /\ ~ history.wild => \E b \in Boots : \E K : Sound(machine, b, K)
    /\ CountsApart /\ ~ history.starved => ~ history.wild

MemoryInv == VmaInv /\ MemoryTyped /\ MemorySound

-----------------------------------------------------------------------------
(* The initial state                                                       *)

LEMMA BootFrames ==
    ASSUME NEW b \in Boots
    PROVE  /\ InitialBitmap(b.mmap) \subseteq Frames /\ Usable(b.mmap) \subseteq Frames
           /\ Usable(b.mmap) \cap InitialBitmap(b.mmap) = {}
           /\ Frames \ InitialBitmap(b.mmap) \subseteq Usable(b.mmap)
<1> DEFINE mmap == b.mmap
<1>1. \A i \in DOMAIN mmap : mmap[i] \in Descriptor
  BY BootsAssumption
<1> HIDE DEF mmap
<1>2. ConventionalFrames(mmap) \subseteq Nat
  BY <1>1 DEF ConventionalFrames, Descriptor
<1>3. Usable(mmap) \subseteq Frames /\ InitialBitmap(mmap) \subseteq Frames
  BY <1>2, NFramesAssumption, ReservedAssumption DEF Usable, Frames, InitialBitmap
<1>4. /\ Usable(mmap) \cap InitialBitmap(mmap) = {}
      /\ Frames \ InitialBitmap(mmap) \subseteq Usable(mmap)
  BY <1>2, NFramesAssumption, ReservedAssumption DEF Usable, Frames, InitialBitmap
<1> QED
  BY <1>3, <1>4 DEF mmap

LEMMA BootTree ==
    ASSUME NEW b \in Boots, NEW m, m.mem = b.mem, m.bits = InitialBitmap(b.mmap),
           m.pool = Usable(b.mmap), m \in Machine, ~ Overlap(m), ~ Uncounted(m)
    PROVE  TreeInv(m, b, Levels(b)) /\ Data(m, Levels(b)) = {} /\ NoneEmpty(m, b, Levels(b))
<1> DEFINE L == Levels(b)
<1>1. /\ L[3] = {Root} /\ L[2] = Below(b, L[3]) /\ L[1] = Below(b, L[2]) /\ L[0] = Below(b, L[1])
      /\ L \in [0 .. 3 -> SUBSET Frames] /\ Tables(b) = AllIn(L)
      /\ Tables(b) \subseteq Frames /\ NULL \notin Tables(b)
  BY FirmwareTables
<1>2. TablesFormTree(b)
  BY FirmwareAssumption DEF FirmwareSound
<1>3. Levels(m) = L
  BY DEF Levels, Below
<1>4. ReachableTables(m) = ReachableTables(b) /\ Tables(m) = Tables(b)
  BY <1>3 DEF Tables, ReachableTables
<1>5. ~ Uncounted(b)
  BY <1>4 DEF Uncounted, ref_count
<1>6. InUse(m) = {} /\ Frames \ m.bits \subseteq m.pool
  BY BootFrames DEF InUse
<1>7. TreeShape(m, L)
  <2>1. \A k \in 1 .. 3 : L[k - 1] = Below(b, L[k])
    <3> HIDE DEF L
    <3> SUFFICES ASSUME NEW k \in 1 .. 3 PROVE L[k - 1] = Below(b, L[k])
      OBVIOUS
    <3>1. (k = 1 /\ k - 1 = 0) \/ (k = 2 /\ k - 1 = 1) \/ (k = 3 /\ k - 1 = 2)
      OBVIOUS
    <3> QED
      BY <1>1, <3>1
  <2>2. \A k \in 1 .. 3 : L[k - 1] = Below(m, L[k])
    BY <2>1, SameMemory
  <2>3. /\ \A j, k \in 0 .. 3 : j # k => L[j] \cap L[k] = {}
        /\ \A k \in 1 .. 3 : LinksUnique(b, L[k])
    BY <1>2 DEF TablesFormTree, LinksUnique
  <2>4. \A k \in 1 .. 3 : LinksUnique(m, L[k])
    BY <2>3, SameMemory
  <2> HIDE DEF L
  <2> QED
    BY <1>1, <2>2, <2>3, <2>4 DEF TreeShape
<1> HIDE DEF L
<1>8. CountsClear(m, L)
  BY <1>1, <1>4 DEF CountsClear, Overlap, CountInUse
<1>9. \A t \in AllIn(L) : Added(m, b, t) = {}
  BY <1>1 DEF Added, Firm
<1>10. \A k \in 0 .. 3 : L[k] \subseteq AllIn(L)
  BY AllIff
<1>11. TablesOwned(m, b, L) /\ FirmwareKept(m, b)
  BY <1>1 DEF TablesOwned, FirmwareKept
<1>12. LinksOwned(m, b, L) /\ LeavesOwned(m, b, L)
  BY <1>9, <1>10 DEF LinksOwned, LeavesOwned
<1>13. CountsExact(m, b, L)
  <2> SUFFICES ASSUME NEW t \in AllIn(L)
               PROVE  ref_count(m, t) = Base(b, t) + Cardinality(Added(m, b, t))
    BY DEF CountsExact
  <2>1. Cardinality(Added(m, b, t)) = 0
    BY <1>9, FS_EmptySet
  <2>2. Base(b, t) = b.mem[t + 1][0]
    BY <1>1 DEF Base
  <2>3. b.mem[t + 1][0] \in Nat
    <3>1. t \in Frames
      BY <1>1
    <3>2. t + 1 \in 0 .. NFrames /\ 0 \in Index
      BY <3>1, Sizes DEF Frames
    <3> QED
      BY <3>2, MemoryFacts, Sizes
  <2> QED
    BY <2>1, <2>2, <2>3 DEF ref_count
<1>14. BootFacts(m, b)
  BY <1>5 DEF BootFacts
<1>15. TreeInv(m, b, L)
  BY <1>6, <1>7, <1>8, <1>11, <1>12, <1>13, <1>14 DEF TreeInv
<1>16. Data(m, L) = {} /\ NoneEmpty(m, b, L)
  BY <1>1, <1>6 DEF Data, NoneEmpty
<1> QED
  BY <1>15, <1>16 DEF L

LEMMA MemoryInit == VmmInit => MemoryInv
<1> SUFFICES ASSUME VmmInit PROVE MemoryInv
  OBVIOUS
<1>1. VmaInv
  BY VmaInit
<1>2. PICK b \in Boots :
         machine = [mem |-> b.mem, bits |-> InitialBitmap(b.mmap), pool |-> Usable(b.mmap),
                    starved |-> FALSE, wild |-> FALSE, shared |-> FALSE]
  BY DEF VmmInit
<1>3. b.mem \in Memory /\ InitialBitmap(b.mmap) \subseteq Frames /\ Usable(b.mmap) \subseteq Frames
  BY BootsAssumption, BootFrames
<1>4. machine \in Machine
  BY <1>2, <1>3 DEF Machine
<1>5. /\ history = [h \in Mishaps |->
                     (h = "overlap" /\ Overlap(machine)) \/ (h = "uncounted" /\ Uncounted(machine))]
      /\ next_vaddr \in StartVaddrs /\ live = {} /\ vma_count = 0 /\ panicked = FALSE
  BY DEF VmmInit
<1>6. MemoryTyped
  <2>1. Overlap(machine) \in BOOLEAN /\ Uncounted(machine) \in BOOLEAN
    BY DEF Overlap, Uncounted
  <2>2. history \in [Mishaps -> BOOLEAN]
    BY <1>5
  <2>3. next_vaddr <= next_vaddr /\ vma_count \in 0 .. MaxVma
    BY <1>5, StartVaddrsAssumption, MaxVmaAssumption
  <2> QED
    BY <1>4, <1>5, <2>2, <2>3 DEF MemoryTyped
<1>7. ASSUME CountsApart PROVE Sound(machine, b, Levels(b))
  <2>1. ~ Overlap(machine) /\ ~ Uncounted(machine)
    BY <1>5, <1>7 DEF CountsApart, Mishaps
  <2>2. /\ machine.mem = b.mem /\ machine.bits = InitialBitmap(b.mmap)
        /\ machine.pool = Usable(b.mmap)
    BY <1>2
  <2>3. /\ TreeInv(machine, b, Levels(b)) /\ Data(machine, Levels(b)) = {}
        /\ NoneEmpty(machine, b, Levels(b))
    BY <1>4, <2>1, <2>2, BootTree
  <2>4. LiveFrames = {} /\ LiveMapped
    BY <1>5 DEF LiveFrames, LiveMapped
  <2> QED
    BY <2>3, <2>4 DEF Sound
<1>8. ~ history.wild
  BY <1>5 DEF Mishaps
<1> QED
  BY <1>1, <1>6, <1>7, <1>8 DEF MemoryInv, MemorySound

-----------------------------------------------------------------------------
(* vmm_alloc                                                               *)

LEMMA WatchedFacts ==
    ASSUME NEW m \in Machine, NEW w, w = Watched(m)
    PROVE  /\ w \in Machine /\ w.mem = m.mem /\ w.bits = m.bits /\ w.pool = m.pool
           /\ ~ w.starved /\ ~ w.wild /\ ~ w.shared
BY DEF Watched, Machine

(* A page of the next region is one of those handed out.                   *)
LEMMA NextPages ==
    ASSUME MemoryInv, NEW n \in Counts, vmm_alloc(n)
    PROVE  \A i \in 1 .. n : next_vaddr + i - 1 \in Window
<1>1. PICK v \in StartVaddrs : next_vaddr + n \in v .. v + MaxPages
  BY DEF vmm_alloc
<1>2. PICK s \in StartVaddrs : s <= next_vaddr
  BY DEF MemoryInv, MemoryTyped
<1>3. next_vaddr \in Nat /\ n \in Nat /\ v \in Nat /\ s \in Nat /\ MaxPages \in Nat
  BY StartVaddrsAssumption, CountsAssumption, MaxPagesAssumption DEF MemoryInv, VmaInv, VmaTyped
<1>4. \A i \in 1 .. n : next_vaddr + i - 1 \in s .. v + MaxPages - 1
  BY <1>1, <1>2, <1>3
<1> QED
  BY <1>4 DEF Window

(* What vmm_alloc changes.                                                 *)
LEMMA AllocEffect ==
    ASSUME MemoryInv, NEW n \in Counts, vmm_alloc(n), NEW r,
           r = MapPages(Watched(machine), next_vaddr, n)
    PROVE  /\ r \in Progress /\ Later(Watched(machine), r.m) /\ (~ r.oom => Len(r.frames) = n)
           /\ machine' = r.m /\ panicked' \in BOOLEAN
           /\ history' \in [Mishaps -> BOOLEAN]
           /\ history'.overlap = (history.overlap \/ r.m.shared)
           /\ history'.wild = (history.wild \/ r.m.wild)
           /\ history'.starved = (history.starved \/ r.m.starved)
           /\ history'.uncounted = history.uncounted
           /\ NoMishap' => NoMishap /\ ~ r.oom
           /\ \/ /\ r.oom /\ UNCHANGED <<next_vaddr, live, vma_count>>
              \/ /\ ~ r.oom /\ vma_count' \in {vma_count, vma_count + 1}
                 /\ vma_count' # vma_count => vma_count < MaxVma
                 /\ next_vaddr' = next_vaddr + n
                 /\ live' = live \cup {[vaddr |-> next_vaddr, pages |-> n, frames |-> r.frames]}
<1> DEFINE w == Watched(machine)
<1>1. machine \in Machine /\ history \in [Mishaps -> BOOLEAN] /\ next_vaddr \in Nat /\ n \in Nat
  BY CountsAssumption DEF MemoryInv, MemoryTyped, VmaInv, VmaTyped
<1>2. w \in Machine
  BY <1>1, WatchedFacts
<1>3. r \in Progress /\ Later(w, r.m) /\ (~ r.oom => Len(r.frames) = n)
  <2> HIDE DEF w
  <2>1. r = MapPages(w, next_vaddr, n)
    BY DEF w
  <2> QED
    BY <1>1, <1>2, <2>1, MapPagesProperty
<1>4. /\ machine' = r.m
      /\ panicked' \in (IF r.m.wild THEN BOOLEAN ELSE {FALSE})
      /\ history' = [overlap |-> history.overlap \/ r.m.shared,
                     oom |-> history.oom \/ r.oom,
                     starved |-> history.starved \/ r.m.starved,
                     wild |-> history.wild \/ r.m.wild,
                     unlisted |-> history.unlisted \/ (~ r.oom /\ ~ NodeLeft),
                     uncounted |-> history.uncounted]
      /\ IF r.oom
         THEN UNCHANGED <<vma_list, vma_count, next_vaddr, live>>
         ELSE /\ IF NodeLeft
                 THEN /\ vma_list' = <<[vaddr |-> next_vaddr, pages |-> n]>> \o vma_list
                      /\ vma_count' = vma_count + 1
                 ELSE UNCHANGED <<vma_list, vma_count>>
              /\ next_vaddr' = next_vaddr + n
              /\ live' = live \cup {[vaddr |-> next_vaddr, pages |-> n, frames |-> r.frames]}
  BY DEF vmm_alloc, RegionEnd
<1> HIDE DEF w
<1>5. r.m \in Machine /\ r.m.shared \in BOOLEAN /\ r.m.wild \in BOOLEAN /\ r.m.starved \in BOOLEAN
      /\ r.oom \in BOOLEAN
  BY <1>3 DEF Progress, Machine
<1>6. /\ history'.overlap = (history.overlap \/ r.m.shared)
      /\ history'.oom = (history.oom \/ r.oom)
      /\ history'.starved = (history.starved \/ r.m.starved)
      /\ history'.wild = (history.wild \/ r.m.wild)
      /\ history'.unlisted = (history.unlisted \/ (~ r.oom /\ ~ NodeLeft))
      /\ history'.uncounted = history.uncounted
  BY <1>4
<1>7. history' \in [Mishaps -> BOOLEAN]
  <2> DEFINE o == history.overlap \/ r.m.shared
             a == history.oom \/ r.oom
             s == history.starved \/ r.m.starved
             x == history.wild \/ r.m.wild
             u == history.unlisted \/ (~ r.oom /\ ~ NodeLeft)
             c == history.uncounted
  <2>1. history' = [overlap |-> o, oom |-> a, starved |-> s, wild |-> x,
                    unlisted |-> u, uncounted |-> c]
    BY <1>4
  <2>2. o \in BOOLEAN /\ a \in BOOLEAN /\ s \in BOOLEAN /\ x \in BOOLEAN /\ u \in BOOLEAN
        /\ c \in BOOLEAN
    BY <1>1 DEF Mishaps
  <2> HIDE DEF o, a, s, x, u, c
  <2> QED
    BY <2>1, <2>2 DEF Mishaps
<1>8. NoMishap' => NoMishap /\ ~ r.oom
  <2>1. NoMishap' => \A h \in Mishaps : ~ history'[h]
    BY DEF NoMishap
  <2>2. /\ NoMishap' => ~ history'.overlap /\ ~ history'.oom /\ ~ history'.starved
        /\ NoMishap' => ~ history'.wild /\ ~ history'.unlisted /\ ~ history'.uncounted
    BY <2>1 DEF Mishaps
  <2>3. /\ NoMishap' => ~ history.overlap /\ ~ history.oom /\ ~ history.starved /\ ~ r.oom
        /\ NoMishap' => ~ history.wild /\ ~ history.unlisted /\ ~ history.uncounted
    BY <1>6, <2>2
  <2> QED
    BY <2>3 DEF NoMishap, Mishaps
<1>9. /\ r.oom => UNCHANGED <<next_vaddr, live, vma_count>>
      /\ ~ r.oom => /\ vma_count' \in {vma_count, vma_count + 1}
                    /\ vma_count' # vma_count => vma_count < MaxVma
                    /\ next_vaddr' = next_vaddr + n
                    /\ live' = live \cup {[vaddr |-> next_vaddr, pages |-> n,
                                           frames |-> r.frames]}
  BY <1>4 DEF NodeLeft
<1>10. panicked' \in BOOLEAN
  BY <1>4
<1> QED
  BY <1>3, <1>4, <1>6, <1>7, <1>8, <1>9, <1>10 DEF w

(* vmm_alloc preserves the invariant.                                      *)
LEMMA AllocTyped ==
    ASSUME MemoryInv, NEW n \in Counts, vmm_alloc(n)
    PROVE  MemoryTyped'
<1> DEFINE r == MapPages(Watched(machine), next_vaddr, n)
           new == [vaddr |-> next_vaddr, pages |-> n, frames |-> r.frames]
<1>1. /\ r \in Progress /\ Later(Watched(machine), r.m) /\ (~ r.oom => Len(r.frames) = n)
      /\ machine' = r.m /\ panicked' \in BOOLEAN
      /\ history' \in [Mishaps -> BOOLEAN]
      /\ \/ /\ r.oom /\ UNCHANGED <<next_vaddr, live, vma_count>>
         \/ /\ ~ r.oom /\ vma_count' \in {vma_count, vma_count + 1}
            /\ vma_count' # vma_count => vma_count < MaxVma
            /\ next_vaddr' = next_vaddr + n /\ live' = live \cup {new}
  BY AllocEffect
<1>2. \A i \in 1 .. n : next_vaddr + i - 1 \in Window
  BY NextPages
<1>3. /\ new.vaddr = next_vaddr /\ new.pages = n /\ new.frames = r.frames
  OBVIOUS
<1> HIDE DEF new, r
<1>4. machine' \in Machine
  BY <1>1 DEF Progress
<1>5. MemoryTyped /\ next_vaddr \in Nat /\ n \in Nat
  BY CountsAssumption DEF MemoryInv, VmaInv, VmaTyped
<1>6. vma_count' \in 0 .. MaxVma
  BY <1>1, <1>5, MaxVmaAssumption DEF MemoryTyped
<1>7. \E s \in StartVaddrs : s <= next_vaddr'
  <2>1. PICK s \in StartVaddrs : s <= next_vaddr
    BY <1>5 DEF MemoryTyped
  <2>2. s \in Nat
    BY StartVaddrsAssumption
  <2>3. s <= next_vaddr'
    BY <1>1, <1>5, <2>1, <2>2
  <2> QED
    BY <2>1, <2>3
<1>8. ASSUME NEW s \in live'
      PROVE  /\ s.frames \in Seq(Frames) /\ Len(s.frames) = s.pages
             /\ \A i \in 1 .. s.pages : s.vaddr + i - 1 \in Window
  <2>1. CASE s \in live
    BY <1>5, <2>1 DEF MemoryTyped
  <2>2. CASE s = new /\ ~ r.oom
    BY <1>1, <1>2, <1>3, <2>2 DEF Progress
  <2> QED
    BY <1>1, <2>1, <2>2
<1> QED
  BY <1>1, <1>4, <1>6, <1>7, <1>8 DEF MemoryTyped

(* What the owners of the regions hold after vmm_alloc.                    *)
LEMMA AllocSound ==
    ASSUME MemoryInv, NEW n \in Counts, vmm_alloc(n)
    PROVE  MemorySound'
<1> DEFINE w == Watched(machine)
           r == MapPages(w, next_vaddr, n)
           new == [vaddr |-> next_vaddr, pages |-> n, frames |-> r.frames]
<1>1. /\ r \in Progress /\ Later(w, r.m) /\ (~ r.oom => Len(r.frames) = n)
      /\ machine' = r.m
      /\ history'.overlap = (history.overlap \/ r.m.shared)
      /\ history'.wild = (history.wild \/ r.m.wild)
      /\ history'.starved = (history.starved \/ r.m.starved)
      /\ history'.uncounted = history.uncounted
      /\ NoMishap' => NoMishap /\ ~ r.oom
      /\ \/ r.oom /\ live' = live
         \/ ~ r.oom /\ live' = live \cup {new}
  BY AllocEffect
<1>2. \A i \in 1 .. n : next_vaddr + i - 1 \in Window
  BY NextPages
<1>3. /\ new.vaddr = next_vaddr /\ new.pages = n /\ new.frames = r.frames
  OBVIOUS
<1>4. /\ machine \in Machine /\ next_vaddr \in Nat /\ n \in Nat
      /\ \A s \in live : /\ s.vaddr \in Nat /\ s.pages \in Nat
                         /\ s.vaddr + s.pages <= next_vaddr
                         /\ \A i \in 1 .. s.pages : s.vaddr + i - 1 \in Window
  BY CountsAssumption DEF MemoryInv, MemoryTyped, VmaInv, VmaTyped, VmaListSound
<1>5. w \in Machine /\ w.mem = machine.mem /\ w.bits = machine.bits /\ w.pool = machine.pool
      /\ ~ w.wild
  BY <1>4, WatchedFacts
<1> HIDE DEF w
<1>6. r = MapPages(w, next_vaddr, n)
  OBVIOUS
<1> HIDE DEF r, new
<1>wild. ASSUME CountsApart', ~ history'.starved PROVE ~ history'.wild
  <2>1. CountsApart /\ ~ history.starved /\ ~ history.wild /\ ~ r.m.shared /\ ~ r.m.starved
    BY <1>1, <1>wild DEF CountsApart, MemoryInv, MemorySound
  <2>2. PICK b \in Boots : \E K : Sound(machine, b, K)
    BY <2>1 DEF MemoryInv, MemorySound
  <2>3. PICK K : Sound(machine, b, K)
    BY <2>2
  <2>4. TreeInv(w, b, K)
    BY <1>5, <2>3, TreeSame DEF Sound
  <2>6. ~ r.m.wild
    BY <1>2, <1>4, <1>5, <1>6, <2>1, <2>4, MapPagesProperty
  <2> QED
    BY <1>1, <2>1, <2>6
<1> SUFFICES ASSUME CountsApart', ~ history'.wild
             PROVE  \E b \in Boots : \E K : Sound(machine, b, K)'
  BY <1>wild DEF MemorySound
<1>7. ~ r.m.shared /\ ~ r.m.wild /\ CountsApart /\ ~ history.wild
  BY <1>1 DEF CountsApart
<1>8. PICK b \in Boots : \E K : Sound(machine, b, K)
  BY <1>7 DEF MemoryInv, MemorySound
<1>9. PICK K : Sound(machine, b, K)
  BY <1>8
<1>10. TreeInv(w, b, K) /\ Data(w, K) = Data(machine, K)
       /\ (NoneEmpty(machine, b, K) => NoneEmpty(w, b, K))
  <2>1. TreeInv(w, b, K) /\ Data(w, K) = Data(machine, K)
    BY <1>5, <1>9, TreeSame DEF Sound
  <2> QED
    BY <1>5, <2>1, SameMemory DEF NoneEmpty
<1>11. PICK K2 : Mapped(w, b, K, next_vaddr, r, K2)
  BY <1>2, <1>4, <1>5, <1>6, <1>7, <1>10, MapPagesProperty
<1>12. TreeInv(machine', b, K2)
  BY <1>1, <1>11 DEF Mapped
<1>13. ASSUME ~ history'.starved PROVE LiveMapped'
  <2>1. ~ r.m.starved /\ ~ history.starved
    BY <1>1, <1>13
  <2>2. LiveMapped
    BY <1>9, <2>1 DEF Sound
  <2>3. \A i \in 1 .. Len(r.frames) : Maps(r.m, next_vaddr + i - 1, r.frames[i])
    BY <1>11, <2>1 DEF Mapped
  <2>4. Len(r.frames) \in Nat
    BY <1>1, LenProperties DEF Progress
  <2>5. ASSUME NEW s \in live, NEW i \in 1 .. s.pages
        PROVE  Maps(r.m, s.vaddr + i - 1, s.frames[i])
    <3>1. Maps(machine, s.vaddr + i - 1, s.frames[i])
      BY <2>2 DEF LiveMapped
    <3>2. Maps(w, s.vaddr + i - 1, s.frames[i])
      BY <1>5, <3>1 DEF Maps, Chain
    <3>3. \A j \in 1 .. Len(r.frames) : s.vaddr + i - 1 # next_vaddr + j - 1
      BY <1>4, <2>4
    <3>4. s.vaddr + i - 1 \in Window
      BY <1>4
    <3> QED
      BY <1>11, <3>2, <3>3, <3>4 DEF Mapped
  <2>6. ASSUME NEW s \in live', NEW i \in 1 .. s.pages
        PROVE  Maps(r.m, s.vaddr + i - 1, s.frames[i])
    <3>1. CASE s \in live
      BY <2>5, <3>1
    <3>2. CASE s = new /\ ~ r.oom
      BY <1>1, <1>3, <2>3, <3>2
    <3> QED
      BY <1>1, <3>1, <3>2
  <2> QED
    BY <1>1, <2>6 DEF LiveMapped
<1>14. ASSUME NoMishap' PROVE Data(machine', K2) = LiveFrames' /\ NoneEmpty(machine', b, K2)
  <2>1. NoMishap /\ ~ r.oom /\ ~ r.m.starved
    <3>1. NoMishap /\ ~ r.oom
      BY <1>1, <1>14
    <3>2. ~ history'.starved
      BY <1>14 DEF NoMishap, Mishaps
    <3> QED
      BY <1>1, <3>1, <3>2
  <2>2. Data(machine, K) = LiveFrames /\ NoneEmpty(machine, b, K)
    BY <1>9, <2>1 DEF Sound
  <2>3. NoneEmpty(machine', b, K2)
    BY <1>1, <1>10, <1>11, <2>1, <2>2 DEF Mapped
  <2>4. Data(machine', K2) = LiveFrames \cup { r.frames[i] : i \in 1 .. n }
    BY <1>1, <1>10, <1>11, <2>1, <2>2 DEF Mapped
  <2>5. LiveFrames' = LiveFrames \cup { r.frames[i] : i \in 1 .. n }
    <3> DEFINE Of(s) == { s.frames[i] : i \in 1 .. s.pages }
    <3>1. live' = live \cup {new} /\ Of(new) = { r.frames[i] : i \in 1 .. n }
      BY <1>1, <1>3, <2>1
    <3>2. LiveFrames = UNION { Of(s) : s \in live } /\ LiveFrames' = UNION { Of(s) : s \in live' }
      BY DEF LiveFrames
    <3> HIDE DEF Of
    <3> QED
      BY <3>1, <3>2
  <2> QED
    BY <2>3, <2>4, <2>5
<1> QED
  BY <1>12, <1>13, <1>14 DEF Sound

-----------------------------------------------------------------------------
(* vmm_free                                                                *)

(* Two pages of the window are never mapped to the same frame.             *)
LEMMA MapsApart ==
    ASSUME NEW m, NEW b, NEW K, TreeInv(m, b, K),
           NEW u \in Window, NEW v \in Window, NEW f, Maps(m, u, f), Maps(m, v, f)
    PROVE  u = v
<1>1. paging_get_physical(m, u) = f /\ paging_get_physical(m, v) = f /\ f # NULL
  <2>1. NULL \notin Data(m, K)
    BY TreeFacts DEF Data, InUse
  <2> QED
    BY <2>1, MapsWalk
<1> DEFINE c == Way(m, u)
           d == Way(m, v)
<1>2. /\ Chain(m, u, c) /\ IndexAt(u, 0) \in Added(m, b, c[0])
      /\ f = FrameOf(m.mem[c[0]][IndexAt(u, 0)])
  BY <1>1, WalkMapped
<1>3. /\ Chain(m, v, d) /\ IndexAt(v, 0) \in Added(m, b, d[0])
      /\ f = FrameOf(m.mem[d[0]][IndexAt(v, 0)])
  BY <1>1, WalkMapped
<1> HIDE DEF c, d
<1>4. c[0] \in K[0] /\ d[0] \in K[0]
  BY <1>2, <1>3, ChainIn, 0 \in 0 .. 3
<1>5. LeavesOwned(m, b, K)
  BY DEF TreeInv
<1>6. c[0] = d[0] /\ IndexAt(u, 0) = IndexAt(v, 0)
  <2>1. \A i \in Added(m, b, c[0]) : \A j \in Added(m, b, d[0]) :
           FrameOf(m.mem[c[0]][i]) = FrameOf(m.mem[d[0]][j]) => c[0] = d[0] /\ i = j
    BY <1>4, <1>5 DEF LeavesOwned
  <2>2. IndexAt(u, 0) \in Added(m, b, c[0]) /\ IndexAt(v, 0) \in Added(m, b, d[0])
        /\ FrameOf(m.mem[c[0]][IndexAt(u, 0)]) = FrameOf(m.mem[d[0]][IndexAt(v, 0)])
    BY <1>2, <1>3
  <2> QED
    BY <2>1, <2>2
<1> QED
  BY <1>2, <1>3, <1>6, ChainSame

(* The frames of two regions are apart.                                    *)
LEMMA FramesApart ==
    ASSUME MemoryInv, NEW b, NEW K, TreeInv(machine, b, K), LiveMapped,
           NEW r \in live, NEW s \in live, NEW i \in 1 .. r.pages, NEW j \in 1 .. s.pages,
           r.frames[i] = s.frames[j]
    PROVE  r = s /\ i = j
<1> DEFINE u == r.vaddr + i - 1
           v == s.vaddr + j - 1
<1>1. u \in Window /\ v \in Window
  BY DEF MemoryInv, MemoryTyped
<1>2. Maps(machine, u, r.frames[i]) /\ Maps(machine, v, r.frames[i])
  BY DEF LiveMapped
<1>3. u = v
  <2> HIDE DEF u, v
  <2> QED
    BY <1>1, <1>2, MapsApart
<1>4. r.vaddr \in Nat /\ r.pages \in Nat /\ s.vaddr \in Nat /\ s.pages \in Nat
  BY CountsAssumption DEF MemoryInv, VmaInv, VmaTyped
<1>5. u \in PagesOf(r) /\ u \in PagesOf(s)
  BY <1>3, <1>4 DEF PagesOf
<1>6. r = s
  BY <1>5 DEF MemoryInv, VmaInv, VmaListSound
<1> QED
  BY <1>3, <1>4, <1>6

(* The node that vmm_free finds gives the region's pages.                  *)
LEMMA FreeEffect ==
    ASSUME MemoryInv, NEW r \in live, vmm_free(r)
    PROVE  /\ live' = live \ {r} /\ history' = history
           /\ UNCHANGED <<vma_count, next_vaddr, panicked>>
           /\ \/ Found(vma_list, r.vaddr) = {} /\ machine' = machine
              \/ machine' = UnmapPages(machine, r.vaddr, r.pages)
<1>1. CASE Found(vma_list, r.vaddr) = {}
  BY <1>1 DEF vmm_free
<1>2. CASE Found(vma_list, r.vaddr) # {}
  <2> DEFINE i == Lowest(Found(vma_list, r.vaddr))
  <2>1. machine' = UnmapPages(machine, vma_list[i].vaddr, vma_list[i].pages)
    BY <1>2 DEF vmm_free
  <2>2. i \in 1 .. Len(vma_list) /\ vma_list[i].vaddr = r.vaddr
    BY <1>2, FoundOne DEF MemoryInv
  <2> HIDE DEF i
  <2>3. PICK s \in live : vma_list[i] = [vaddr |-> s.vaddr, pages |-> s.pages]
    BY <2>2 DEF MemoryInv, VmaInv, VmaListSound
  <2>4. s = r
    BY <2>2, <2>3, SameAddress DEF MemoryInv
  <2>5. vma_list[i].pages = r.pages
    BY <2>3, <2>4
  <2> QED
    BY <2>1, <2>2, <2>5 DEF vmm_free
<1> QED
  BY <1>1, <1>2

LEMMA FreeMemory ==
    ASSUME MemoryInv, NEW r \in live, vmm_free(r)
    PROVE  MemoryTyped' /\ MemorySound'
<1>1. /\ live' = live \ {r} /\ history' = history
      /\ UNCHANGED <<vma_count, next_vaddr, panicked>>
      /\ \/ Found(vma_list, r.vaddr) = {} /\ machine' = machine
         \/ machine' = UnmapPages(machine, r.vaddr, r.pages)
  BY FreeEffect
<1>2. /\ machine \in Machine /\ r.vaddr \in Nat /\ r.pages \in Nat
      /\ \A s \in live : /\ s.vaddr \in Nat /\ s.pages \in Nat
                         /\ \A i \in 1 .. s.pages : s.vaddr + i - 1 \in Window
  BY CountsAssumption DEF MemoryInv, MemoryTyped, VmaInv, VmaTyped
<1>3. machine' \in Machine
  BY <1>1, <1>2, UnmapPagesProperty DEF Same
<1>4. MemoryTyped'
  BY <1>1, <1>3 DEF MemoryInv, MemoryTyped
<1>5. MemorySound'
  <2> SUFFICES ASSUME CountsApart', ~ history'.wild
               PROVE  \E b \in Boots : \E K : Sound(machine, b, K)'
    BY <1>1 DEF MemoryInv, MemorySound, CountsApart
  <2>1. CountsApart /\ ~ history.wild
    BY <1>1 DEF CountsApart
  <2>2. PICK b \in Boots : \E K : Sound(machine, b, K)
    BY <2>1 DEF MemoryInv, MemorySound
  <2>3. PICK K : Sound(machine, b, K)
    BY <2>2
  <2>4. TreeInv(machine, b, K)
    BY <2>3 DEF Sound
  <2>5. CASE Found(vma_list, r.vaddr) = {} /\ machine' = machine
    <3>1. ~ NoMishap
      <4>1. history.unlisted
        BY <2>5 DEF MemoryInv, VmaInv, VmaListSound
      <4> QED
        BY <4>1 DEF NoMishap, Mishaps
    <3>2. ~ NoMishap' /\ (history'.starved = history.starved)
      BY <1>1, <3>1 DEF NoMishap
    <3>3. LiveMapped => LiveMapped'
      BY <1>1, <2>5 DEF LiveMapped
    <3>4. TreeInv(machine', b, K) /\ (~ history'.starved => LiveMapped')
      BY <2>3, <2>5, <3>2, <3>3 DEF Sound
    <3> QED
      BY <3>2, <3>4 DEF Sound
  <2>6. CASE machine' = UnmapPages(machine, r.vaddr, r.pages)
    <3>1. \A i \in 1 .. r.pages : r.vaddr + i - 1 \in Window
      BY <1>2
    <3>2. PICK K2 : Unmapped(machine, b, K, r.vaddr, r.pages, r.frames, machine', r.pages, K2)
      BY <1>2, <2>4, <2>6, <3>1, UnmapPagesProperty
    <3>3. TreeInv(machine', b, K2)
      BY <3>2 DEF Unmapped
    <3>4. ASSUME ~ history'.starved PROVE LiveMapped'
      <4>1. LiveMapped
        BY <1>1, <2>3, <3>4 DEF Sound
      <4>2. ASSUME NEW s \in live', NEW j \in 1 .. s.pages
            PROVE  Maps(machine', s.vaddr + j - 1, s.frames[j])
        <5>1. s \in live /\ s # r
          BY <1>1
        <5>2. PagesOf(r) \cap PagesOf(s) = {}
          BY <5>1 DEF MemoryInv, VmaInv, VmaListSound
        <5>3. s.vaddr + j - 1 \in PagesOf(s)
          BY <1>2, <5>1 DEF PagesOf
        <5>4. \A i \in 1 .. r.pages : r.vaddr + i - 1 \in PagesOf(r)
          BY <1>2 DEF PagesOf
        <5>5. \A i \in 1 .. r.pages : s.vaddr + j - 1 # r.vaddr + i - 1
          BY <5>2, <5>3, <5>4
        <5>6. Maps(machine, s.vaddr + j - 1, s.frames[j]) /\ s.vaddr + j - 1 \in Window
          BY <1>2, <4>1, <5>1 DEF LiveMapped
        <5> QED
          BY <3>2, <5>5, <5>6 DEF Unmapped
      <4> QED
        BY <4>2 DEF LiveMapped
    <3>5. ASSUME NoMishap' PROVE Data(machine', K2) = LiveFrames' /\ NoneEmpty(machine', b, K2)
      <4>1. NoMishap /\ ~ history.starved
        BY <1>1, <3>5 DEF NoMishap, Mishaps
      <4>2. Data(machine, K) = LiveFrames /\ NoneEmpty(machine, b, K) /\ LiveMapped
        BY <2>3, <4>1 DEF Sound
      <4>3. \A i \in 1 .. r.pages : Maps(machine, r.vaddr + i - 1, r.frames[i])
        BY <4>2 DEF LiveMapped
      <4>4. Data(machine', K2) = LiveFrames \ { r.frames[i] : i \in 1 .. r.pages }
            /\ NoneEmpty(machine', b, K2)
        BY <3>2, <4>2, <4>3 DEF Unmapped
      <4>5. \A s \in live : \A j \in 1 .. s.pages : \A i \in 1 .. r.pages :
               r.frames[i] = s.frames[j] => r = s
        BY <2>4, <4>2, FramesApart
      <4>6. LiveFrames' = LiveFrames \ { r.frames[i] : i \in 1 .. r.pages }
        <5> DEFINE Of(s) == { s.frames[i] : i \in 1 .. s.pages }
        <5>1. \A s \in live : s # r => Of(s) \cap Of(r) = {}
          BY <4>5
        <5>2. LiveFrames = UNION { Of(s) : s \in live }
              /\ LiveFrames' = UNION { Of(s) : s \in live' }
          BY DEF LiveFrames
        <5>3. Of(r) = { r.frames[i] : i \in 1 .. r.pages }
          OBVIOUS
        <5> HIDE DEF Of
        <5>4. LiveFrames' = LiveFrames \ Of(r)
          BY <1>1, <5>1, <5>2
        <5> QED
          BY <5>3, <5>4
      <4> QED
        BY <4>4, <4>6
    <3> QED
      BY <3>3, <3>4, <3>5 DEF Sound
  <2> QED
    BY <1>1, <2>5, <2>6
<1> QED
  BY <1>4, <1>5

-----------------------------------------------------------------------------
(* store                                                                   *)

(* What the processor finds for a page of the window is a mapping.         *)
LEMMA TranslateMapped ==
    ASSUME NEW m, NEW b, NEW K, TreeInv(m, b, K), NEW v \in Window,
           NEW f, f = Translate(m, v), f # NULL
    PROVE  Maps(m, v, f)
<1> DEFINE e3 == m.mem[Root][IndexAt(v, 3)]
           e2 == m.mem[FrameOf(e3)][IndexAt(v, 2)]
           e1 == m.mem[FrameOf(e2)][IndexAt(v, 1)]
           e0 == m.mem[FrameOf(e1)][IndexAt(v, 0)]
           c == [k \in 0 .. 3 |-> IF k = 3 THEN Root ELSE IF k = 2 THEN FrameOf(e3)
                                  ELSE IF k = 1 THEN FrameOf(e2) ELSE FrameOf(e1)]
<1>down. 3 - 1 = 2 /\ 2 - 1 = 1 /\ 1 - 1 = 0 /\ 3 \in 0 .. 3 /\ 2 \in 0 .. 3 /\ 1 \in 0 .. 3
         /\ 0 \in 0 .. 3
  OBVIOUS
<1>1. c[3] = Root /\ c[2] = FrameOf(e3) /\ c[1] = FrameOf(e2) /\ c[0] = FrameOf(e1)
      /\ DOMAIN c = 0 .. 3 /\ c = [k \in 0 .. 3 |-> c[k]]
  OBVIOUS
<1>2. f = IF ~ Leads(e3) \/ ~ Present(e2) THEN NULL
          ELSE IF Huge(e2) THEN FrameOf(e2) + (v % (Entries * Entries))
          ELSE IF ~ Present(e1) THEN NULL
          ELSE IF Huge(e1) THEN FrameOf(e1) + (v % Entries)
          ELSE IF ~ Present(e0) THEN NULL
          ELSE FrameOf(e0)
  BY DEF Translate
<1>3. /\ e3 = m.mem[c[3]][IndexAt(v, 3)] /\ e2 = m.mem[c[2]][IndexAt(v, 2)]
      /\ e1 = m.mem[c[1]][IndexAt(v, 1)] /\ e0 = m.mem[c[0]][IndexAt(v, 0)]
  BY <1>1
<1> HIDE DEF c, e3, e2, e1, e0
<1>4. c[3] \in K[3] /\ OnWay(b, v, 3, c[3])
  BY <1>1, WayFacts DEF TreeInv, TreeShape, OnWay
<1>5. Leads(e3) /\ c[2] \in K[2] /\ OnWay(b, v, 2, c[2])
  BY <1>down, <1>1, <1>2, <1>3, <1>4, ClearAt DEF Leads
<1>6. Leads(e2) /\ c[1] \in K[1] /\ OnWay(b, v, 1, c[1])
  BY <1>down, <1>1, <1>2, <1>3, <1>5, ClearAt
<1>7. Leads(e1) /\ c[0] \in K[0] /\ OnWay(b, v, 0, c[0])
  BY <1>down, <1>1, <1>2, <1>3, <1>6, ClearAt DEF Leads
<1>8. Present(e0) /\ f = FrameOf(e0)
  BY <1>2, <1>6, <1>7 DEF Leads
<1>9. c \in [0 .. 3 -> Frames]
  <2>1. c[3] \in Frames /\ c[2] \in Frames /\ c[1] \in Frames /\ c[0] \in Frames
    BY <1>down, <1>4, <1>5, <1>6, <1>7, TreeFacts
  <2>2. \A k \in 0 .. 3 : k = 0 \/ k = 1 \/ k = 2 \/ k = 3
    OBVIOUS
  <2>3. \A k \in 0 .. 3 : c[k] \in Frames
    BY <2>1, <2>2
  <2> QED
    BY <1>1, <2>3
<1>10. Chain(m, v, c)
  <2>1. \A k \in 1 .. 3 : k = 1 \/ k = 2 \/ k = 3
    OBVIOUS
  <2> QED
    BY <1>down, <1>1, <1>3, <1>5, <1>6, <1>7, <1>9, <2>1 DEF Chain
<1> QED
  BY <1>3, <1>8, <1>10 DEF Maps

LEMMA SetWordTyped ==
    ASSUME NEW m \in Machine, NEW f, NEW w \in Word
    PROVE  SetWord(m, f, 0, w) \in Machine
<1>1. w % WordCount = w /\ 0 \in Index
  BY Sizes DEF Word
<1> DEFINE mem2 == [m.mem EXCEPT ![f] = [m.mem[f] EXCEPT ![0] = w]]
<1>2. SetWord(m, f, 0, w) = [m EXCEPT !.mem = mem2]
  BY <1>1 DEF SetWord
<1>3. m.mem \in [0 .. NFrames -> [Index -> Word]]
  BY DEF Machine, Memory
<1>4. mem2 \in Memory
  BY <1>1, <1>3 DEF Memory
<1> HIDE DEF mem2
<1> QED
  BY <1>2, <1>4 DEF Machine

LEMMA StoreMemory ==
    ASSUME MemoryInv, NEW r \in live, store(r)
    PROVE  MemoryTyped' /\ MemorySound'
<1> DEFINE f == Translate(machine, r.vaddr)
<1>1. /\ panicked' = (f = NULL)
      /\ machine' = IF f = NULL THEN machine ELSE SetWord(machine, f, 0, UserWord)
      /\ UNCHANGED <<vma_list, vma_count, next_vaddr, live, history>>
  BY DEF store
<1>2. r.vaddr \in Window /\ machine \in Machine
  <2>1. r.pages \in Nat \ {0} /\ r.vaddr \in Nat
    BY CountsAssumption DEF MemoryInv, VmaInv, VmaTyped
  <2>2. r.vaddr + 1 - 1 \in Window /\ 1 \in 1 .. r.pages
    BY <2>1 DEF MemoryInv, MemoryTyped
  <2> QED
    BY <2>1, <2>2 DEF MemoryInv, MemoryTyped
<1>frame. f = Translate(machine, r.vaddr)
  OBVIOUS
<1> HIDE DEF f
<1>3. machine' \in Machine
  BY <1>1, <1>2, SetWordTyped, UserWordAssumption
<1>4. MemoryTyped'
  BY <1>1, <1>3 DEF MemoryInv, MemoryTyped
<1>5. MemorySound'
  <2> SUFFICES ASSUME CountsApart', ~ history'.wild
               PROVE  \E b \in Boots : \E K : Sound(machine, b, K)'
    BY <1>1 DEF MemoryInv, MemorySound, CountsApart
  <2>1. CountsApart /\ ~ history.wild
    BY <1>1 DEF CountsApart
  <2>2. PICK b \in Boots : \E K : Sound(machine, b, K)
    BY <2>1 DEF MemoryInv, MemorySound
  <2>3. PICK K : Sound(machine, b, K)
    BY <2>2
  <2>4. TreeInv(machine, b, K)
    BY <2>3 DEF Sound
  <2>5. /\ TreeInv(machine', b, K) /\ Data(machine', K) = Data(machine, K)
        /\ \A u \in AllIn(K) : \A j \in Index : machine'.mem[u][j] = machine.mem[u][j]
    <3>1. CASE f = NULL
      BY <1>1, <2>4, <3>1
    <3>2. CASE f # NULL
      <4>1. f \in Data(machine, K)
        BY <1>2, <1>frame, <2>4, <3>2, TranslateMapped, MapsWalk
      <4> QED
        BY <1>1, <2>4, <3>2, <4>1, StoreTree, UserWordAssumption
    <3> QED
      BY <3>1, <3>2
  <2>6. NoneEmpty(machine, b, K) => NoneEmpty(machine', b, K)
    BY <2>5 DEF NoneEmpty, Added
  <2>7. LiveMapped => LiveMapped'
    <3>1. Grown(machine, machine', K)
      BY <2>5 DEF Grown
    <3>2. \A u \in Window : \A g : Maps(machine, u, g) => Maps(machine', u, g)
      BY <2>4, <3>1, MapsGrown
    <3> QED
      BY <1>1, <3>2 DEF LiveMapped, MemoryInv, MemoryTyped
  <2>8. LiveFrames' = LiveFrames /\ (NoMishap' <=> NoMishap) /\ history'.starved = history.starved
    BY <1>1 DEF LiveFrames, NoMishap
  <2> QED
    BY <2>3, <2>5, <2>6, <2>7, <2>8 DEF Sound
<1> QED
  BY <1>4, <1>5

-----------------------------------------------------------------------------
(* The invariant holds in every reachable state                            *)

LEMMA MemoryStep == MemoryInv /\ [VmmNext]_vmm_vars => MemoryInv'
<1> SUFFICES ASSUME MemoryInv, [VmmNext]_vmm_vars PROVE MemoryInv'
  OBVIOUS
<1>1. VmaInv'
  BY VmaStep DEF MemoryInv
<1>2. ASSUME NEW n \in Counts, vmm_alloc(n) PROVE MemoryTyped' /\ MemorySound'
  BY <1>2, AllocTyped, AllocSound
<1>3. ASSUME NEW r \in live, vmm_free(r) PROVE MemoryTyped' /\ MemorySound'
  BY <1>3, FreeMemory
<1>4. ASSUME NEW r \in live, store(r) PROVE MemoryTyped' /\ MemorySound'
  BY <1>4, StoreMemory
<1>5. ASSUME UNCHANGED vmm_vars PROVE MemoryTyped' /\ MemorySound'
  <2>1. UNCHANGED <<machine, vma_list, vma_count, next_vaddr, live, history, panicked>>
    BY <1>5 DEF vmm_vars
  <2>2. MemoryTyped'
    BY <2>1 DEF MemoryInv, MemoryTyped
  <2>3. \A b, K : Sound(machine, b, K) => Sound(machine, b, K)'
    BY <2>1 DEF Sound, LiveMapped, LiveFrames, NoMishap
  <2>4. MemorySound'
    BY <2>1, <2>3 DEF MemoryInv, MemorySound, CountsApart
  <2> QED
    BY <2>2, <2>4
<1>6. MemoryTyped' /\ MemorySound'
  BY <1>2, <1>3, <1>4, <1>5 DEF VmmNext
<1> QED
  BY <1>1, <1>6 DEF MemoryInv

LEMMA MemoryInvariant == VmmSpec => []MemoryInv
BY MemoryInit, MemoryStep, PTL DEF VmmSpec

(* Every variable keeps its type.                                          *)
THEOREM VmmTypes == VmmSpec => []VmmTypeOK
<1>1. MemoryInv => VmmTypeOK
  BY DEF MemoryInv, MemoryTyped, VmaInv, VmaTyped, Node, Machine, VmmTypeOK
<1> QED
  BY <1>1, MemoryInvariant, PTL

-----------------------------------------------------------------------------
(* What the invariant says of a machine with tables K                      *)

LEMMA KernelTablesAre ==
    ASSUME NEW m, NEW b, NEW K, TreeInv(m, b, K)
    PROVE  /\ KernelTables(m) = AllIn(K) \cap InUse(m)
           /\ \A t \in KernelTables(m) : t \notin Tables(b) /\ t # Root /\ t \in AllIn(K)
<1>1. ReachableTables(m) = K[0] \cup K[1] \cup K[2] /\ K[3] = {Root}
  BY TablesAre DEF TreeInv, TreeShape
<1>2. Tables(b) \cap m.pool = {} /\ Root \in Tables(b)
  BY TreeFacts
<1>3. \A t \in AllIn(K) : t \in Tables(b) \/ t \in InUse(m)
  BY DEF TreeInv, TablesOwned
<1> QED
  BY <1>1, <1>2, <1>3 DEF KernelTables, InUse, AllIn

(* "Increment parent ref count" (paging.c:35): as long as counts are apart *)
(* and no NULL table is written through, every table that paging.c made    *)
(* counts its own present entries, through every order of allocations,     *)
(* failures and frees.                                                     *)
THEOREM RefCountsExact == VmmSpec => []RefCountExactApart
<1>1. MemoryInv => RefCountExactApart
  <2> SUFFICES ASSUME MemoryInv, CountsApart, ~ history.wild, NEW t \in KernelTables(machine)
               PROVE  ref_count(machine, t)
                         = Cardinality({ i \in Index : Present(machine.mem[t][i]) })
    BY DEF RefCountExactApart, RefCountExact
  <2>1. PICK b \in Boots : \E K : Sound(machine, b, K)
    BY DEF MemoryInv, MemorySound
  <2>2. PICK K : TreeInv(machine, b, K)
    BY <2>1 DEF Sound
  <2>3. t \notin Tables(b) /\ t \in AllIn(K) \ {Root}
    BY <2>2, KernelTablesAre
  <2>4. Added(machine, b, t) = { i \in Index : Present(machine.mem[t][i]) }
    BY <2>3 DEF Added, Firm
  <2>5. /\ ref_count(machine, t) = 0 + Cardinality(Added(machine, b, t))
        /\ Cardinality(Added(machine, b, t)) \in 0 .. Entries
    BY <2>2, <2>3, CountFits
  <2>6. ref_count(machine, t) = Cardinality(Added(machine, b, t))
    BY <2>5, Sizes
  <2> QED
    BY <2>4, <2>6
<1> QED
  BY <1>1, MemoryInvariant, PTL

(* As long as counts are apart and no table was refused a frame, owners    *)
(* can rely on their memory: the processor and paging_get_physical both    *)
(* map every page of a region to the frame taken for it, which is marked   *)
(* used and is no table's and no other page's.                             *)
THEOREM OwnersBacked == VmmSpec => []RegionsBacked
<1>1. MemoryInv => RegionsBacked
  <2> SUFFICES ASSUME MemoryInv, CountsApart, ~ history.starved
               PROVE  /\ \A r \in live : \A i \in 1 .. r.pages :
                            LET f == r.frames[i]
                            IN  /\ Translate(machine, r.vaddr + i - 1) = f
                                /\ paging_get_physical(machine, r.vaddr + i - 1) = f
                                /\ f \in InUse(machine)
                                /\ f \notin ReachableTables(machine)
                      /\ \A r, s \in live : \A i \in 1 .. r.pages : \A j \in 1 .. s.pages :
                            r.frames[i] = s.frames[j] => r = s /\ i = j
    BY DEF RegionsBacked
  <2>1. PICK b \in Boots : \E K : Sound(machine, b, K)
    BY DEF MemoryInv, MemorySound
  <2>2. PICK K : TreeInv(machine, b, K) /\ LiveMapped
    BY <2>1 DEF Sound
  <2>3. ASSUME NEW r \in live, NEW i \in 1 .. r.pages
        PROVE  /\ Translate(machine, r.vaddr + i - 1) = r.frames[i]
               /\ paging_get_physical(machine, r.vaddr + i - 1) = r.frames[i]
               /\ r.frames[i] \in InUse(machine)
               /\ r.frames[i] \notin ReachableTables(machine)
    <3> DEFINE v == r.vaddr + i - 1
               f == r.frames[i]
    <3>1. v \in Window /\ Maps(machine, v, f)
      BY <2>2 DEF MemoryInv, MemoryTyped, LiveMapped
    <3>2. ReachableTables(machine) \subseteq AllIn(K)
      BY <2>2, TablesAre DEF TreeInv, AllIn
    <3> HIDE DEF v, f
    <3>3. /\ Translate(machine, v) = f /\ paging_get_physical(machine, v) = f
          /\ f \in Data(machine, K)
      BY <2>2, <3>1, MapsWalk
    <3> QED
      BY <3>2, <3>3 DEF Data, v, f
  <2>4. \A r, s \in live : \A i \in 1 .. r.pages : \A j \in 1 .. s.pages :
           r.frames[i] = s.frames[j] => r = s /\ i = j
    BY <2>2, FramesApart
  <2> QED
    BY <2>3, <2>4
<1> QED
  BY <1>1, MemoryInvariant, PTL

(* As long as nothing has gone wrong, nothing leaks and nothing is freed   *)
(* early: the used frames are exactly the pages in owners' hands and the   *)
(* tables that have at least one entry.                                    *)
THEOREM NothingLeaks == VmmSpec => []NoLeak
<1>1. MemoryInv => NoLeak
  <2> SUFFICES ASSUME MemoryInv, NoMishap
               PROVE  /\ InUse(machine) = KernelTables(machine) \cup LiveFrames
                      /\ \A t \in KernelTables(machine) :
                            \E i \in Index : Present(machine.mem[t][i])
    BY DEF NoLeak, NoMishap, LiveFrames
  <2>1. CountsApart /\ ~ history.wild
    BY DEF NoMishap, Mishaps, CountsApart
  <2>2. PICK b \in Boots : \E K : Sound(machine, b, K)
    BY <2>1 DEF MemoryInv, MemorySound
  <2>3. PICK K : /\ TreeInv(machine, b, K)
                 /\ Data(machine, K) = LiveFrames /\ NoneEmpty(machine, b, K)
    BY <2>2 DEF Sound
  <2>4. InUse(machine) = KernelTables(machine) \cup LiveFrames
    BY <2>3, KernelTablesAre DEF Data
  <2>5. ASSUME NEW t \in KernelTables(machine) PROVE \E i \in Index : Present(machine.mem[t][i])
    BY <2>3, <2>5, KernelTablesAre DEF NoneEmpty, Added
  <2> QED
    BY <2>4, <2>5
<1> QED
  BY <1>1, MemoryInvariant, PTL

(* Freeing regions never takes away the firmware's mapping of the kernel,  *)
(* as long as counts are apart, those of the firmware's tables can count   *)
(* and no NULL table is written through.                                   *)
THEOREM KernelKeepsItsPage == VmmSpec => []KernelStaysMapped
<1>1. MemoryInv => KernelStaysMapped
  <2> SUFFICES ASSUME MemoryInv, CountsApart, ~ history.wild
               PROVE  Translate(machine, KernelPage) = KernelPage
    BY DEF KernelStaysMapped
  <2>1. PICK b \in Boots : \E K : Sound(machine, b, K)
    BY DEF MemoryInv, MemorySound
  <2>2. PICK K : TreeInv(machine, b, K)
    BY <2>1 DEF Sound
  <2> DEFINE v == KernelPage
             e3 == b.mem[Root][IndexAt(v, 3)]
             e2 == b.mem[FrameOf(e3)][IndexAt(v, 2)]
             e1 == b.mem[FrameOf(e2)][IndexAt(v, 1)]
             e0 == b.mem[FrameOf(e1)][IndexAt(v, 0)]
  <2>3. Translate(b, v) = v /\ v # NULL /\ v \in Nat
    BY FirmwareAssumption, KernelPageAssumption DEF FirmwareSound
  <2>4. \A k \in 0 .. 3 : IndexAt(v, k) \in Index
    BY <2>3, IndexIn
  <2>5. \A t \in Tables(b) : \A i \in Index :
           Present(b.mem[t][i]) => machine.mem[t][i] = b.mem[t][i]
    BY <2>2 DEF TreeInv, FirmwareKept
  <2>6. /\ Levels(b)[3] = {Root} /\ Levels(b)[2] = Below(b, Levels(b)[3])
        /\ Levels(b)[1] = Below(b, Levels(b)[2]) /\ Levels(b)[0] = Below(b, Levels(b)[1])
        /\ Tables(b) = AllIn(Levels(b))
    BY FirmwareTables
  <2>7. 0 \in 0 .. 3 /\ 1 \in 0 .. 3 /\ 2 \in 0 .. 3 /\ 3 \in 0 .. 3
    OBVIOUS
  <2>8. /\ v = IF ~ Leads(e3) \/ ~ Present(e2) THEN NULL
               ELSE IF Huge(e2) THEN FrameOf(e2) + (v % (Entries * Entries))
               ELSE IF ~ Present(e1) THEN NULL
               ELSE IF Huge(e1) THEN FrameOf(e1) + (v % Entries)
               ELSE IF ~ Present(e0) THEN NULL
               ELSE FrameOf(e0)
    BY <2>3 DEF Translate
  <2>9. \A w : Leads(w) => Present(w)
    BY DEF Leads
  <2> HIDE DEF e0, e1, e2, e3, v
  <2>10. Leads(e3) /\ machine.mem[Root][IndexAt(v, 3)] = e3 /\ FrameOf(e3) \in Levels(b)[2]
    <3>1. Leads(e3) /\ Root \in Levels(b)[3] /\ Root \in Tables(b)
      BY <2>3, <2>6, <2>7, <2>8, AllIff
    <3> QED
      BY <2>4, <2>5, <2>6, <2>7, <2>9, <3>1, BelowIff DEF e3
  <2>11. Present(e2) /\ machine.mem[FrameOf(e3)][IndexAt(v, 2)] = e2
         /\ (~ Huge(e2) => FrameOf(e2) \in Levels(b)[1])
    <3>1. Present(e2) /\ FrameOf(e3) \in Tables(b)
      BY <2>3, <2>6, <2>7, <2>8, <2>10, AllIff
    <3> QED
      BY <2>4, <2>5, <2>6, <2>7, <2>10, <3>1, BelowIff DEF e2, Leads
  <2>12. ~ Huge(e2) => /\ Present(e1) /\ machine.mem[FrameOf(e2)][IndexAt(v, 1)] = e1
                       /\ (~ Huge(e1) => FrameOf(e1) \in Levels(b)[0])
    <3> SUFFICES ASSUME ~ Huge(e2)
                 PROVE  /\ Present(e1) /\ machine.mem[FrameOf(e2)][IndexAt(v, 1)] = e1
                        /\ (~ Huge(e1) => FrameOf(e1) \in Levels(b)[0])
      OBVIOUS
    <3>1. Present(e1) /\ FrameOf(e2) \in Tables(b)
      BY <2>3, <2>6, <2>7, <2>8, <2>11, AllIff
    <3> QED
      BY <2>4, <2>5, <2>6, <2>7, <2>11, <3>1, BelowIff DEF e1, Leads
  <2>13. ~ Huge(e2) /\ ~ Huge(e1) =>
            Present(e0) /\ machine.mem[FrameOf(e1)][IndexAt(v, 0)] = e0
    <3> SUFFICES ASSUME ~ Huge(e2), ~ Huge(e1)
                 PROVE  Present(e0) /\ machine.mem[FrameOf(e1)][IndexAt(v, 0)] = e0
      OBVIOUS
    <3>1. Present(e0) /\ FrameOf(e1) \in Tables(b)
      BY <2>3, <2>6, <2>7, <2>8, <2>12, AllIff
    <3> QED
      BY <2>4, <2>5, <2>7, <3>1 DEF e0
  <2>14. Translate(machine, v) = v
    BY <2>8, <2>10, <2>11, <2>12, <2>13 DEF Translate
  <2> QED
    BY <2>14 DEF v
<1> QED
  BY <1>1, MemoryInvariant, PTL

=============================================================================
