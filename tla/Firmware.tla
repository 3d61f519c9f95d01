------------------------------ MODULE Firmware ------------------------------
(***************************************************************************)
(* What vmm.c and paging.c rely on and never check: the page tables and    *)
(* the memory map they take over from the firmware, and the addresses the  *)
(* VMM hands out (external, from how paging_map and paging_unmap use them).*)
(***************************************************************************)
EXTENDS Vmm

(* The pages the VMM hands out, whatever it starts with.                   *)
Window == UNION { UNION { s .. t + MaxPages - 1 : s \in StartVaddrs } : t \in StartVaddrs }

SamePath(p, q) == \A level \in 0 .. 3 : IndexAt(p, level) = IndexAt(q, level)

(* The tables form a tree: no frame is a table of two levels, no two       *)
(* entries lead to the same table.                                         *)
TablesFormTree(m) ==
    LET L == Levels(m)
    IN  /\ \A j, k \in 0 .. 3 : j # k => L[j] \cap L[k] = {}
        /\ \A k \in 1 .. 3 : \A t, u \in L[k] : \A i, j \in Index :
              /\ Leads(m.mem[t][i]) /\ Leads(m.mem[u][j])
              /\ FrameOf(m.mem[t][i]) = FrameOf(m.mem[u][j])
              => t = u /\ i = j

(* The tables on the way to page p, by level.                              *)
Way(m, p) ==
    LET w == Tables3(m, p)
    IN  [level \in 0 .. 3 |-> IF level = 3 THEN Root ELSE IF level = 2 THEN w.pdpt
                              ELSE IF level = 1 THEN w.pd ELSE w.pt]

(* Page p is not mapped, neither by itself nor with a large page.          *)
NotMapped(m, p) ==
    \A level \in 0 .. 3 :
        LET t == Way(m, p)[level]
            w == m.mem[t][IndexAt(p, level)]
        IN  t # NULL /\ Present(w) => level # 0 /\ ~ Huge(w)

(* The memory map does not offer the tables' own frames, nothing is mapped *)
(* where the VMM hands out pages, and the kernel runs where it is loaded.  *)
FirmwareSound(b) ==
    /\ TablesFormTree(b)
    /\ NULL \notin Tables(b)
    /\ Tables(b) \cap Usable(b.mmap) = {}
    /\ \A p \in Window : NotMapped(b, p)
    /\ Translate(b, KernelPage) = KernelPage

ASSUME FirmwareAssumption == \A b \in Boots : FirmwareSound(b)

(* The history stays within one turn of the four indices.                  *)
ASSUME WindowAssumption == \A p, q \in Window : SamePath(p, q) => p = q
=============================================================================
