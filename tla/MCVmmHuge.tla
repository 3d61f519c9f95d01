----------------------------- MODULE MCVmmHuge ------------------------------
(***************************************************************************)
(* Memory images for TLC and a machine whose firmware maps the VMM's       *)
(* addresses with a large page already.  Tables have four entries.  Frames *)
(* 1, 3 and 5 hold the firmware's PML4, its first PDPT and its first page  *)
(* directory, whose first entry maps the four lowest frames as one large   *)
(* page.  The frames behind them are firmware data: the words paging.c     *)
(* takes for ref_counts.                                                   *)
(***************************************************************************)
EXTENDS Vmm

D(t, s, n) == [type |-> t, start |-> s, pages |-> n]

Zero == [i \in Index |-> 0]

(* Firmware memory: low is the first word of frame 0, ref the word behind  *)
(* every table, slot the page directory entry where the VMM's addresses    *)
(* begin.                                                                  *)
FirmwareMem(low, ref, slot) ==
    [f \in 0 .. NFrames |->
        CASE f = 0 -> [i \in Index |-> low]
          [] f = 1 -> [Zero EXCEPT ![0] = EntryFor(3)]
          [] f = 3 -> [Zero EXCEPT ![0] = EntryFor(5)]
          [] f = 5 -> [Zero EXCEPT ![0] = EntryFor(0) + PAGE_HUGE, ![2] = slot]
          [] f \in {2, 4, 6} -> [Zero EXCEPT ![0] = ref]
          [] OTHER -> Zero]

(* Single usable frames; every second frame; n frames in one run.          *)
Single(s) == [i \in 1 .. Len(s) |-> D(7, s[i], 1)]
Sparse(n) == [i \in 1 .. n |-> D(7, 5 + 2 * i, 1)]
Run(n) == <<D(7, 7, n)>>

HugeBoots == { [mmap |-> Sparse(8), mem |-> FirmwareMem(0, 1, EntryFor(8) + PAGE_HUGE)] }
=============================================================================
