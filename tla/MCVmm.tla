------------------------------- MODULE MCVmm -------------------------------
(***************************************************************************)
(* TLC instance of Vmm on memory that meets Firmware's assumptions.        *)
(***************************************************************************)
EXTENDS MCVmmHuge, Firmware

(* In the third boot the firmware data behind its tables is zero, in the   *)
(* fourth all ones.  In the fifth two usable frames are adjacent, so that  *)
(* a table may end up just below its parent.                               *)
MCBoots ==
    { [mmap |-> Sparse(8), mem |-> FirmwareMem(0, 1, 0)],
      [mmap |-> Sparse(5), mem |-> FirmwareMem(EntryFor(5), 1, 0)],
      [mmap |-> Sparse(6), mem |-> FirmwareMem(0, 0, 0)],
      [mmap |-> Sparse(6), mem |-> FirmwareMem(0, WordCount - 1, 0)],
      [mmap |-> Single(<<7, 9, 11, 12>>), mem |-> FirmwareMem(0, 1, 0)],
      [mmap |-> Run(8), mem |-> FirmwareMem(0, 1, 0)] }

(* The map of a real machine: usable frames in one run.                    *)
RunBoots == { [mmap |-> Run(8), mem |-> FirmwareMem(0, 1, 0)] }
=============================================================================
