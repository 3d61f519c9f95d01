-------------------------------- MODULE Elf --------------------------------
(***************************************************************************)
(* Placing the kernel's ELF segments, load_kernel in                       *)
(* bootloader/bootloader.c.  A file is [magic, phdrs, entry, size]; a      *)
(* program header is [load, vaddr, memsz, filesz, offset].  Addresses are  *)
(* relative to the pages the firmware has allocated.                       *)
(***************************************************************************)
EXTENDS Integers, Sequences, FiniteSetsExt

CONSTANTS
    PageSize,      \* 4096
    MaxPhdrs,      \* entries of phdrs
    Beyond         \* bytes behind the allocated pages that are looked at

ASSUME PageSizeAssumption == PageSize \in Nat \ {0}
ASSUME MaxPhdrsAssumption == MaxPhdrs \in Nat \ {0}
ASSUME BeyondAssumption == Beyond \in Nat

Phdr == [load : BOOLEAN, vaddr : Nat, memsz : Nat, filesz : Nat, offset : Nat]
File == [magic : BOOLEAN, phdrs : Seq(Phdr), entry : Nat, size : Nat]

(* What a byte of memory holds: what it held before, zero, or a byte of    *)
(* the file.                                                               *)
Zero == 0
Before == 1
FileByte(o) == 2 + o

(* The program headers that are not passed over.                           *)
Segments(file) == { i \in DOMAIN file.phdrs : file.phdrs[i].load }

min_vaddr(file) == Min({ file.phdrs[i].vaddr : i \in Segments(file) })

max_vaddr(file) == Max({ file.phdrs[i].vaddr + file.phdrs[i].memsz : i \in Segments(file) })

(* Mutant: the last, partial page is forgotten.                            *)
total_pages_down(file) == (max_vaddr(file) - min_vaddr(file)) \div PageSize

total_pages(file) == (max_vaddr(file) - min_vaddr(file) + PageSize - 1) \div PageSize

Allocated(file) == 0 .. total_pages(file) * PageSize - 1

(* Mutant: the last byte is left out.                                      *)
memset_local_short(mem, dest, n) ==
    [a \in DOMAIN mem |-> IF a \in dest .. dest + n - 2 THEN Zero ELSE mem[a]]

memset_local(mem, dest, n) ==
    [a \in DOMAIN mem |-> IF a \in dest .. dest + n - 1 THEN Zero ELSE mem[a]]

(* Read delivers what the file has; nothing if it fails.                   *)
Read(mem, file, dest, offset, n) ==
    [a \in DOMAIN mem |->
        IF a \in dest .. dest + n - 1 /\ offset + (a - dest) < file.size
        THEN FileByte(offset + (a - dest)) ELSE mem[a]]

(* The pages of AllocatePages and what is behind them.                     *)
Fresh(file) == [a \in 0 .. total_pages(file) * PageSize + Beyond - 1 |-> Before]

Spills(file, i) ==
    file.phdrs[i].vaddr - min_vaddr(file) + file.phdrs[i].filesz > total_pages(file) * PageSize

(* One segment: cleared, and then read, if the Read succeeds.              *)
LoadSegment(mem, file, i, readable) ==
    LET p       == file.phdrs[i]
        dest    == p.vaddr - min_vaddr(file)
        cleared == memset_local(mem, dest, p.memsz)
    IN  IF readable THEN Read(cleared, file, dest, p.offset, p.filesz) ELSE cleared

-----------------------------------------------------------------------------
(* What the ELF format promises: segments do not overlap, and memory is at *)
(* least as long as the part of the file.                                  *)
Covers(p, v) == v \in p.vaddr .. p.vaddr + p.memsz - 1

WellFormed(file) ==
    /\ \A i \in Segments(file) :
          /\ file.phdrs[i].filesz <= file.phdrs[i].memsz
          /\ file.phdrs[i].offset + file.phdrs[i].filesz <= file.size
    /\ \A i, j \in Segments(file) : i # j =>
          \A v \in file.phdrs[i].vaddr .. file.phdrs[i].vaddr + file.phdrs[i].memsz - 1 :
              ~ Covers(file.phdrs[j], v)

(* The byte the kernel was linked to have at the address v.                *)
Linked(p, v) == IF v - p.vaddr < p.filesz THEN FileByte(p.offset + v - p.vaddr) ELSE Zero
=============================================================================
