------------------------------- MODULE MCBoot -------------------------------
(***************************************************************************)
(* TLC instance of Boot: pages of two bytes, three program headers, maps   *)
(* of up to four descriptors, slack for one, three changes.                *)
(***************************************************************************)
EXTENDS Boot

P(v, m, f, o) == [load |-> TRUE, vaddr |-> v, memsz |-> m, filesz |-> f, offset |-> o]
Note == [load |-> FALSE, vaddr |-> 0, memsz |-> 9, filesz |-> 9, offset |-> 0]
F(entry, phdrs) == [magic |-> TRUE, phdrs |-> phdrs, entry |-> entry, size |-> 6]

(* Text and data with a cleared rest and a gap; the same in descending     *)
(* order at an odd address; overlapping segments; a segment longer than    *)
(* its memory; a header too many; nothing to load; no ELF file.            *)
MCFiles ==
    { F(4, <<P(4, 2, 2, 0), Note, P(8, 3, 1, 3)>>),
      F(6, <<P(8, 3, 1, 3), P(5, 2, 2, 1)>>),
      F(4, <<P(4, 4, 3, 0), P(6, 1, 1, 5)>>),
      F(4, <<P(4, 1, 4, 2)>>),
      F(4, <<P(4, 1, 1, 0), Note, Note, Note>>),
      F(4, <<Note>>),
      [F(4, <<P(4, 1, 1, 0)>>) EXCEPT !.magic = FALSE] }
=============================================================================
