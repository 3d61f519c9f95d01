------------------------------- MODULE MCHeap -------------------------------
(* TLC instance of Heap: eight frames, the lowest two reserved.            *)
EXTENDS Heap

D(t, s, n) == [type |-> t, start |-> s, pages |-> n]

MCMMaps ==
    { << >>,                                         \* no conventional memory
      <<D(7, 0, 8)>>,                                \* one run of six frames
      <<D(7, 1, 3), D(3, 4, 1), D(7, 5, 9)>>,        \* a hole, and beyond MAX_MEM
      <<D(7, 3, 3), D(7, 3, 3)>> }                   \* a repeated descriptor

(* The usable memory starts with a run shorter than the first block.       *)
HoleMMaps == { <<D(7, 0, 4), D(10, 4, 1), D(7, 5, 3)>> }

(* Once a block is scattered the promises lapse, so its successors need    *)
(* not be explored.                                                        *)
UntilScattered == intact
=============================================================================
