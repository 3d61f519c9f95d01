------------------------------- MODULE MCPmm -------------------------------
(* TLC instance of Pmm: ten frames, the lowest two reserved.               *)
EXTENDS Pmm

D(t, s, n) == [type |-> t, start |-> s, pages |-> n]

MCMMaps ==
    { << >>,                                         \* no conventional memory
      <<D(7, 0, 10)>>,                               \* everything, frame 0 too
      <<D(7, 0, 3), D(3, 3, 2), D(7, 5, 2)>>,        \* a hole
      <<D(7, 1, 5), D(7, 4, 4), D(10, 8, 1)>>,       \* overlapping descriptors
      <<D(4, 0, 2), D(7, 7, 9)>>,                    \* beyond MAX_MEM
      <<D(7, 12, 3)>> }                              \* wholly beyond MAX_MEM
=============================================================================
