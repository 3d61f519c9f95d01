------------------------------- MODULE MCPci -------------------------------
(***************************************************************************)
(* TLC instance of Pci: four buses of two devices with two functions and   *)
(* an array of three entries.  Every machine with any of nine functions,   *)
(* on the first bus, one in the middle and the last one, and any marking   *)
(* of their devices.                                                       *)
(***************************************************************************)
EXTENDS Pci

Chosen == { <<0, 0, 0>>, <<0, 0, 1>>, <<0, 1, 0>>, <<0, 1, 1>>,
            <<1, 0, 0>>, <<1, 1, 0>>, <<2, 0, 0>>, <<2, 0, 1>>, <<3, 0, 0>> }

MCMachines ==
    [present : SUBSET Chosen, multi : SUBSET {<<0, 0>>, <<0, 1>>, <<2, 0>>}]
=============================================================================
