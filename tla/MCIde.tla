------------------------------- MODULE MCIde -------------------------------
(* TLC instance of Ide: a master on the primary channel, a floating        *)
(* secondary channel, four sectors, a count register with two values, so   *)
(* that a count of 2 is the register's 0 and 3 does not fit.               *)
EXTENDS Ide

MCLbas == {1, 4}
MCCounts == 0 .. 3
=============================================================================
