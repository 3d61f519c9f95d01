------------------------------ MODULE MCKernel ------------------------------
(* TLC instance of Kernel: six timer edges (three pictures), three bytes   *)
(* from the keyboard, three rows.                                          *)
EXTENDS Kernel
=============================================================================
