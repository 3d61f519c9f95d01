----------------------------- MODULE MCProcess -----------------------------
(* TLC instance of Process: three slots, three stacks' worth of addresses.  *)
EXTENDS Process
=============================================================================
