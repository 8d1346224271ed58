-------------------------------- MODULE MCBulk --------------------------------
(***************************************************************************)
(* Instances of Bulk for TLC; the configurations give the constants their  *)
(* values.  Payloads numbered modulo 4 over a pool of two buffers: the     *)
(* messages in flight differ from each other and from what the buffers     *)
(* held before.                                                            *)
(***************************************************************************)
EXTENDS Bulk
===============================================================================
