---------------------------- MODULE MC_Accelerator ----------------------------
(* Instantiates Accelerator for TLC: SIZE = 2, three calls in a row. *)
EXTENDS Accelerator

=============================================================================
