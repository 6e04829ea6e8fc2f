---------------------------- MODULE MC_LargeMatMulA ----------------------------
(* Instantiates LargeMatMulA for TLC. *)
EXTENDS LargeMatMulA

=============================================================================
