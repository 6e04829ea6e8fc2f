---------------------------- MODULE MC_LargeMatMul ----------------------------
(* Instantiates LargeMatMul for TLC. *)
EXTENDS LargeMatMul

=============================================================================
