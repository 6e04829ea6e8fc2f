---------------------------- MODULE MC_ResultCheck ----------------------------
(* Instantiates ResultCheck for TLC. *)
EXTENDS ResultCheck

=============================================================================
