----------------------------- MODULE MC_RefOracle -----------------------------
(* Instantiates RefOracle for TLC. *)
EXTENDS RefOracle

=============================================================================
