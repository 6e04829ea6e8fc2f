-------------------------- MODULE MC_VerboseChannel --------------------------
(* Instantiates VerboseChannel for TLC. *)
EXTENDS VerboseChannel

\* A stack slot holds a normalized timespec (left by an earlier call) or
\* one whose tv_nsec is out of range.
StackValues == {Timespec(0, 0), Timespec(0, -1), Timespec(0, Billion)}

=============================================================================
