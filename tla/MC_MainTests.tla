----------------------------- MODULE MC_MainTests -----------------------------
(* Instantiates MainTests for TLC: durations of 0.75 s and 1.5 s with a    *)
(* second of 4 ns, so two of them carry and their mean has a fraction.   *)
EXTENDS MainTests

MCDurations == {Timespec(0, 3), Timespec(1, 2)}

=============================================================================
