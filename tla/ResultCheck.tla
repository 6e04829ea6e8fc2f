----------------------------- MODULE ResultCheck -----------------------------
(***************************************************************************)
(* The per-element comparison main (fpga_offload.c) makes after each test  *)
(* call:                                                                   *)
(*                                                                         *)
(*   if (abs((fpga_out[j] - cpu_out[j])) / cpu_out[j] > DIFF_THRESHOLD)    *)
(*       success_flag = 0;                                                 *)
(*                                                                         *)
(* abs is the int function of stdlib.h: the float difference is truncated  *)
(* toward zero to an int before the division.  Floats are modelled in      *)
(* hundredths, so DIFF_THRESHOLD = 0.01 is exact; NaN is a model value.    *)
(***************************************************************************)
EXTENDS Integers

CONSTANTS
  N,           \* elements compared
  CpuValues,   \* values of cpu_out, in hundredths
  FpgaValues,  \* values of fpga_out, in hundredths, or NaN
  NaN          \* a float NaN (uninitialised or garbage device memory)

\* main's inputs are (rand()%k + 1) * 0.001f, so every reference is positive.
ASSUME CpuValues \subseteq Nat

VARIABLES fpgaOut, cpuOut, j, successFlag, pc

vars == <<fpgaOut, cpuOut, j, successFlag, pc>>

Elems == 0 .. N - 1
IntMin == -2147483647 - 1

\* int abs: abs(INT_MIN) is undefined and is INT_MIN on two's complement.
AbsInt(x) == IF x < 0 /\ x # IntMin THEN -x ELSE x

\* (int)(a - b) for a and b in hundredths: truncation toward zero.  For a
\* NaN the conversion is undefined; x86-64 (cvttss2si) yields INT_MIN and
\* AArch64 (fcvtzs) yields 0.
ToInt(a, b) ==
  IF a = NaN THEN {IntMin, 0}
  ELSE {IF a >= b THEN (a - b) \div 100 ELSE -((b - a) \div 100)}

\* abs((int)(a - b)): the possible results.
TruncatedDiff(a, b) == {AbsInt(t) : t \in ToInt(a, b)}

\* Mutant: the difference is not divided by the reference (abs(d) > 0.01).
ExceedsAbsolute(t, b) == t > 0

\* t / cpu > 0.01 in float arithmetic, for t = abs(...) and cpu = b >= 0:
\* 10000 * t > b; x/0 is +inf for x > 0 and NaN (never greater) for x = 0;
\* a negative t (INT_MIN) gives a negative quotient.
Exceeds(t, b) ==
  \/ b > 0 /\ t > b \div 10000
  \/ b = 0 /\ t > 0

Init ==
  /\ fpgaOut \in [Elems -> FpgaValues]
  /\ cpuOut \in [Elems -> CpuValues]
  /\ j = 0
  /\ successFlag = 1
  /\ pc = "check"

\* One iteration of for (j = 0; j < SIZE; j++).
CheckElement ==
  /\ pc = "check"
  /\ j < N
  /\ \E t \in TruncatedDiff(fpgaOut[j], cpuOut[j]) :
       successFlag' = IF Exceeds(t, cpuOut[j]) THEN 0 ELSE successFlag
  /\ j' = j + 1
  /\ UNCHANGED <<fpgaOut, cpuOut, pc>>

\* PASSED, or FAILED and exit(1).
Report ==
  /\ pc = "check"
  /\ j = N
  /\ pc' = IF successFlag = 1 THEN "passed" ELSE "failed"
  /\ UNCHANGED <<fpgaOut, cpuOut, j, successFlag>>

Done == pc \in {"passed", "failed"} /\ UNCHANGED vars

Next == CheckElement \/ Report \/ Done

Spec == Init /\ [][Next]_vars

\* The tolerance contract of the verification engine: a and b are
\* equivalent if |a-b|/|b| <= 0.01 for b # 0, and equal for b = 0; a NaN
\* is equivalent to nothing.
Equivalent(a, b) ==
  /\ a # NaN
  /\ IF b # 0 THEN 100 * AbsInt(a - b) <= AbsInt(b) ELSE a = b

\* A test main reports PASSED only if every element of the accelerator's
\* result is within the tolerance of the reference.
PassedMeansEquivalent ==
  pc = "passed" => \A e \in Elems : Equivalent(fpgaOut[e], cpuOut[e])

=============================================================================
