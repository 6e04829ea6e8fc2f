------------------------------ MODULE MainTests ------------------------------
(***************************************************************************)
(* main of fpga_offload.c after the BRAM test: profile_transferSize (as    *)
(* TimingProfile models it), then the four functionality tests 5-8         *)
(* (fpga_matvec, fpga_matmul, fpga_large_matvec_naive and                  *)
(* fpga_large_matmul_naive2 against cpu_matvec and cpu_matmul), with the   *)
(* NUM_REPEAT loop of fpga_matvec_verbose calls between tests 5 and 6.     *)
(*                                                                         *)
(* Each test zeroes two averages, repeats NUM_REPEAT times (fresh inputs,  *)
(* the accelerator call, the reference call, timespec_add of both          *)
(* durations, the per-element check of ResultCheck, PASSED or FAILED and   *)
(* exit(1)), then divides both averages by NUM_REPEAT.  The tests differ   *)
(* only in the function called and in the sizes, so a test is its index in *)
(* Tests.  An accelerator result is the reference plus a deviation from    *)
(* Deviations (0 for a correct call), or NaN.                              *)
(***************************************************************************)
EXTENDS Timespec, Sequences

CONSTANTS
  NumTrials, MaxSec,   \* profile_transferSize (TimingProfile)
  NumRepeat,           \* NUM_REPEAT
  Durations,           \* the timespecs an fpga_* or cpu_* call may return
  N, CpuValues, NaN,   \* the elements compared and the reference values
  Deviations           \* accelerator result minus reference, in hundredths, or NaN

Tests == <<"matvec", "matmul", "large_matvec", "large_matmul">>
VerboseAfter == 1    \* 5-2 follows test 5

VARIABLES
  clock, profJ, profP, profAvg, profTotal, profPc,    \* profile_transferSize
  test,        \* the test running, an index into Tests
  rep,         \* the loop index p
  fpgaAvg,     \* ts_fpga_avg
  cpuAvg,      \* ts_cpu_avg
  fpgaTotal,   \* the sum of the fpga durations of this test, in nanoseconds
  cpuTotal,    \* the same for the cpu durations
  fpgaOut, cpuOut, elem, successFlag, checkPc,        \* the result check
  pc

profVars == <<clock, profJ, profP, profAvg, profTotal, profPc>>
checkVars == <<fpgaOut, cpuOut, elem, successFlag, checkPc>>
testVars == <<test, rep, fpgaAvg, cpuAvg, fpgaTotal, cpuTotal>>
vars == <<profVars, testVars, checkVars, pc>>

TP == INSTANCE TimingProfile
        WITH j <- profJ, p <- profP, avg <- profAvg, total <- profTotal, pc <- profPc

FpgaResult(c, d) == IF d = NaN THEN NaN ELSE c + d

\* What the accelerator may return for a reference value.
FpgaValues == {FpgaResult(c, d) : c \in CpuValues, d \in Deviations}

RC == INSTANCE ResultCheck WITH j <- elem, pc <- checkPc

\* Mutant: the average is not re-initialised for the next test.
StartAverageCarried(prev) == prev

\* timespec_init(&ts_fpga_avg) / timespec_init(&ts_cpu_avg) at a test's start.
StartAverage(prev) == TimespecZero

\* for (int p = 0; p < NUM_REPEAT; p++)
RepeatsLeft == rep < NumRepeat

Init ==
  /\ TP!Init
  /\ test = 1
  /\ rep = 0
  /\ fpgaAvg = TimespecZero /\ cpuAvg = TimespecZero
  /\ fpgaTotal = 0 /\ cpuTotal = 0
  /\ fpgaOut = [e \in RC!Elems |-> 0] /\ cpuOut = [e \in RC!Elems |-> 0]
  /\ elem = 0 /\ successFlag = 1 /\ checkPc = "check"
  /\ pc = "profile"

\* One step of profile_transferSize.
ProfileStep ==
  /\ pc = "profile"
  /\ TP!Next
  /\ UNCHANGED <<testVars, checkVars, pc>>

ProfileReturn ==
  /\ pc = "profile"
  /\ profPc = "done"
  /\ pc' = "start"
  /\ UNCHANGED <<profVars, testVars, checkVars>>

\* The start of a test: timespec_init of both averages.
StartTest ==
  /\ pc = "start"
  /\ fpgaAvg' = StartAverage(fpgaAvg)
  /\ cpuAvg' = StartAverage(cpuAvg)
  /\ fpgaTotal' = 0 /\ cpuTotal' = 0
  /\ rep' = 0
  /\ pc' = "repeat"
  /\ UNCHANGED <<profVars, test, checkVars>>

\* One repetition up to the check: random inputs (outputs zeroed),
\* success_flag = 1, the accelerator and the reference call, and
\* timespec_add of both durations into the averages.
Repeat ==
  /\ pc = "repeat"
  /\ RepeatsLeft
  /\ \E ref \in [RC!Elems -> CpuValues], dev \in [RC!Elems -> Deviations],
        tsFpga \in Durations, tsCpu \in Durations :
       IF AddAsserts(fpgaAvg, tsFpga) /\ AddAsserts(cpuAvg, tsCpu)
         THEN /\ cpuOut' = ref
              /\ fpgaOut' = [e \in RC!Elems |-> FpgaResult(ref[e], dev[e])]
              /\ fpgaAvg' = TimespecAdd(fpgaAvg, tsFpga)
              /\ cpuAvg' = TimespecAdd(cpuAvg, tsCpu)
              /\ fpgaTotal' = fpgaTotal + Units(tsFpga)
              /\ cpuTotal' = cpuTotal + Units(tsCpu)
              /\ elem' = 0 /\ successFlag' = 1 /\ checkPc' = "check"
              /\ pc' = "check"
         ELSE /\ pc' = "abort"
              /\ UNCHANGED <<fpgaAvg, cpuAvg, fpgaTotal, cpuTotal, checkVars>>
  /\ UNCHANGED <<profVars, test, rep>>

\* One iteration of the element loop.
CheckStep ==
  /\ pc = "check"
  /\ RC!CheckElement
  /\ UNCHANGED <<profVars, testVars, pc>>

\* PASSED and the next repetition, or FAILED and exit(1).
Verdict ==
  /\ pc = "check"
  /\ RC!Report
  /\ IF successFlag = 1 THEN pc' = "repeat" /\ rep' = rep + 1
                        ELSE pc' = "exit" /\ UNCHANGED rep
  /\ UNCHANGED <<profVars, test, fpgaAvg, cpuAvg, fpgaTotal, cpuTotal>>

\* timespec_div of both averages by NUM_REPEAT, and their printing.
Average ==
  /\ pc = "repeat"
  /\ ~RepeatsLeft
  /\ IF DivAsserts(fpgaAvg, NumRepeat) /\ DivAsserts(cpuAvg, NumRepeat)
       THEN /\ fpgaAvg' = TimespecDiv(fpgaAvg, NumRepeat)
            /\ cpuAvg' = TimespecDiv(cpuAvg, NumRepeat)
            /\ pc' = "averaged"
       ELSE /\ pc' = "abort"
            /\ UNCHANGED <<fpgaAvg, cpuAvg>>
  /\ UNCHANGED <<profVars, test, rep, fpgaTotal, cpuTotal, checkVars>>

\* The next test, the verbose loop after test 5, or the final message.
NextTest ==
  /\ pc = "averaged"
  /\ IF test = VerboseAfter THEN pc' = "verbose" /\ rep' = 0 /\ UNCHANGED test
     ELSE IF test < Len(Tests) THEN pc' = "start" /\ test' = test + 1 /\ UNCHANGED rep
     ELSE pc' = "passed_all" /\ UNCHANGED <<test, rep>>
  /\ UNCHANGED <<profVars, fpgaAvg, cpuAvg, fpgaTotal, cpuTotal, checkVars>>

\* 5-2: NUM_REPEAT calls of fpga_matvec_verbose, whose result is not checked.
VerboseRepeat ==
  /\ pc = "verbose"
  /\ RepeatsLeft
  /\ rep' = rep + 1
  /\ UNCHANGED <<profVars, test, fpgaAvg, cpuAvg, fpgaTotal, cpuTotal, checkVars, pc>>

VerboseDone ==
  /\ pc = "verbose"
  /\ ~RepeatsLeft
  /\ pc' = "start"
  /\ test' = test + 1
  /\ UNCHANGED <<profVars, rep, fpgaAvg, cpuAvg, fpgaTotal, cpuTotal, checkVars>>

Stopped == pc \in {"passed_all", "exit", "abort"} /\ UNCHANGED vars

Next ==
  \/ ProfileStep \/ ProfileReturn
  \/ StartTest \/ Repeat \/ CheckStep \/ Verdict \/ Average
  \/ NextTest \/ VerboseRepeat \/ VerboseDone \/ Stopped

\* main is a single sequential thread.
Spec == Init /\ [][Next]_vars /\ WF_vars(Next)

(***************************************************************************)
(* Properties.                                                             *)
(***************************************************************************)

TypeOK ==
  /\ TP!TypeOK
  /\ test \in 1 .. Len(Tests)
  /\ rep \in 0 .. NumRepeat
  /\ fpgaTotal \in Nat /\ cpuTotal \in Nat
  /\ fpgaOut \in [RC!Elems -> FpgaValues \cup {0}] /\ cpuOut \in [RC!Elems -> CpuValues \cup {0}]
  /\ elem \in 0 .. N
  /\ pc \in {"profile", "start", "repeat", "check", "averaged", "verbose",
            "passed_all", "exit", "abort"}

\* No assert of timespec_sub, timespec_add or timespec_div fires, in the
\* profile or in the tests' averaging.
AssertsNeverFire == TP!AssertsNeverFire /\ pc # "abort"

\* Every average printed, by the profile or by a test, is normalized.
AverageNormalized ==
  /\ TP!AverageNormalized
  /\ pc = "averaged" => Normalized(fpgaAvg) /\ Normalized(cpuAvg)

\* The profile's averages are the mean of its durations (TimingProfile).
AverageIsMean == TP!AverageIsMean

\* Every transfer of the profile fits its buffer (TimingProfile).
TransferFitsBuffer == TP!TransferFitsBuffer

\* The averages a test prints are the means of that test's own durations,
\* truncated, or one nanosecond less: nothing of an earlier test, whose
\* sums the same ts_fpga_avg and ts_cpu_avg variables held, is left in them.
TestAverageIsMean ==
  pc = "averaged" =>
    \A m \in {<<fpgaAvg, fpgaTotal>>, <<cpuAvg, cpuTotal>>} :
      Units(m[1]) \in (m[2] \div NumRepeat - 1) .. (m[2] \div NumRepeat)

\* main prints FAILED and exits only when some element of the accelerator's
\* result is outside the tolerance of the reference: the check has no
\* false alarms (though it misses some errors, PassedMeansEquivalent).
FailedMeansMismatch ==
  checkPc = "failed" =>
    \E e \in RC!Elems : ~RC!Equivalent(fpgaOut[e], cpuOut[e])

\* A repetition main reports PASSED has every element within the tolerance
\* of the reference.
PassedMeansEquivalent == RC!PassedMeansEquivalent

=============================================================================
