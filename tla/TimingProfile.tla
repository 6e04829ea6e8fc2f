---------------------------- MODULE TimingProfile ----------------------------
(***************************************************************************)
(* profile_transferSize of fpga_offload.c: for each transfer size j from   *)
(* 1KB, doubling while j < 0x10000, it zeroes an average (timespec_init),  *)
(* adds the duration write_to_channel returns for NUM_TRIALS transfers of  *)
(* j bytes out of a 0x8000-byte buffer (timespec_add), and divides by      *)
(* NUM_TRIALS (timespec_div).  write_to_channel measures itself with two   *)
(* CLOCK_MONOTONIC readings and timespec_sub.  main averages each test in  *)
(* the same way.  An assert that fails aborts the program.                 *)
(***************************************************************************)
EXTENDS Timespec

CONSTANTS
  NumTrials,   \* NUM_TRIALS
  MaxSec       \* the clock readings considered: seconds 0 .. MaxSec

FirstSize == 1024        \* 0x0400
SizeLimit == 65536       \* 0x10000
BufferBytes == 32768     \* malloc((size_t) 0x8000) for input_32KB

VARIABLES
  clock,     \* the last CLOCK_MONOTONIC reading
  j,         \* the transfer size
  p,         \* the trial loop index
  avg,       \* ts_fpga_avg
  total,     \* the sum of the durations measured for this size
  pc

vars == <<clock, j, p, avg, total, pc>>

\* CLOCK_MONOTONIC returns normalized readings that never go back.
Readings == {Timespec(s, n) : s \in 0 .. MaxSec, n \in 0 .. Billion - 1}
Later(t) == {r \in Readings : Units(r) >= Units(t)}

\* Mutant: the size loop runs while j <= 0x10000.
SizeLoopInclusive(size) == size <= SizeLimit

\* for (j = 0x0400; j < 0x10000; j *= 2)
SizeLoopContinues(size) == size < SizeLimit

\* Mutant: the trial loop runs for p <= NUM_TRIALS.
TrialsLeftInclusive == p <= NumTrials

\* for (p = 0; p < NUM_TRIALS; p++)
TrialsLeft == p < NumTrials

Init ==
  /\ clock \in Readings
  /\ j = FirstSize
  /\ p = 0
  /\ avg = TimespecZero
  /\ total = 0
  /\ pc = "size"

\* timespec_init(&ts_fpga_avg) for a new size.
StartSize ==
  /\ pc = "size"
  /\ SizeLoopContinues(j)
  /\ avg' = TimespecZero
  /\ p' = 0
  /\ total' = 0
  /\ pc' = "trial"
  /\ UNCHANGED <<clock, j>>

\* One write_to_channel of j bytes (clock_gettime, the transfer,
\* clock_gettime, timespec_sub) and timespec_add into the average.
Trial ==
  /\ pc = "trial"
  /\ TrialsLeft
  /\ \E start \in Later(clock), end \in Readings :
       /\ Units(end) >= Units(start)
       /\ clock' = end
       /\ LET ts == TimespecSub(end, start)
          IN IF SubAsserts(end, start) /\ AddAsserts(avg, ts)
               THEN /\ avg' = TimespecAdd(avg, ts)
                    /\ total' = total + Units(ts)
                    /\ p' = p + 1
                    /\ UNCHANGED pc
               ELSE /\ pc' = "abort"
                    /\ UNCHANGED <<avg, total, p>>
  /\ UNCHANGED j

\* timespec_div(&ts_fpga_avg, NUM_TRIALS), the average printed, j *= 2.
Average ==
  /\ pc = "trial"
  /\ ~TrialsLeft
  /\ IF DivAsserts(avg, NumTrials)
       THEN /\ avg' = TimespecDiv(avg, NumTrials)
            /\ pc' = "averaged"
       ELSE /\ pc' = "abort"
            /\ UNCHANGED avg
  /\ UNCHANGED <<clock, j, p, total>>

NextSize ==
  /\ pc = "averaged"
  /\ j' = j * 2
  /\ pc' = "size"
  /\ UNCHANGED <<clock, p, avg, total>>

\* The READ loop follows, in the same way.
Finish ==
  /\ pc = "size"
  /\ ~SizeLoopContinues(j)
  /\ pc' = "done"
  /\ UNCHANGED <<clock, j, p, avg, total>>

Stopped == pc \in {"done", "abort"} /\ UNCHANGED vars

Next == StartSize \/ Trial \/ Average \/ NextSize \/ Finish \/ Stopped

Spec == Init /\ [][Next]_vars /\ WF_vars(Next)

(***************************************************************************)
(* Properties.                                                             *)
(***************************************************************************)

TypeOK ==
  /\ clock \in Readings
  /\ p \in 0 .. NumTrials
  /\ total \in Nat
  /\ pc \in {"size", "trial", "averaged", "done", "abort"}

\* No assert of timespec_sub, timespec_add or timespec_div fires while the
\* durations are summed and averaged: each call leaves tv_nsec in range
\* for the next one.
AssertsNeverFire == pc # "abort"

\* The average printed with %ld.%09ld is normalized: the claim of
\* timespec_div's comment that tv_nsec/num + below_zero*BILLION cannot
\* reach BILLION.
AverageNormalized == pc = "averaged" => Normalized(avg)

\* The average printed is the mean of the measured durations, rounded
\* down, or one nanosecond less (the two parts are truncated apart).
AverageIsMean ==
  pc = "averaged" =>
    /\ Units(avg) <= total \div NumTrials
    /\ Units(avg) >= total \div NumTrials - 1

\* Every transfer of the loop fits the 0x8000-byte buffer it is made from.
TransferFitsBuffer == pc = "trial" => j <= BufferBytes

=============================================================================
