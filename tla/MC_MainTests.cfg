\* The profile as in the timing runs (BILLION = 4, three trials, clock up
\* to 2 s); then two repetitions per test and two elements per check, with
\* references 1.00 and 250.00 and accelerator results exact, 1.00 high
\* (outside the tolerance of 1.00, inside that of 250.00) or NaN.
CONSTANTS
  Billion = 4
  NumTrials = 3
  MaxSec = 2
  NumRepeat = 2
  Durations <- MCDurations
  N = 2
  CpuValues = {100, 25000}
  Deviations = {0, 100, NaN}
  NaN = NaN
SPECIFICATION Spec
INVARIANT TypeOK AssertsNeverFire AverageNormalized AverageIsMean TransferFitsBuffer TestAverageIsMean FailedMeansMismatch
