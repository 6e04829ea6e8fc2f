\* Two elements; reference values 1.00 and 2.50, accelerator values up to
\* 50% off, and a NaN read back from device memory.
CONSTANTS
  N = 2
  CpuValues = {100, 250}
  FpgaValues = {100, 150, 250, 300, NaN}
  NaN = NaN
SPECIFICATION Spec
INVARIANT PassedMeansEquivalent
