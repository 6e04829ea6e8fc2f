\* fpga_matvec, fpga_matmul and fpga_innerproduct, each against the design
\* it is written for (multi-PE matrix-vector or inner product), over a
\* transport that delivers every byte.
CONSTANTS
  Garbage = Garbage
  S = 2
  MaxCalls = 3
  Ops = {"matvec", "matmul", "innerproduct"}
  Bitstreams = {"matvec", "innerproduct"}
  DoneCodes = {0, 1, 2}
  MaxReadFaults = 0
SPECIFICATION Spec
INVARIANT TypeOK
PROPERTY RefinesAcceleratorCall NoOperandWriteWhileBusy
