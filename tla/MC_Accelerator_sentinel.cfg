\* One fpga_matvec against an FPGA whose completion code may be 0x5555:
\* the poll cannot tell "done" from "busy" (spec sections 3 and 8).
CONSTANTS
  Garbage = Garbage
  S = 2
  MaxCalls = 1
  Ops = {"matvec"}
  Bitstreams = {"matvec"}
  DoneCodes = {1, 21845}
  MaxReadFaults = 0
SPECIFICATION Spec
PROPERTY RefinesAcceleratorCall
