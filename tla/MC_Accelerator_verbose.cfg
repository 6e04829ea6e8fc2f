\* fpga_matvec_verbose against the multi-PE matrix-vector design.
CONSTANTS
  Garbage = Garbage
  S = 2
  MaxCalls = 1
  Ops = {"matvec_verbose"}
  Bitstreams = {"matvec"}
  DoneCodes = {1}
  MaxReadFaults = 0
SPECIFICATION Spec
PROPERTY RefinesAcceleratorCall
