\* fpga_matvec and fpga_matmul when one read_from_channel may return fewer
\* bytes than asked (rc <= 0 or a short read).
CONSTANTS
  Garbage = Garbage
  S = 2
  MaxCalls = 2
  Ops = {"matvec", "matmul"}
  Bitstreams = {"matvec"}
  DoneCodes = {1}
  MaxReadFaults = 1
SPECIFICATION Spec
PROPERTY RefinesAcceleratorCall
