\* main up to the end of bram_readwrite_test, with TestSize = 10 floats.
CONSTANTS
  Garbage = Garbage
  TestSize = 10
  ProcDevices <- MCProcDevices
  RegisterValues <- MCRegisterValues
SPECIFICATION Spec
INVARIANT TypeOK PassedMeansRoundTrip
PROPERTY ChannelCountExact
