\* cpu_innerproduct called twice on the same operands and output buffer.
CONSTANTS
  Garbage = Garbage
  S = 2
  MaxCalls = 2
  Ops = {"innerproduct"}
SPECIFICATION Spec
INVARIANT OracleIdempotent
