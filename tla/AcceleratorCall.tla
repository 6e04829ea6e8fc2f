--------------------------- MODULE AcceleratorCall ---------------------------
(***************************************************************************)
(* What one fixed-size accelerator call of fpga_offload.c promises its     *)
(* caller: a synchronous call that returns the product the reference CPU   *)
(* code of utils.c computes for the same operands.                         *)
(*                                                                         *)
(*   fpga_matvec(in_matrix, in_vector, out)      ~ cpu_matvec(S, S)        *)
(*   fpga_matvec_verbose(in_matrix, in_vector, out) ~ cpu_matvec(S, S)     *)
(*   fpga_matmul(in_matrix1, in_matrix2, out)    ~ cpu_matmul(S, S, S)     *)
(*   fpga_innerproduct(in_vector1, in_vector2, out) ~ cpu_innerproduct(S)  *)
(*                                                                         *)
(* Each call has fresh operands whose elements are atoms named after the   *)
(* call number, so a result left over from an earlier call is never equal  *)
(* to the result of the current one.                                       *)
(***************************************************************************)
EXTENDS TileAlgebra

CONSTANTS
  S,         \* SIZE: the accelerator's tile edge
  MaxCalls,  \* number of calls the caller makes
  Ops        \* the entry points the caller uses

VARIABLES busy, call, result, calls

avars == <<busy, call, result, calls>>

\* The arguments of the call number n to entry point op.
Call(op, n) ==
  CASE op = "innerproduct" ->
         [op |-> op, x |-> Operand("v1", n, S), y |-> Operand("v2", n, S)]
    [] op = "matmul" ->
         [op |-> op, x |-> Operand("A", n, S * S), y |-> Operand("B", n, S * S)]
    [] OTHER ->
         [op |-> op, x |-> Operand("M", n, S * S), y |-> Operand("v", n, S)]

NoCall == [op |-> "none", x |-> <<>>, y |-> <<>>]

\* The result the reference code computes; the caller's output buffer
\* starts zeroed, which is what cpu_innerproduct then accumulates into.
Reference(c) ==
  CASE c.op = "innerproduct" -> [i \in Indices(1) |-> CpuInnerProduct(c.x, c.y, Zero, S)]
    [] c.op = "matmul"       -> CpuMatMul(c.x, c.y, S, S, S)
    [] OTHER                 -> CpuMatVec(c.x, c.y, S, S)

AInit ==
  /\ busy = FALSE
  /\ call = NoCall
  /\ result = <<>>
  /\ calls = 0

AInvoke(op) ==
  /\ ~busy
  /\ calls < MaxCalls
  /\ busy' = TRUE
  /\ call' = Call(op, calls)
  /\ UNCHANGED <<result, calls>>

AReturn ==
  /\ busy
  /\ result' = Reference(call)
  /\ busy' = FALSE
  /\ calls' = calls + 1
  /\ UNCHANGED call

ANext == (\E op \in Ops : AInvoke(op)) \/ AReturn

\* The call is synchronous and returns: fpga_* never gives up on a call.
ASpec == AInit /\ [][ANext]_avars /\ WF_avars(AReturn)

=============================================================================
