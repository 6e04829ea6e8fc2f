------------------------------ MODULE RefOracle ------------------------------
(***************************************************************************)
(* The reference CPU code of utils.c used as an oracle: a harness calls    *)
(* cpu_innerproduct, cpu_matvec or cpu_matmul on the same operands and the *)
(* same output buffer, again and again.                                    *)
(***************************************************************************)
EXTENDS TileAlgebra

CONSTANTS
  S,         \* the operand size
  MaxCalls,  \* calls the harness makes
  Ops        \* the reference functions it calls

VARIABLES out, op, calls

vars == <<out, op, calls>>

V1 == Operand("a", 0, S)
V2 == Operand("b", 0, S)
M1 == Operand("M", 0, S * S)
M2 == Operand("N", 0, S * S)

\* What each function is meant to return for these operands.
Expected(o) ==
  CASE o = "innerproduct" ->
         [p \in Indices(S) |-> IF p = 0 THEN SumOver([c \in Indices(S) |-> Mul(V1[c], V2[c])], Indices(S))
                                        ELSE Zero]
    [] o = "matvec" -> CpuMatVec(M1, V1, S, S)
    [] OTHER -> CpuMatMul(M1, M2, S, S, S)

\* One call on the buffer: cpu_innerproduct adds into out[0], cpu_matvec
\* and cpu_matmul zero their output first.
CallRef(o) ==
  /\ calls < MaxCalls
  /\ out' = CASE o = "innerproduct" -> [out EXCEPT ![0] = CpuInnerProduct(V1, V2, out[0], S)]
              [] o = "matvec" -> CpuMatVec(M1, V1, S, S)
              [] OTHER -> CpuMatMul(M1, M2, S, S, S)
  /\ op' = o
  /\ calls' = calls + 1

Init ==
  /\ \E o \in Ops : op = o /\ out = [p \in Indices(IF o = "matmul" THEN S * S ELSE S) |-> Zero]
  /\ calls = 0

Next == CallRef(op) \/ (calls = MaxCalls /\ UNCHANGED vars)

Spec == Init /\ [][Next]_vars

\* Calling a reference function again with the same operands leaves the
\* same result: the oracle has no hidden state in the output buffer.
OracleIdempotent == calls > 0 => out = Expected(op)

=============================================================================
