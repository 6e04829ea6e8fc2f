----------------------------- MODULE LargeMatMulA -----------------------------
(***************************************************************************)
(* fpga_large_matmul_naive of fpga_offload.c (vector-tiling reuse): it     *)
(* transposes in_matrix2 (num_colA x num_colB), calls                      *)
(* fpga_large_matvec_naive once per column of the result, writing column i *)
(* to out_matrix_t + num_rowA*i, and transposes the column-major result    *)
(* back into out_matrix.                                                   *)
(*                                                                         *)
(* Each fpga_large_matvec_naive call runs LargeMatVec's loop in a frame of *)
(* its own: it zeroes its column of out_matrix_t, starts with uninitialised *)
(* stack tiles, and its fpga_matvec calls return cpu_matvec of the tile.   *)
(***************************************************************************)
EXTENDS TileAlgebra

CONSTANTS
  S,     \* SIZE
  Dims   \* the num_rowA, num_colA and num_colB values it is called with

VARIABLES
  numRowA, numColA, numColB,   \* the arguments
  inMatrix2T,                  \* in_matrix2_t
  outMatrixT,                  \* out_matrix_t
  outMatrix,                   \* the caller's out_matrix
  i,                           \* the column loop index
  pc,
  mvI, mvJ, mvMatrix, mvVector, mvAcc, mvIn, mvOut, mvPc
                               \* the frame of fpga_large_matvec_naive

frame == <<mvI, mvJ, mvMatrix, mvVector, mvAcc, mvIn, mvOut, mvPc>>
vars == <<numRowA, numColA, numColB, inMatrix2T, outMatrixT, outMatrix, i, pc, frame>>

\* fpga_large_matvec_naive(in_matrix1, in_matrix2_t + num_colA * i,
\* out_matrix_t + num_rowA * i, num_rowA, num_colA).
MV == INSTANCE LargeMatVec
        WITH numRow <- numRowA, numCol <- numColA, i <- mvI, j <- mvJ,
             fpgaMatrix <- mvMatrix, fpgaVector <- mvVector, outputBuffer <- mvAcc,
             inVector <- mvIn, outVector <- mvOut, pc <- mvPc

InMatrix1 == Operand("A", 0, numRowA * numColA)
InMatrix2 == Operand("B", 0, numColA * numColB)

\* Mutant: column i written at out_matrix_t + num_colA*i.
ColumnOffsetByColA == numColA * i

\* out_matrix_t + num_rowA * i.
ColumnOffset == numRowA * i

\* Mutant: the result transposed back with its dimensions swapped.
TransposeBackSwapped(m) == MatTransposeNaive(m, numRowA, numColB)

\* mat_transpose_naive(out_matrix_t, out_matrix, num_colB, num_rowA).
TransposeBack(m) == MatTransposeNaive(m, numColB, numRowA)

Init ==
  /\ numRowA \in Dims /\ numColA \in Dims /\ numColB \in Dims
  /\ inMatrix2T = <<>>
  /\ outMatrixT = <<>>
  /\ outMatrix = [p \in Indices(numRowA * numColB) |-> Zero]
  /\ i = 0
  /\ pc = "start"
  /\ mvI = 0 /\ mvJ = 0 /\ mvPc = "done"
  /\ mvMatrix = MV!ZeroTile(S * S) /\ mvVector = MV!ZeroTile(S) /\ mvAcc = MV!ZeroTile(S)
  /\ mvIn = <<>> /\ mvOut = <<>>

\* Allocate and zero out_matrix_t, transpose in_matrix2.
Start ==
  /\ pc = "start"
  /\ outMatrixT' = [p \in Indices(numRowA * numColB) |-> Zero]
  /\ inMatrix2T' = MatTransposeNaive(InMatrix2, numColA, numColB)
  /\ pc' = "loop"
  /\ UNCHANGED <<numRowA, numColA, numColB, outMatrix, i, frame>>

\* for (i = 0; i < num_colB; i++): call fpga_large_matvec_naive on column
\* i of in_matrix2_t.
Call ==
  /\ pc = "loop"
  /\ i < numColB
  /\ mvIn' = [c \in Indices(numColA) |-> inMatrix2T[numColA * i + c]]
  /\ mvOut' = MV!ZeroTile(numRowA)
  /\ mvI' = 0 /\ mvJ' = 0
  /\ mvMatrix' \in MV!Uninitialised(S * S)
  /\ mvVector' \in MV!Uninitialised(S)
  /\ mvAcc' = MV!ZeroTile(S)
  /\ mvPc' = "row"
  /\ pc' = "call"
  /\ UNCHANGED <<numRowA, numColA, numColB, inMatrix2T, outMatrixT, outMatrix, i>>

\* One step of the call.
MatVecStep ==
  /\ pc = "call"
  /\ MV!Next
  /\ UNCHANGED <<numColB, inMatrix2T, outMatrixT, outMatrix, i, pc>>

\* The call returns: what it wrote through out_vector is column i of
\* out_matrix_t.  A write past the end of out_matrix_t grows it, which
\* TypeOK flags.
ColumnReturn ==
  /\ pc = "call"
  /\ mvPc = "done"
  /\ LET at == ColumnOffset
         span == {at + r : r \in DOMAIN mvOut}
     IN outMatrixT' = [p \in DOMAIN outMatrixT \cup span |->
                         IF p \in span THEN mvOut[p - at] ELSE outMatrixT[p]]
  /\ i' = i + 1
  /\ pc' = "loop"
  /\ UNCHANGED <<numRowA, numColA, numColB, inMatrix2T, outMatrix, frame>>

\* Transpose back and free the temporaries.
Finish ==
  /\ pc = "loop"
  /\ i >= numColB
  /\ outMatrix' = TransposeBack(outMatrixT)
  /\ pc' = "done"
  /\ UNCHANGED <<numRowA, numColA, numColB, inMatrix2T, outMatrixT, i, frame>>

Finished == pc = "done" /\ UNCHANGED vars

Next == Start \/ Call \/ MatVecStep \/ ColumnReturn \/ Finish \/ Finished

Spec == Init /\ [][Next]_vars /\ WF_vars(Next)

(***************************************************************************)
(* Properties.                                                             *)
(***************************************************************************)

\* out_matrix_t stays the num_rowA * num_colB floats malloc'd for it.
TypeOK ==
  /\ numRowA \in Dims /\ numColA \in Dims /\ numColB \in Dims
  /\ pc \in {"start", "loop", "call", "done"}
  /\ pc # "start" => DOMAIN outMatrixT = Indices(numRowA * numColB)
  /\ i \in 0 .. numColB

\* fpga_large_matvec_naive's own properties, on every call it gets: the
\* column slice stays num_rowA floats, each finished tile-row of it is
\* cpu_matvec, and every tile it sends is zero-padded.
CalleeTypeOK == pc = "call" => MV!TypeOK
CalleeRowsFinal == pc = "call" => MV!OutputRowsFinal
TilesZeroPadded == MV!TilesZeroPadded

\* Column c of out_matrix_t is column c of the product once computed, and
\* on return out_matrix is the row-major product cpu_matmul computes: the
\* three transposes agree on which dimension is which.
StrategyAResult ==
  LET ref == CpuMatMul(InMatrix1, InMatrix2, numRowA, numColA, numColB)
  IN /\ pc = "loop" =>
          \A c \in Indices(i), r \in Indices(numRowA) :
            outMatrixT[numRowA * c + r] = ref[r * numColB + c]
     /\ pc = "done" => outMatrix = ref

=============================================================================
