----------------------------- MODULE LargeMatVec -----------------------------
(***************************************************************************)
(* fpga_large_matvec_naive of fpga_offload.c: an num_row x num_col         *)
(* matrix-vector product cut into SIZE x SIZE tiles.  For each tile-row    *)
(* i it zeroes an accumulator, and for each tile-column j builds a         *)
(* zero-padded matrix tile and vector tile in two stack buffers that live  *)
(* across iterations, calls fpga_matvec and adds the result into the       *)
(* accumulator; then it copies the valid rows into out_vector.             *)
(*                                                                         *)
(* fpga_matvec is one step returning cpu_matvec of the tile, the contract  *)
(* AcceleratorCall states and Accelerator is checked to implement.         *)
(***************************************************************************)
EXTENDS TileAlgebra

CONSTANTS
  S,     \* SIZE
  Dims   \* the num_row and num_col values the function is called with

VARIABLES
  numRow, numCol,   \* the arguments
  i, j,             \* the tile-row and tile-column loop indices
  fpgaMatrix,       \* float fpga_matrix[SIZE*SIZE], uninitialised on entry
  fpgaVector,       \* float fpga_vector[SIZE], uninitialised on entry
  outputBuffer,     \* the accumulator of tile-row i
  inVector,         \* the caller's in_vector
  outVector,        \* the caller's out_vector
  pc

vars == <<numRow, numCol, i, j, fpgaMatrix, fpgaVector, outputBuffer, inVector, outVector, pc>>

InMatrix == Operand("A", 0, numRow * numCol)

\* fpga_matvec on one tile.
FpgaMatVec(m, v) == CpuMatVec(m, v, S, S)

\* num_row_in_tile, and the columns of tile-column j that exist.
RowsInTile == IF numRow - i >= S THEN S ELSE numRow - i
ColsInTile == IF numCol - j >= S THEN S ELSE numCol - j

ZeroTile(n) == [p \in Indices(n) |-> Zero]

\* Mutant: the partial tile-row is not zero-padded in advance.
MatrixTileBaseNoZeroing == fpgaMatrix

\* What the matrix buffer holds before the rows are copied in: zeroed
\* when the tile-row is partial (case 2), else as the last tile left it.
MatrixTileBase == IF numRow - i >= S THEN fpgaMatrix ELSE ZeroTile(S * S)

\* Rows m < num_row_in_tile: the row of the sub-block, zero past its end.
MatrixTile ==
  [p \in Indices(S * S) |->
     LET m == p \div S
         c == p % S
     IN IF m < RowsInTile
          THEN IF c < ColsInTile THEN InMatrix[numCol * i + j + numCol * m + c] ELSE Zero
          ELSE MatrixTileBase[p]]

VectorTile == [c \in Indices(S) |-> IF c < ColsInTile THEN inVector[j + c] ELSE Zero]

\* Mutant: the accumulator declared once, outside the tile-row loop.
StaleAccumulator == outputBuffer

\* float output_buffer[SIZE] = {0.0f}, once per tile-row.
FreshAccumulator == ZeroTile(S)

\* Mutant: the whole SIZE floats copied even for the last, partial tile-row.
CopyLenFullTile == S

\* The floats memcpy'd from output_buffer into out_vector + i.
CopyLen == IF numRow - i >= S THEN S ELSE numRow - i

\* What an uninitialised stack array of n floats may hold.
Uninitialised(n) == {ZeroTile(n), [p \in Indices(n) |-> Garbage]}

\* Entry: out_vector's num_row floats are zeroed; fpga_matrix and
\* fpga_vector are uninitialised stack arrays.
Enter ==
  /\ i = 0
  /\ j = 0
  /\ fpgaMatrix \in Uninitialised(S * S)
  /\ fpgaVector \in Uninitialised(S)
  /\ outputBuffer = ZeroTile(S)
  /\ outVector = ZeroTile(numRow)
  /\ pc = "row"

Init ==
  /\ numRow \in Dims
  /\ numCol \in Dims
  /\ inVector = Operand("x", 0, numCol)
  /\ Enter

\* for (i = 0; i < num_row; i += SIZE): a new tile-row.
RowStart ==
  /\ pc = "row"
  /\ i < numRow
  /\ outputBuffer' = FreshAccumulator
  /\ j' = 0
  /\ pc' = "col"
  /\ UNCHANGED <<numRow, numCol, inVector, i, fpgaMatrix, fpgaVector, outVector>>

\* One iteration of the tile-column loop: build both tiles, fpga_matvec,
\* output_buffer[n] += out[n] for all SIZE n.
ColTile ==
  /\ pc = "col"
  /\ j < numCol
  /\ fpgaMatrix' = MatrixTile
  /\ fpgaVector' = VectorTile
  /\ LET out == FpgaMatVec(fpgaMatrix', fpgaVector')
     IN outputBuffer' = [n \in Indices(S) |-> Add(outputBuffer[n], out[n])]
  /\ j' = j + S
  /\ UNCHANGED <<numRow, numCol, inVector, i, outVector, pc>>

\* End of the tile-column loop: memcpy the tile-row into out_vector.  The
\* copy may reach past num_row; the buffer then grows, which TypeOK flags.
RowEnd ==
  /\ pc = "col"
  /\ j >= numCol
  /\ outVector' =
       [r \in DOMAIN outVector \cup {i + n : n \in Indices(CopyLen)} |->
          IF r - i \in Indices(CopyLen) THEN outputBuffer[r - i] ELSE outVector[r]]
  /\ i' = i + S
  /\ pc' = "row"
  /\ UNCHANGED <<numRow, numCol, inVector, j, fpgaMatrix, fpgaVector, outputBuffer>>

\* Loop exit; the tile buffers are zeroed before returning.
Return ==
  /\ pc = "row"
  /\ i >= numRow
  /\ fpgaMatrix' = ZeroTile(S * S)
  /\ fpgaVector' = ZeroTile(S)
  /\ pc' = "done"
  /\ UNCHANGED <<numRow, numCol, inVector, i, j, outputBuffer, outVector>>

\* The caller goes on with the result.
Finished == pc = "done" /\ UNCHANGED vars

Next == RowStart \/ ColTile \/ RowEnd \/ Return \/ Finished

\* A sequential function: it runs to completion.
Spec == Init /\ [][Next]_vars /\ WF_vars(Next)

(***************************************************************************)
(* Properties.                                                             *)
(***************************************************************************)

\* out_vector is exactly the caller's num_row floats; the row copies never
\* write past it.
TypeOK ==
  /\ numRow \in Dims /\ numCol \in Dims
  /\ DOMAIN outVector = Indices(numRow)
  /\ DOMAIN outputBuffer = Indices(S)
  /\ DOMAIN fpgaMatrix = Indices(S * S) /\ DOMAIN fpgaVector = Indices(S)
  /\ pc \in {"row", "col", "done"}

\* Every tile-row that has been copied out holds what cpu_matvec computes
\* for those rows, and no other row has been touched: the accumulator is
\* fresh per tile-row, every partial sum is added once, and padding adds
\* nothing, not even when the stack buffers start out as NaN.
OutputRowsFinal ==
  LET ref == CpuMatVec(InMatrix, inVector, numRow, numCol)
  IN \A r \in DOMAIN outVector :
       outVector[r] = IF r < i THEN ref[r] ELSE Zero

\* Every tile handed to fpga_matvec is fully populated: each entry outside
\* the num_row_in_tile x (num_col - j) sub-block is 0.0f, never a left-over
\* of an earlier tile or uninitialised stack.
TilesZeroPadded ==
  [][ColTile =>
       /\ \A p \in Indices(S * S) :
            (p \div S >= RowsInTile \/ p % S >= ColsInTile) => fpgaMatrix'[p] = Zero
       /\ \A c \in Indices(S) : c >= ColsInTile => fpgaVector'[c] = Zero]_vars

=============================================================================
