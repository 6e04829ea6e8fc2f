----------------------------- MODULE LargeMatMul -----------------------------
(***************************************************************************)
(* fpga_large_matmul_naive2 of fpga_offload.c (direct 3-D tiling): the     *)
(* num_rowA x num_colB output is cut into SIZE x SIZE tiles (i, j); for    *)
(* each a fresh accumulator sums, over the reduction tiles k, the product  *)
(* fpga_matmul computes of the zero-padded (i, k) tile of matrix1 and      *)
(* (k, j) tile of matrix2; the valid tilesize_i x tilesize_j block is then *)
(* copied into out_matrix.                                                 *)
(*                                                                         *)
(* fpga_matmul is one step returning cpu_matmul of the two tiles, the      *)
(* contract AcceleratorCall states and Accelerator is checked to meet.     *)
(***************************************************************************)
EXTENDS TileAlgebra

CONSTANTS
  S,     \* SIZE
  Dims   \* the num_rowA, num_colA and num_colB values it is called with

VARIABLES
  numRowA, numColA, numColB,   \* the arguments
  i, j, k,                     \* the three tile loop indices
  fpgaMatrix1, fpgaMatrix2,    \* the tile buffers, uninitialised on entry
  outputBuffer,                \* the accumulator of output tile (i, j)
  outMatrix,                   \* the caller's out_matrix
  pc

vars == <<numRowA, numColA, numColB, i, j, k, fpgaMatrix1, fpgaMatrix2,
          outputBuffer, outMatrix, pc>>

InMatrix1 == Operand("A", 0, numRowA * numColA)
InMatrix2 == Operand("B", 0, numColA * numColB)

\* fpga_matmul on one pair of tiles.
FpgaMatMul(m1, m2) == CpuMatMul(m1, m2, S, S, S)

\* tilesize_i, tilesize_j and tilesize_k: SIZE, or what is left.
TileSize(n, at) == IF n - at >= S THEN S ELSE n - at

ZeroTile(n) == [p \in Indices(n) |-> Zero]

\* Mutant: the tile buffers keep what the previous k left in them.
TileBufferNotCleared(buf) == buf

\* for (p = 0; p < SIZE*SIZE; p++) fpga_matrix1[p] = fpga_matrix2[p] = 0.0f
TileBufferCleared(buf) == ZeroTile(S * S)

\* memcpy of rows p < rows, cols floats each, from src at offset
\* first + stride * p into buf + SIZE * p.
CopyTile(buf, src, first, stride, rows, cols) ==
  [q \in Indices(S * S) |->
     IF q \div S < rows /\ q % S < cols
       THEN src[first + stride * (q \div S) + (q % S)]
       ELSE buf[q]]

TsI == TileSize(numRowA, i)
TsJ == TileSize(numColB, j)
TsK == TileSize(numColA, k)

\* The (k, j) tile of matrix2: rows of num_colB floats from row k, column j.
Matrix2Tile(buf) == CopyTile(buf, InMatrix2, numColB * k + j, numColB, TsK, TsJ)

\* The (i, k) tile of matrix1.
Matrix1Tile(buf) == CopyTile(buf, InMatrix1, numColA * i + k, numColA, TsI, TsK)

\* Mutant: the last partial tile copied SIZE floats wide.
TileWidthFull(n, at) == S

\* The width of the block copied into out_matrix.
CopyWidth(n, at) == TileSize(n, at)

Init ==
  /\ numRowA \in Dims /\ numColA \in Dims /\ numColB \in Dims
  /\ i = 0 /\ j = 0 /\ k = 0
  /\ fpgaMatrix1 \in {ZeroTile(S * S), [p \in Indices(S * S) |-> Garbage]}
  /\ fpgaMatrix2 \in {ZeroTile(S * S), [p \in Indices(S * S) |-> Garbage]}
  /\ outputBuffer = ZeroTile(S * S)
  /\ outMatrix = ZeroTile(numRowA * numColB)
  /\ pc = "i"

\* for (i = 0; i < num_rowA; i += SIZE)
IStart ==
  /\ pc = "i"
  /\ i < numRowA
  /\ j' = 0
  /\ pc' = "j"
  /\ UNCHANGED <<numRowA, numColA, numColB, i, k, fpgaMatrix1, fpgaMatrix2,
                 outputBuffer, outMatrix>>

\* Mutant: output_buffer declared once per tile-row, outside the j loop.
AccumulatorCarriedOver == outputBuffer

\* float output_buffer[SIZE*SIZE] = {0.0f}, once per output tile.
FreshAccumulator == ZeroTile(S * S)

\* for (j = 0; j < num_colB; j += SIZE): out and output_buffer = {0.0f}.
JStart ==
  /\ pc = "j"
  /\ j < numColB
  /\ outputBuffer' = FreshAccumulator
  /\ k' = 0
  /\ pc' = "k"
  /\ UNCHANGED <<numRowA, numColA, numColB, i, j, fpgaMatrix1, fpgaMatrix2, outMatrix>>

IEnd ==
  /\ pc = "j"
  /\ j >= numColB
  /\ i' = i + S
  /\ pc' = "i"
  /\ UNCHANGED <<numRowA, numColA, numColB, j, k, fpgaMatrix1, fpgaMatrix2,
                 outputBuffer, outMatrix>>

\* One reduction tile: clear both buffers, copy the (i, k) and (k, j)
\* tiles in, fpga_matmul, output_buffer[p] += out[p] for all SIZE*SIZE p.
KTile ==
  /\ pc = "k"
  /\ k < numColA
  /\ fpgaMatrix1' = Matrix1Tile(TileBufferCleared(fpgaMatrix1))
  /\ fpgaMatrix2' = Matrix2Tile(TileBufferCleared(fpgaMatrix2))
  /\ LET out == FpgaMatMul(fpgaMatrix1', fpgaMatrix2')
     IN outputBuffer' = [p \in Indices(S * S) |-> Add(outputBuffer[p], out[p])]
  /\ k' = k + S
  /\ UNCHANGED <<numRowA, numColA, numColB, i, j, outMatrix, pc>>

\* Save the tile: rows p < tilesize_i, tilesize_j floats each, to
\* out_matrix + num_colB*i + num_colB*p + j.  A copy past the end of
\* out_matrix grows it, which TypeOK flags.
JEnd ==
  /\ pc = "k"
  /\ k >= numColA
  /\ LET w == CopyWidth(numColB, j)
         dst(q) == numColB * i + numColB * (q \div S) + j + (q % S)
         copied == {q \in Indices(S * S) : q \div S < TsI /\ q % S < w}
         written == {dst(q) : q \in copied}
     IN outMatrix' =
          [r \in DOMAIN outMatrix \cup written |->
             IF r \in written
               THEN outputBuffer[CHOOSE q \in copied : dst(q) = r]
               ELSE outMatrix[r]]
  /\ j' = j + S
  /\ pc' = "j"
  /\ UNCHANGED <<numRowA, numColA, numColB, i, k, fpgaMatrix1, fpgaMatrix2, outputBuffer>>

Return ==
  /\ pc = "i"
  /\ i >= numRowA
  /\ pc' = "done"
  /\ UNCHANGED <<numRowA, numColA, numColB, i, j, k, fpgaMatrix1, fpgaMatrix2,
                 outputBuffer, outMatrix>>

Finished == pc = "done" /\ UNCHANGED vars

Next == IStart \/ JStart \/ IEnd \/ KTile \/ JEnd \/ Return \/ Finished

Spec == Init /\ [][Next]_vars /\ WF_vars(Next)

(***************************************************************************)
(* Properties.                                                             *)
(***************************************************************************)

\* out_matrix is exactly the caller's num_rowA * num_colB floats: no tile
\* copy writes past it.
TypeOK ==
  /\ numRowA \in Dims /\ numColA \in Dims /\ numColB \in Dims
  /\ DOMAIN outMatrix = Indices(numRowA * numColB)
  /\ DOMAIN outputBuffer = Indices(S * S)
  /\ pc \in {"i", "j", "k", "done"}

\* Output element (r, c) holds what cpu_matmul computes once its tile has
\* been saved, and is untouched before: the reduction over all of num_colA
\* is complete, no partial sum of another tile leaks in, and the partial
\* edge tiles land at the right place of the row-major output.
OutputTilesFinal ==
  LET ref == CpuMatMul(InMatrix1, InMatrix2, numRowA, numColA, numColB)
      Saved(r, c) == \/ r - (r % S) < i
                     \/ pc \in {"j", "k"} /\ r - (r % S) = i /\ c - (c % S) < j
  IN \A p \in DOMAIN outMatrix :
       outMatrix[p] = IF Saved(p \div numColB, p % numColB) THEN ref[p] ELSE Zero

\* Every pair of tiles handed to fpga_matmul is zero outside the
\* tilesize_i x tilesize_k and tilesize_k x tilesize_j sub-blocks.
TilesZeroPadded ==
  [][KTile =>
       \A q \in Indices(S * S) :
         /\ (q \div S >= TsI \/ q % S >= TsK) => fpgaMatrix1'[q] = Zero
         /\ (q \div S >= TsK \/ q % S >= TsJ) => fpgaMatrix2'[q] = Zero]_vars

=============================================================================
