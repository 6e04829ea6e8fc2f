\* SIZE = 2 and num_rowA, num_colA, num_colB each in 0..5: empty, square
\* and every non-square shape up to 5 x 5; inside each column's
\* fpga_large_matvec_naive call, no tile, one or two exact tiles, partial tiles
\* and full tiles followed by a partial one, in both directions.
CONSTANTS
  Garbage = Garbage
  S = 2
  Dims = {0, 1, 2, 3, 4, 5}
SPECIFICATION Spec
INVARIANT TypeOK CalleeTypeOK CalleeRowsFinal StrategyAResult
PROPERTY TilesZeroPadded
