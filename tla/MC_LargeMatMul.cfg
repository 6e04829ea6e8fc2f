\* SIZE = 2 and num_rowA, num_colA, num_colB each in 0..3: no tile, one
\* exact tile, one partial tile, and a full tile followed by a partial one.
CONSTANTS
  Garbage = Garbage
  S = 2
  Dims = {0, 1, 2, 3}
SPECIFICATION Spec
INVARIANT TypeOK OutputTilesFinal
PROPERTY TilesZeroPadded
