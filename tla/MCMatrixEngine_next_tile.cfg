SPECIFICATION Spec
CONSTANTS
  Rows = 2
  Cols = 10
  MaxM = 4
  MaxTiles = 2
  MinRest = 4
  Ms = {1, 2, 3}
  Ks = {2}
  Ns = {1, 5, 9}
  Tiles <- MCTiles
  Overflowing <- MCOverflowing
INVARIANT
  DrainedIsWritten
