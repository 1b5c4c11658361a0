SPECIFICATION FairSpec
CONSTANTS
  Rows = 2
  Cols = 5
  MaxM = 4
  MaxTiles = 2
  MinRest = 0
  Ms = {0, 1, 3}
  Ks = {0, 1, 2}
  Ns = {0, 1, 4, 5}
  Tiles <- MCTiles
  Overflowing <- MCOverflowing
INVARIANTS
  ResultStands
  PulsesAccounted
  OverflowReported
PROPERTY
  TileEnds
