SPECIFICATION BenchSpec
CONSTANTS
  SramDepth = 4
  Lanes = {0, 1}
  Bytes = {0, 1}
  Simulations <- MCWholeFile
  DirectedOps <- MCDirectedOps
  RandomRows <- MCRandomRows
  RandomOps <- MCRandomOps
  RandomWords <- MCRandomWords
  MaxDefects = 0
PROPERTY
  CatalogueHolds
CHECK_DEADLOCK FALSE
