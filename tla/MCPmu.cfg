SPECIFICATION Spec
CONSTANTS
  Rows = 1
  Cols = 2
  Tags = {0}
  DimKs = {0}
  DimNs = {0}
  Pushed <- MCPushed
  CountMod = 2
  LatencyMod = 3
INVARIANTS
  CyclesClassified
  LatencyLessOne
