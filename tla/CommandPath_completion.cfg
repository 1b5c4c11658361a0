SPECIFICATION FairSpec
CONSTANTS
  Rows = 1
  Cols = 2
  Tags = {0}
  DimKs = {0}
  DimNs = {0, 1, 2}
  FifoDepth = 1
  HostOpcodes = {"STORE", "MATMUL"}
  SoftResets = {FALSE}
  ReadAddrs = {}
  IrqMasks = {}
PROPERTY
  EveryCommandReported
