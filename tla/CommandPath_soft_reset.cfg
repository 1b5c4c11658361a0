SPECIFICATION FairSpec
CONSTANTS
  Rows = 1
  Cols = 2
  Tags = {0}
  DimKs = {0}
  DimNs = {0}
  FifoDepth = 1
  HostOpcodes = {"STORE"}
  SoftResets = {TRUE, FALSE}
  ReadAddrs = {}
  IrqMasks = {{}}
PROPERTY
  SoftResetRestartable
