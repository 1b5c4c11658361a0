SPECIFICATION HostSpec
CONSTANTS
  Rows = 1
  Cols = 2
  Tags = {0}
  DimKs = {0}
  DimNs = {0}
  FifoDepth = 2
  HostOpcodes = {"STORE", "MATMUL", "INVALID", "LOAD_ACT"}
  SoftResets = {TRUE, FALSE}
  ReadAddrs = {"STATUS"}
  IrqMasks = {{"ERROR"}}
INVARIANTS
  EngineOwnership
  RouterFollowsCommand
  DeliveredIsAwaited
  RoomIsUsable
  QuietIsDone
PROPERTIES
  CompletionRecorded
  IrqHeld
  ImplementsService
