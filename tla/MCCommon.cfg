SPECIFICATION MCSpec
CONSTANTS
  AddrWidth = 2
  a = a
  b = b
  Data <- MCData
  Zero <- MCZero
  NumReq = 3
  SramDepth = 4
  Lanes = {0, 1}
  Bytes = {0, 1}
  Simulations <- MCSimulations
  DirectedOps <- MCDirectedOps
  RandomRows <- MCRandomRows
  RandomOps <- MCRandomOps
  RandomWords <- MCRandomWords
  MaxDefects = 1
  HostBlocks = {0, 1, 3, 4}
  HostRegisters = {TRACE_RDATA, OTHER}
  TraceRdata = TRACE_RDATA
  TRACE_RDATA = TRACE_RDATA
  OTHER = OTHER
  AccumMax = 7
  Operands <- MCOperands
  ColumnRows = 4
INVARIANTS
  CountMatchesPointers
  BoundedWait
  BenchIsExact
  AnsweredOnce
  NoResponseLeft
  MatchesGolden
PROPERTY
  ImplementsQueue
  AccessReturns
CHECK_DEADLOCK FALSE
