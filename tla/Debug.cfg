SPECIFICATION Spec
CONSTANTS
  AddrWidth = 1
  Tags = {0, 1}
  Failures = {"BAD_DIM"}
INVARIANTS
  TraceInOrder
  CountIsReadable
