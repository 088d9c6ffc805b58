CONSTANTS
  Dims = {d1, d2}
  Metadata = {"metadata", "format", "formatOnly", "malformed"}
  MaxCalls = 3
SPECIFICATION FairSpec
INVARIANTS
  TypeOK
  InStep
  SuccessHasFrame
  BrokenIsReported
PROPERTIES
  ImplementsFrameSource
  CallReturns
CHECK_DEADLOCK FALSE
