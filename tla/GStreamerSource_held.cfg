SPECIFICATION Spec
CONSTANTS
  MaxBuffers = 3
  MaxPrerolls = 1
  Dims = {d1}
  PullFaults = {}
INVARIANT HeldIsMapped
CHECK_DEADLOCK FALSE
