SPECIFICATION FairSpec
CONSTANTS
  MaxBuffers = 3
  MaxPrerolls = 2
  Dims = {d1, d2}
  PullFaults = {"eos", "error"}
INVARIANT TypeOK
INVARIANT NoOverwrite
INVARIANT NoLostWakeup
INVARIANT QueueBounded
INVARIANT FrameHasItsSize
PROPERTY ImplementsHandoff
PROPERTY CallAnswered
CHECK_DEADLOCK FALSE
