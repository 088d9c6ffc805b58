SPECIFICATION FairSpec
CONSTANTS
  c1 = c1
  c2 = c2
  Clients = {c1, c2}
  Asks <- MCAsks
  Values = 2
CHECK_DEADLOCK FALSE
INVARIANT OwnConnection
INVARIANT CutIsDeserved
INVARIANT FramesDiffer
PROPERTY ConnectedIsServed
PROPERTY AskedIsAnswered
