SPECIFICATION FairSpec
CONSTANTS
  Sources = {s1, s2}
  MaxFrames = 2
INVARIANT TypeOK
INVARIANT NoOrphanRequest
PROPERTY ConfiguredBeforeUse
PROPERTY CallReturns
