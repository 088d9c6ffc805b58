SPECIFICATION Spec
CONSTANTS
  Sources = {s1, s2}
  MaxFrames = 3
INVARIANT SuccessIsFresh
