SPECIFICATION Spec
CONSTANTS
  Sources = {s1}
  MaxFrames = 6
INVARIANT HeldIsStable
PROPERTY ImplementsFrameSource
