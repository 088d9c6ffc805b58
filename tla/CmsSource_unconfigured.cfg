SPECIFICATION Spec
CONSTANTS
  Sources = {s1}
  MaxFrames = 1
PROPERTY FoundIsConfigured
