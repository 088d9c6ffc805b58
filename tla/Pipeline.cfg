CONSTANTS
  Dims <- MCDims
  FrameBytes = {0, 3, 7}
  Capacities = {0, 2}
  Buffers = {b1, b2}
  ArgumentLists <- MCArgumentLists
SPECIFICATION Spec
INVARIANTS
  CreationIsHonest
  SuccessIsRecognised
  CopyFits
  ViewBelongs
