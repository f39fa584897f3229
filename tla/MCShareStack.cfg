CONSTANTS
  Co = {main, c1, c2, c3}
  MainCo = main
  NULL = NULL
  NoFrames = NoFrames
  count = 2
  UIntSize = 3
  CallStackSize = 3
  FreeOccupant = FALSE
  MaxVersion = 1
SPECIFICATION Spec
SYMMETRY Symmetry
INVARIANTS TypeOK FramesInPlace FramesKept
PROPERTY PrivateSpec
