CONSTANTS
  Body = {b1, b2, b3}
  Main = Main
  NULL = NULL
  NoFrames = NoFrames
  DEFAULT_COROUTINE = 1
  STACK_SIZE = 2
  MaxCap = 4
  MaxVersion = 2
SPECIFICATION Spec
SYMMETRY Symmetry
INVARIANTS AssertsHold SavedComplete
PROPERTIES IdsKept PrivateSpec
