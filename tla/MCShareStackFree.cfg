CONSTANTS
  Co = {main, c1, c2}
  MainCo = main
  NULL = NULL
  count = 1
  UIntSize = 3
  CallStackSize = 3
  FreeOccupant = TRUE
  MaxVersion = 1
SPECIFICATION Spec
INVARIANT OccupantAllocated
