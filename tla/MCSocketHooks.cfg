CONSTANTS
  Co = {c1, c2}
  HookedCo = {c1, c2}
  Fd = {f1}
  NULL = NULL
  MaxBytes = 3
  BufSize = 2
  ConnectPolls = 2
SPECIFICATION FairSpec
INVARIANTS SetNeverBlocks WriteTruth
PROPERTIES CallsReturn
