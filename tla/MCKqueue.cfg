CONSTANTS
  Fd = {f1, f2}
  Data = {d1, d2}
  NULL = NULL
  MaxEvents = 3
SPECIFICATION Spec
SYMMETRY Symmetry
INVARIANTS FiltersHavePairs CountedOnce
PROPERTIES EntriesMerged
