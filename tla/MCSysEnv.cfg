CONSTANTS
  Co = {c1, c2}
  Value = {v1, v2}
  Unset = Unset
  MaxName = 3
  MaxList = 4
SPECIFICATION EnvSpec
SYMMETRY Symmetry
INVARIANTS EnvTypeOK
PROPERTIES PrivateSpec
