CONSTANTS
  Node = {n1, n2, n3}
  nodesReplicas = 2
  MAXI = 5
SPECIFICATION RingSpec
SYMMETRY Symmetry
INVARIANTS GetIsSuccessor MembersServed
PROPERTIES Monotone
