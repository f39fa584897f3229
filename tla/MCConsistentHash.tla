-------------------------- MODULE MCConsistentHash --------------------------
(* Every way two points each of three nodes can lie on six hash values.     *)
EXTENDS ConsistentHash, TLC

Symmetry == Permutations(Node)
============================================================================
