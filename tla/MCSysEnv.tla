------------------------------ MODULE MCSysEnv ------------------------------
(* Two coroutines, three names, and every list of up to four of them with   *)
(* repetitions and empty names.                                             *)
EXTENDS SysEnv, TLC

Symmetry == Permutations(Co) \cup Permutations(Value)
=============================================================================
