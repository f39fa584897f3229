---------------------------- MODULE MCEventLoop ----------------------------
(* A few coroutines and descriptors, timeouts on both sides of their bounds. *)
EXTENDS EventLoopInvariants, EventLoopLists, TLC

Symmetry == Permutations(Co) \cup Permutations(Fd)
===========================================================================
