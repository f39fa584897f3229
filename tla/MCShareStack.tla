--------------------------- MODULE MCShareStack ---------------------------
(* Three coroutines beside the main one, on one or two shared stacks.       *)
EXTENDS ShareStackRefinement, TLC

Symmetry == Permutations(Co \ {MainCo})
===========================================================================
