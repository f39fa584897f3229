---------------------------- MODULE MCSchedule ----------------------------
(* Three coroutines in a table that starts with one place and grows twice. *)
EXTENDS ScheduleRefinement, TLC

Symmetry == Permutations(Body)
===========================================================================
