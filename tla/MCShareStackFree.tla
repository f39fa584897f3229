------------------------- MODULE MCShareStackFree -------------------------
(* The same coroutines in a program that releases a coroutine as soon as it *)
(* has ended.                                                               *)
EXTENDS ShareStack
===========================================================================
