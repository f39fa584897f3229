-------------------------- MODULE MCTimeoutWheel --------------------------
(* Small instance of the timer wheel: two timers, a wheel of three slots,   *)
(* a clock that jumps both ways and sweeps up to two turns late.            *)
EXTENDS TimeoutWheelRefinement

MCDelay == {-1, 0, 1, 2}
===========================================================================
