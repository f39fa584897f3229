--------------------------- MODULE MCSocketHooks ---------------------------
(* Two coroutines on one descriptor, which they open, use, close and reuse. *)
EXTENDS SocketHooks
============================================================================
