------------------------------- MODULE MCEcho -------------------------------
(* Two clients and two workers, room for two connections to accept.  The    *)
(* connections of clients that are gone keep workers busy and fill the      *)
(* backlog, so both run out.                                                *)
EXTENDS Echo
=============================================================================
