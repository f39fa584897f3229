------------------------------ MODULE EchoNet ------------------------------
(***************************************************************************)
(* The TCP connections between the clients and the server of the echo      *)
(* examples, as the two programs use them.  A request is the 8 bytes of    *)
(* one write: they travel in one segment.  A connection is there as long   *)
(* as one of its ends is.                                                  *)
(***************************************************************************)
EXTENDS Lists

CONSTANTS Client,      \* coroutines of the clients
          Worker,      \* coroutines of the server that serve a connection
          MaxBacklog,  \* connections the kernel keeps for accept (1024)
          NULL

Conn == 1 .. Cardinality(Worker) + MaxBacklog

ASSUME SizeAssumption == IsFiniteSet(Worker) /\ MaxBacklog \in Nat \ {0}
ASSUME NullAssumption == NULL \notin Client \cup Conn

VARIABLES owner,    \* [Conn -> the client that has its end open, or NULL]
          side,     \* [Conn -> the server's end: "free", "backlog" or "open"]
          backlog,  \* connections to accept, oldest first
          request,  \* [Conn -> BOOLEAN]: sent by the client, not read
          reply,    \* [Conn -> BOOLEAN]: sent by the server, not read
          reset     \* [Conn -> BOOLEAN]: the server has got a RST

net == <<owner, side, backlog, request, reply, reset>>

NetInit == /\ owner = [c \in Conn |-> NULL] /\ side = [c \in Conn |-> "free"]
           /\ backlog = <<>>
           /\ request = [c \in Conn |-> FALSE] /\ reply = [c \in Conn |-> FALSE]
           /\ reset = [c \in Conn |-> FALSE]

Unused == {c \in Conn : owner[c] = NULL /\ side[c] = "free"}

(* A handshake; the server need not accept for it, but have room for it. *)
Handshake(k, c) ==
  /\ Len(backlog) < MaxBacklog
  /\ c = Min(Unused)
  /\ owner' = [owner EXCEPT ![c] = k]
  /\ side' = [side EXCEPT ![c] = "backlog"]
  /\ backlog' = Append(backlog, c)
  /\ UNCHANGED <<request, reply, reset>>

(* The client's close.  A reply that has come and was not read is answered  *)
(* by a RST; one that comes later finds the end of file sent.               *)
ClientCloses(c) ==
  /\ owner' = [owner EXCEPT ![c] = NULL]
  /\ \E come \in BOOLEAN :
       reset' = [reset EXCEPT ![c] = @ \/ (come /\ reply[c] /\ side[c] = "open")]
  /\ reply' = [reply EXCEPT ![c] = FALSE]
  /\ UNCHANGED <<side, backlog, request>>

(* The server's close. *)
ServerCloses(c) ==
  /\ side' = [side EXCEPT ![c] = "free"]
  /\ request' = [request EXCEPT ![c] = FALSE]
  /\ reset' = [reset EXCEPT ![c] = FALSE]
  /\ UNCHANGED <<owner, backlog, reply>>
============================================================================
