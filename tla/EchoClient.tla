---------------------------- MODULE EchoClient ----------------------------
(***************************************************************************)
(* example_echocli.cpp: each coroutine connects, writes a request, reads   *)
(* the answer, writes the next, and starts again with a new connection     *)
(* when a call fails.  Its calls are hooked: connect and read yield until  *)
(* an event or their timeout.                                              *)
(***************************************************************************)
EXTENDS EchoNet

VARIABLES pc,    \* [Client -> "connecting", "writing" or "reading"]
          sock   \* [Client -> its connection, or NULL]

client == <<pc, sock>>

ClientInit == /\ pc = [k \in Client |-> "connecting"]
              /\ sock = [k \in Client |-> NULL]

(* A connect that is refused, or times out after 75 seconds, shows when     *)
(* write fails; then the coroutine connects again, so that nothing changes. *)
(* (The hooked connect leaves errno 0 or ETIMEDOUT: the client's own poll   *)
(* and its getsockopt are never reached.)                                   *)
Connected(k) ==
  /\ pc[k] = "connecting"
  /\ \E c \in Unused : Handshake(k, c) /\ sock' = [sock EXCEPT ![k] = c]
  /\ pc' = [pc EXCEPT ![k] = "writing"]

Write(k) ==
  /\ pc[k] = "writing"
  /\ request' = [request EXCEPT ![sock[k]] = TRUE]
  /\ pc' = [pc EXCEPT ![k] = "reading"]
  /\ UNCHANGED <<owner, side, backlog, reply, reset, sock>>

(* Any answer is a success. *)
Read(k) ==
  /\ pc[k] = "reading" /\ reply[sock[k]]
  /\ reply' = [reply EXCEPT ![sock[k]] = FALSE]
  /\ pc' = [pc EXCEPT ![k] = "writing"]
  /\ UNCHANGED <<owner, side, backlog, request, reset, sock>>

(* Fault: the client keeps its connection. *)
ReadTimesOutKeeps(k) ==
  /\ pc[k] = "reading"
  /\ pc' = [pc EXCEPT ![k] = "writing"]
  /\ UNCHANGED <<net, sock>>

(* The failed coroutine closes, and connects again. *)
StartAgain(k) ==
  /\ ClientCloses(sock[k])
  /\ sock' = [sock EXCEPT ![k] = NULL]
  /\ pc' = [pc EXCEPT ![k] = "connecting"]

(* No answer within the second of the hooked read, or one that is still on  *)
(* its way then.                                                            *)
ReadTimesOut(k) == pc[k] = "reading" /\ StartAgain(k)

(* Somebody kills the client and starts it again. *)
Killed(k) == pc[k] = "writing" /\ StartAgain(k)

ClientNext == \E k \in Client : \/ Connected(k) \/ Write(k)
                                \/ Read(k) \/ ReadTimesOut(k) \/ Killed(k)
============================================================================
