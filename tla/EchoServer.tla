---------------------------- MODULE EchoServer ----------------------------
(***************************************************************************)
(* example_echosvr.cpp, one process of it: an acceptor and a fixed number  *)
(* of workers, coroutines of one thread.  Workers without a connection are *)
(* on the stack g_readwrite, suspended in co_yield_ct; the others poll     *)
(* their descriptor.  A coroutine runs until it blocks, so the only        *)
(* interleaving is with the clients.                                       *)
(*                                                                         *)
(* The thread's errno is a variable of its own: calls that succeed leave   *)
(* it as it is, so a worker may find what another coroutine has put there. *)
(***************************************************************************)
EXTENDS EchoNet

VARIABLES g_readwrite,  \* the stack of idle workers, its top last
          fd,           \* [Worker -> its descriptor, or -1]
          file,         \* the descriptor table: [Fd -> connection, or NULL]
          acceptor,     \* "run", or "poll": until an event, or a second is over
          errno         \* "EAGAIN", or any other

server == <<g_readwrite, fd, file, acceptor, errno>>

Fd == 1 .. Cardinality(Worker)

(* main: every worker was started and has pushed itself; the acceptor runs. *)
ServerInit ==
  /\ g_readwrite \in SeqOf(Worker, Cardinality(Worker))
  /\ Once(g_readwrite) /\ ToSet(g_readwrite) = Worker
  /\ fd = [w \in Worker |-> -1]
  /\ file = [f \in Fd |-> NULL]
  /\ acceptor = "run"
  /\ errno = "other"

---------------------------------------------------------------------------
(* accept_routine: what ends a run of it, ... *)
PoolEmpty ==
  /\ acceptor = "run" /\ g_readwrite = <<>>
  /\ acceptor' = "poll"
  /\ UNCHANGED <<net, g_readwrite, fd, file, errno>>

AcceptFails ==
  /\ acceptor = "run" /\ g_readwrite # <<>>
  /\ backlog = <<>>
  /\ errno' = "EAGAIN"
  /\ acceptor' = "poll"
  /\ UNCHANGED <<net, g_readwrite, fd, file>>

(* ... and the end of its poll, by an event or after a second. *)
AcceptorWakes ==
  /\ acceptor = "poll"
  /\ acceptor' = "run"
  /\ UNCHANGED <<net, g_readwrite, fd, file, errno>>

(* The kernel gives out the lowest number that is free. *)
Lowest(f) == file[f] = NULL /\ \A g \in 1 .. f - 1 : file[g] # NULL

(* A connection becomes open, and the worker on top has its descriptor. *)
Given(c, f) ==
  /\ side' = [side EXCEPT ![c] = "open"]
  /\ file' = [file EXCEPT ![f] = c]
  /\ fd' = [fd EXCEPT ![Last(g_readwrite)] = f]
  /\ UNCHANGED <<owner, request, reply, reset, acceptor, errno>>

(* Fault: the worker stays on the stack. *)
AcceptUnpopped(f) ==
  /\ acceptor = "run" /\ g_readwrite # <<>> /\ backlog # <<>> /\ Lowest(f)
  /\ Given(Head(backlog), f)
  /\ backlog' = Tail(backlog)
  /\ UNCHANGED g_readwrite

(* co_accept, SetNonBlock and the resumed worker, which takes the           *)
(* descriptor and polls it, are one run.  (The second test whether the      *)
(* stack is empty never succeeds: nothing yields since the first.)          *)
Accept(f) ==
  /\ acceptor = "run" /\ g_readwrite # <<>> /\ backlog # <<>> /\ Lowest(f)
  /\ Given(Head(backlog), f)
  /\ backlog' = Tail(backlog)
  /\ g_readwrite' = Front(g_readwrite)

---------------------------------------------------------------------------
(* readwrite_routine, from the end of its co_poll, by an event or after a   *)
(* second, to the next one.                                                 *)
Wakes(w) == acceptor = "poll" /\ fd[w] # -1

(* What was read is written.  The client may be gone: its end of file, and  *)
(* then a RST, which not every kernel reports after the end of file.        *)
Echo(w) ==
  LET c == file[fd[w]] IN
  /\ Wakes(w) /\ request[c]
  /\ request' = [request EXCEPT ![c] = FALSE]
  /\ IF owner[c] # NULL
     THEN reply' = [reply EXCEPT ![c] = TRUE] /\ UNCHANGED reset
     ELSE reset' \in {reset, [reset EXCEPT ![c] = TRUE]} /\ UNCHANGED reply
  /\ UNCHANGED <<owner, side, backlog, server>>

(* Fault: read again only after a timeout, not at EAGAIN. *)
NothingYetCloses(w) ==
  LET c == file[fd[w]] IN
  /\ Wakes(w) /\ ~request[c] /\ ~reset[c] /\ owner[c] # NULL
  /\ ServerCloses(c)
  /\ file' = [file EXCEPT ![fd[w]] = NULL]
  /\ fd' = [fd EXCEPT ![w] = -1]
  /\ g_readwrite' = Append(g_readwrite, w)
  /\ errno' = "EAGAIN"
  /\ UNCHANGED acceptor

NothingYet(w) ==
  LET c == file[fd[w]] IN
  /\ Wakes(w) /\ ~request[c] /\ ~reset[c] /\ owner[c] # NULL
  /\ errno' = "EAGAIN"
  /\ UNCHANGED <<net, g_readwrite, fd, file, acceptor>>

(* Fault: the descriptor is not closed. *)
ReleaseUnclosed(w) ==
  /\ fd' = [fd EXCEPT ![w] = -1]
  /\ g_readwrite' = Append(g_readwrite, w)
  /\ UNCHANGED <<net, file, acceptor>>

(* close, and the worker goes back to the stack. *)
Release(w) ==
  /\ ServerCloses(file[fd[w]])
  /\ file' = [file EXCEPT ![fd[w]] = NULL]
  /\ fd' = [fd EXCEPT ![w] = -1]
  /\ g_readwrite' = Append(g_readwrite, w)
  /\ UNCHANGED acceptor

(* The end of file: read returns 0 and leaves errno alone.  With an EAGAIN  *)
(* of some earlier call there the worker reads again, and so on for as long *)
(* as it stays there.                                                       *)
EndOfFile(w) ==
  LET c == file[fd[w]] IN
  /\ Wakes(w) /\ ~request[c] /\ ~reset[c] /\ owner[c] = NULL
  /\ errno # "EAGAIN"
  /\ Release(w)
  /\ UNCHANGED errno

(* Fault: errno of before the call is tested. *)
ReadFailsStale(w) ==
  /\ Wakes(w) /\ ~request[file[fd[w]]] /\ reset[file[fd[w]]]
  /\ errno # "EAGAIN"
  /\ Release(w)
  /\ errno' = "other"

(* ECONNRESET *)
ReadFails(w) ==
  /\ Wakes(w) /\ ~request[file[fd[w]]] /\ reset[file[fd[w]]]
  /\ Release(w)
  /\ errno' = "other"

(* Fault: the last idle worker is never given a connection. *)
AcceptorRunsReserving ==
  \/ /\ acceptor = "run" /\ Len(g_readwrite) <= 1
     /\ acceptor' = "poll"
     /\ UNCHANGED <<net, g_readwrite, fd, file, errno>>
  \/ Len(g_readwrite) > 1 /\ (AcceptFails \/ \E f \in Fd : Accept(f))

AcceptorRuns == PoolEmpty \/ AcceptFails \/ \E f \in Fd : Accept(f)
Served(w)    == Echo(w) \/ NothingYet(w) \/ ReadFails(w)

ServerNext == \/ AcceptorRuns \/ AcceptorWakes
              \/ \E w \in Worker : Served(w) \/ EndOfFile(w)
============================================================================
