-------------------------------- MODULE Echo --------------------------------
(***************************************************************************)
(* The echo server and its clients.                                        *)
(***************************************************************************)
EXTENDS EchoServer, EchoClient

vars == <<net, server, client>>

TypeOK ==
  /\ owner \in [Conn -> Client \cup {NULL}]
  /\ side \in [Conn -> {"free", "backlog", "open"}]
  /\ backlog \in Seq(Conn)
  /\ request \in [Conn -> BOOLEAN] /\ reply \in [Conn -> BOOLEAN]
  /\ reset \in [Conn -> BOOLEAN]
  /\ g_readwrite \in Seq(Worker)
  /\ fd \in [Worker -> Fd \cup {-1}] /\ file \in [Fd -> Conn \cup {NULL}]
  /\ acceptor \in {"run", "poll"} /\ errno \in {"EAGAIN", "other"}
  /\ pc \in [Client -> {"connecting", "writing", "reading"}]
  /\ sock \in [Client -> Conn \cup {NULL}]

Init == NetInit /\ ServerInit /\ ClientInit

Next == \/ ServerNext /\ UNCHANGED client
        \/ ClientNext /\ UNCHANGED server

Spec == Init /\ [][Next]_vars

(* The server's event loop resumes whoever it is the turn of: every poll    *)
(* ends within a second, and a turn of the loop handles all that have       *)
(* ended.  Only EndOfFile hangs on more than that, on what errno is when    *)
(* the worker reads, and gets no fairness; nor do the clients.              *)
FairSpec ==
  /\ Spec
  /\ WF_vars(AcceptorWakes /\ UNCHANGED client)
  /\ WF_vars(AcceptorRuns /\ UNCHANGED client)
  /\ \A w \in Worker : SF_vars(Served(w) /\ UNCHANGED client)

---------------------------------------------------------------------------
(* Who is on the stack g_readwrite is suspended in co_yield_ct, there once, *)
(* and nobody else is, so the acceptor's co_resume never reaches a worker   *)
(* that waits in its co_poll (co_resume does not check it).                 *)
PoolIsIdle ==
  /\ TypeOK
  /\ Once(g_readwrite)
  /\ ToSet(g_readwrite) = {w \in Worker : fd[w] = -1}

(* Every descriptor that is open is served by exactly one worker, and every *)
(* connection the server has accepted by exactly one descriptor: none leaks *)
(* and no worker uses a number that was closed, or given to another.        *)
ServedByOne ==
  /\ \A v, w \in Worker : fd[v] = fd[w] /\ fd[w] # -1 => v = w
  /\ \A f \in Fd : file[f] # NULL <=> \E w \in Worker : fd[w] = f
  /\ \A f, g \in Fd : file[f] = file[g] /\ file[g] # NULL => f = g
  /\ \A c \in Conn : side[c] = "open" <=> \E f \in Fd : file[f] = c

(* The client's read is the answer to what it has written last: an answer   *)
(* that comes after the read has timed out is never found by a later one.   *)
AnswerIsToLast ==
  \A k \in Client : sock[k] # NULL =>
    /\ owner[sock[k]] = k
    /\ pc[k] = "writing" => ~request[sock[k]] /\ ~reply[sock[k]]
    /\ ~(request[sock[k]] /\ reply[sock[k]])

(* The server closes a connection only after its client has: a poll that    *)
(* times out is no reason ("cause EAGAIN, we should continue",              *)
(* example_echosvr.cpp:105).                                                *)
ClosesOnlyDead ==
  [][\A c \in Conn : side[c] = "open" /\ side'[c] = "free" => owner[c] = NULL]_vars

(* A connection does not wait for ever while again and again a worker is    *)
(* idle.                                                                    *)
Accepted ==
  []<>(g_readwrite # <<>>) =>
    \A c \in Conn : side[c] = "backlog" ~> side[c] # "backlog"

(* A worker whose client has reset the connection becomes idle, whatever    *)
(* errno other coroutines leave behind meanwhile.                           *)
ResetIsSeen == \A c \in Conn : reset[c] ~> side[c] = "free"
=============================================================================
