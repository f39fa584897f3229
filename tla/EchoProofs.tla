----------------------------- MODULE EchoProofs -----------------------------
(***************************************************************************)
(* Proofs about the echo server and its clients, for any number of         *)
(* clients and workers and any backlog.                                    *)
(***************************************************************************)
EXTENDS Echo, ListLemmas, FiniteSetTheorems

(* The two ends of a connection, and what travels between them: the server  *)
(* lets go of a connection only after the client, and nothing of an earlier *)
(* life of a connection is left when it is made anew.                       *)
NetInv ==
  /\ Once(backlog) /\ ToSet(backlog) = {c \in Conn : side[c] = "backlog"}
  /\ \A c \in Conn :
       /\ side[c] = "free" => owner[c] = NULL /\ ~request[c] /\ ~reset[c]
       /\ owner[c] = NULL => ~reply[c]
       /\ reset[c] => owner[c] = NULL

(* A client has the connections it owns, which is one or none. *)
ClientInv ==
  /\ \A k \in Client : pc[k] = "connecting" <=> sock[k] = NULL
  /\ \A c \in Conn : owner[c] # NULL => sock[owner[c]] = c

EchoInv == PoolIsIdle /\ ServedByOne /\ NetInv /\ ClientInv /\ AnswerIsToLast

LEMMA Numbers == -1 \notin Fd /\ NULL \notin Conn /\ NULL \notin Client
  BY NullAssumption DEF Fd

LEMMA InitInv == Init => EchoInv
<1> SUFFICES ASSUME Init PROVE EchoInv
  OBVIOUS
<1> USE DEF Init, NetInit, ServerInit, ClientInit
<1>1. g_readwrite \in Seq(Worker)
  <2>1. Cardinality(Worker) \in Nat
    BY SizeAssumption, FS_CardinalityType
  <2> QED
    BY <2>1, SeqOfSeq
<1>2. TypeOK
  BY <1>1 DEF TypeOK
<1>3. PoolIsIdle
  BY <1>2 DEF PoolIsIdle
<1>4. ServedByOne
  BY Numbers DEF ServedByOne
<1>5. NetInv
  BY EmptyOnce DEF NetInv
<1>6. ClientInv /\ AnswerIsToLast
  BY DEF ClientInv, AnswerIsToLast
<1> QED
  BY <1>3, <1>4, <1>5, <1>6 DEF EchoInv

---------------------------------------------------------------------------
(* The acceptor's own steps, and polls that find nothing, move nothing.     *)
LEMMA IdleStep ==
  ASSUME EchoInv, UNCHANGED <<net, client, g_readwrite, fd, file>>,
         acceptor' \in {"run", "poll"}, errno' \in {"EAGAIN", "other"}
  PROVE  EchoInv'
<1> USE DEF EchoInv, net, client
<1>1. TypeOK'
  BY DEF PoolIsIdle, TypeOK
<1>2. PoolIsIdle' /\ ServedByOne'
  BY <1>1 DEF PoolIsIdle, ServedByOne
<1>3. NetInv' /\ ClientInv' /\ AnswerIsToLast'
  BY DEF NetInv, ClientInv, AnswerIsToLast
<1> QED
  BY <1>2, <1>3

LEMMA AcceptStep ==
  ASSUME EchoInv, NEW f \in Fd, Accept(f), UNCHANGED client
  PROVE  EchoInv'
<1> DEFINE w == Last(g_readwrite)
           c == Head(backlog)
<1> USE DEF EchoInv, Accept, Given, client
<1>1. TypeOK
  BY DEF PoolIsIdle
<1>2. /\ w \in Worker /\ fd[w] = -1
      /\ Front(g_readwrite) \in Seq(Worker) /\ Once(Front(g_readwrite))
      /\ ToSet(Front(g_readwrite)) = ToSet(g_readwrite) \ {w}
  BY <1>1, FrontMembers DEF PoolIsIdle, TypeOK
<1>3. /\ c \in Conn /\ side[c] = "backlog" /\ Tail(backlog) \in Seq(Conn)
      /\ Once(Tail(backlog)) /\ ToSet(Tail(backlog)) = ToSet(backlog) \ {c}
  BY <1>1, HeadMember, TailMembers DEF NetInv, TypeOK
<1>4. file[f] = NULL
  BY DEF Lowest
<1>5. TypeOK'
  BY <1>1, <1>2, <1>3 DEF TypeOK
<1>6. PoolIsIdle'
  BY <1>1, <1>2, <1>5, Numbers DEF PoolIsIdle, TypeOK
<1>7. ServedByOne'
  <2> USE <1>1, <1>2, <1>3, <1>4, Numbers DEF ServedByOne, TypeOK
  <2>1. \A v \in Worker : fd[v] # f
    OBVIOUS
  <2>2. \A g \in Fd : file[g] # c
    OBVIOUS
  <2>3. (\A u, v \in Worker : fd[u] = fd[v] /\ fd[v] # -1 => u = v)'
    BY <2>1
  <2>4. (\A g \in Fd : file[g] # NULL <=> \E v \in Worker : fd[v] = g)'
    BY <2>1
  <2>5. (\A g, h \in Fd : file[g] = file[h] /\ file[h] # NULL => g = h)'
    BY <2>2
  <2>6. (\A d \in Conn : side[d] = "open" <=> \E g \in Fd : file[g] = d)'
    BY <2>2
  <2> QED
    BY <2>3, <2>4, <2>5, <2>6
<1>8. NetInv'
  BY <1>1, <1>3 DEF NetInv, TypeOK
<1>9. ClientInv' /\ AnswerIsToLast'
  BY DEF ClientInv, AnswerIsToLast
<1> QED
  BY <1>6, <1>7, <1>8, <1>9

LEMMA EchoStep ==
  ASSUME EchoInv, NEW w \in Worker, Echo(w), UNCHANGED client
  PROVE  EchoInv'
<1> DEFINE c == file[fd[w]]
<1> USE DEF EchoInv, Echo, Wakes, server, client
<1>1. TypeOK
  BY DEF PoolIsIdle
<1>2. c \in Conn /\ side[c] = "open"
  BY <1>1, Numbers DEF ServedByOne, TypeOK
<1>3. TypeOK'
  BY <1>1, <1>2 DEF TypeOK
<1>4. PoolIsIdle' /\ ServedByOne'
  BY <1>3 DEF PoolIsIdle, ServedByOne
<1>5. NetInv'
  BY <1>1, <1>2 DEF NetInv, TypeOK
<1>6. ClientInv'
  BY DEF ClientInv
<1>7. AnswerIsToLast'
  BY <1>1, <1>2 DEF AnswerIsToLast, TypeOK
<1> QED
  BY <1>4, <1>5, <1>6, <1>7

(* close, and the worker goes back to the stack: what EndOfFile and         *)
(* ReadFails have in common.                                                *)
LEMMA ReleaseStep ==
  ASSUME EchoInv, NEW w \in Worker, Wakes(w), owner[file[fd[w]]] = NULL,
         Release(w), errno' \in {"EAGAIN", "other"}, UNCHANGED client
  PROVE  EchoInv'
<1> DEFINE c == file[fd[w]]
<1> USE DEF EchoInv, Wakes, Release, ServerCloses, client
<1>1. TypeOK
  BY DEF PoolIsIdle
<1>2. c \in Conn /\ side[c] = "open" /\ fd[w] \in Fd /\ fd[w] # -1
  BY <1>1, Numbers DEF ServedByOne, TypeOK
<1>3. TypeOK'
  BY <1>1, <1>2 DEF TypeOK
<1>4. PoolIsIdle'
  <2>1. w \notin ToSet(g_readwrite)
    BY <1>2 DEF PoolIsIdle
  <2>2. /\ ToSet(g_readwrite') = ToSet(g_readwrite) \cup {w}
        /\ Once(g_readwrite')
    BY <1>1, <2>1, AppendMembers DEF PoolIsIdle, TypeOK
  <2> QED
    BY <1>1, <1>2, <1>3, <2>2 DEF PoolIsIdle, TypeOK
<1>5. ServedByOne'
  <2> USE <1>1, <1>2, Numbers DEF ServedByOne, TypeOK
  <2>1. (\A u, v \in Worker : fd[u] = fd[v] /\ fd[v] # -1 => u = v)'
    OBVIOUS
  <2>2. (\A g \in Fd : file[g] # NULL <=> \E v \in Worker : fd[v] = g)'
    OBVIOUS
  <2>3. (\A g, h \in Fd : file[g] = file[h] /\ file[h] # NULL => g = h)'
    OBVIOUS
  <2>4. (\A d \in Conn : side[d] = "open" <=> \E g \in Fd : file[g] = d)'
    OBVIOUS
  <2> QED
    BY <2>1, <2>2, <2>3, <2>4
<1>6. NetInv'
  BY <1>1, <1>2 DEF NetInv, TypeOK
<1>7. ClientInv'
  BY DEF ClientInv
<1>8. AnswerIsToLast'
  BY <1>1, <1>2, Numbers DEF AnswerIsToLast, TypeOK
<1> QED
  BY <1>4, <1>5, <1>6, <1>7, <1>8

---------------------------------------------------------------------------
LEMMA ConnectedStep ==
  ASSUME EchoInv, NEW k \in Client, Connected(k), UNCHANGED server
  PROVE  EchoInv'
<1>1. PICK c \in Unused : Handshake(k, c) /\ sock' = [sock EXCEPT ![k] = c]
  BY DEF Connected
<1> USE <1>1 DEF EchoInv, Connected, Handshake, server
<1>2. TypeOK
  BY DEF PoolIsIdle
<1>3. /\ c \in Conn /\ owner[c] = NULL /\ side[c] = "free"
      /\ ~request[c] /\ ~reply[c] /\ ~reset[c]
  BY DEF Unused, NetInv
<1>4. TypeOK'
  BY <1>2, <1>3 DEF TypeOK
<1>5. PoolIsIdle'
  BY <1>4 DEF PoolIsIdle
<1>6. ServedByOne'
  BY <1>2, <1>3 DEF ServedByOne, TypeOK
<1>7. NetInv'
  <2>1. /\ ToSet(backlog') = ToSet(backlog) \cup {c}
        /\ Once(backlog')
    BY <1>2, <1>3, AppendMembers DEF NetInv, TypeOK
  <2>2. ToSet(backlog') = {d \in Conn : side'[d] = "backlog"}
    BY <1>2, <1>3, <2>1 DEF NetInv, TypeOK
  <2> QED
    BY <1>2, <1>3, <2>1, <2>2, Numbers DEF NetInv, TypeOK
<1>8. ClientInv'
  BY <1>2, <1>3, Numbers DEF ClientInv, TypeOK
<1>9. AnswerIsToLast'
  BY <1>2, <1>3, Numbers DEF AnswerIsToLast, TypeOK
<1> QED
  BY <1>5, <1>6, <1>7, <1>8, <1>9

(* A request is written, or an answer read. *)
LEMMA TalkStep ==
  ASSUME EchoInv, NEW k \in Client, Write(k) \/ Read(k), UNCHANGED server
  PROVE  EchoInv'
<1> DEFINE c == sock[k]
<1> USE DEF EchoInv, Write, Read, server
<1>1. TypeOK
  BY DEF PoolIsIdle
<1>2. c \in Conn /\ owner[c] = k /\ k # NULL /\ c # NULL
  BY <1>1, Numbers DEF ClientInv, AnswerIsToLast, TypeOK
<1>3. TypeOK'
  BY <1>1, <1>2 DEF TypeOK
<1>4. PoolIsIdle' /\ ServedByOne'
  BY <1>3 DEF PoolIsIdle, ServedByOne
<1>5. NetInv'
  <2>1. \A d \in Conn : d # c => request'[d] = request[d] /\ reply'[d] = reply[d]
    BY <1>1, <1>2 DEF TypeOK
  <2> QED
    BY <1>2, <2>1 DEF NetInv
<1>6. /\ owner' = owner /\ sock' = sock
      /\ c # NULL /\ pc[k] # "connecting" /\ pc'[k] # "connecting"
      /\ \A j \in Client : j # k => pc'[j] = pc[j] /\ sock[j] # c
  <2>1. \A j \in Client : j # k => sock[j] # c
    BY <1>1, <1>2, Numbers DEF AnswerIsToLast
  <2>2. CASE Write(k)
    BY <1>1, <1>2, <2>1, <2>2, Numbers DEF TypeOK
  <2>3. CASE Read(k)
    BY <1>1, <1>2, <2>1, <2>3, Numbers DEF TypeOK
  <2> QED
    BY <2>2, <2>3
<1>7. ClientInv'
  BY <1>6 DEF ClientInv
<1>8. AnswerIsToLast'
  <2>1. CASE Write(k)
    BY <1>1, <1>2, <1>6, <2>1 DEF AnswerIsToLast, TypeOK
  <2>2. CASE Read(k)
    BY <1>1, <1>2, <1>6, <2>2 DEF AnswerIsToLast, TypeOK
  <2> QED
    BY <2>1, <2>2
<1> QED
  BY <1>4, <1>5, <1>7, <1>8

LEMMA StartAgainStep ==
  ASSUME EchoInv, NEW k \in Client, pc[k] # "connecting", StartAgain(k),
         UNCHANGED server
  PROVE  EchoInv'
<1> DEFINE c == sock[k]
<1> USE DEF EchoInv, StartAgain, ClientCloses, server
<1>1. TypeOK
  BY DEF PoolIsIdle
<1>2. c \in Conn /\ owner[c] = k /\ k # NULL
  BY <1>1, Numbers DEF ClientInv, AnswerIsToLast, TypeOK
<1>3. PICK come \in BOOLEAN :
        reset' = [reset EXCEPT ![c] = @ \/ (come /\ reply[c] /\ side[c] = "open")]
  OBVIOUS
<1>4. TypeOK'
  BY <1>1, <1>2, <1>3 DEF TypeOK
<1>5. PoolIsIdle' /\ ServedByOne'
  BY <1>4 DEF PoolIsIdle, ServedByOne
<1>6. NetInv'
  BY <1>1, <1>2, <1>3 DEF NetInv, TypeOK
<1>7. ClientInv'
  BY <1>1, <1>2, Numbers DEF ClientInv, TypeOK
<1>8. AnswerIsToLast'
  BY <1>1, <1>2, Numbers DEF AnswerIsToLast, TypeOK
<1> QED
  BY <1>5, <1>6, <1>7, <1>8

---------------------------------------------------------------------------
LEMMA NextInv == EchoInv /\ [Next]_vars => EchoInv'
<1> SUFFICES ASSUME EchoInv, [Next]_vars PROVE EchoInv'
  OBVIOUS
<1>1. ASSUME UNCHANGED vars PROVE EchoInv'
  <2>1. acceptor \in {"run", "poll"} /\ errno \in {"EAGAIN", "other"}
    BY DEF EchoInv, PoolIsIdle, TypeOK
  <2> QED
    BY <1>1, <2>1, IdleStep DEF vars, server
<1>2. ASSUME PoolEmpty \/ AcceptFails \/ AcceptorWakes, UNCHANGED client PROVE EchoInv'
  <2>1. errno \in {"EAGAIN", "other"}
    BY DEF EchoInv, PoolIsIdle, TypeOK
  <2> QED
    BY <1>2, <2>1, IdleStep DEF PoolEmpty, AcceptFails, AcceptorWakes
<1>3. ASSUME NEW w \in Worker, NothingYet(w), UNCHANGED client PROVE EchoInv'
  <2>1. acceptor \in {"run", "poll"}
    BY DEF EchoInv, PoolIsIdle, TypeOK
  <2> QED
    BY <1>3, <2>1, IdleStep DEF NothingYet
<1>4. ASSUME NEW w \in Worker, EndOfFile(w), UNCHANGED client PROVE EchoInv'
  <2>1. errno \in {"EAGAIN", "other"}
    BY DEF EchoInv, PoolIsIdle, TypeOK
  <2> QED
    BY <1>4, <2>1, ReleaseStep DEF EndOfFile
<1>5. ASSUME NEW w \in Worker, ReadFails(w), UNCHANGED client PROVE EchoInv'
  <2>1. file[fd[w]] \in Conn
    BY <1>5, Numbers DEF ReadFails, Wakes, EchoInv, PoolIsIdle, ServedByOne, TypeOK
  <2>2. owner[file[fd[w]]] = NULL
    BY <1>5, <2>1 DEF ReadFails, EchoInv, NetInv
  <2> QED
    BY <1>5, <2>2, ReleaseStep DEF ReadFails
<1>6. ASSUME NEW k \in Client, ReadTimesOut(k) \/ Killed(k), UNCHANGED server
      PROVE  EchoInv'
  BY <1>6, StartAgainStep DEF ReadTimesOut, Killed
<1> QED
  BY <1>1, <1>2, <1>3, <1>4, <1>5, <1>6, AcceptStep, EchoStep, ConnectedStep, TalkStep
  DEF Next, ServerNext, AcceptorRuns, Served, ClientNext

THEOREM InvCorrect == Spec => []EchoInv
  BY InitInv, NextInv, PTL DEF Spec

(* Whoever is on the stack g_readwrite is suspended in its co_yield_ct and  *)
(* on it once, for any number of workers and any clients.                   *)
THEOREM PoolCorrect == Spec => []PoolIsIdle
<1>1. EchoInv => PoolIsIdle
  BY DEF EchoInv
<1> QED
  BY <1>1, InvCorrect, PTL

(* Descriptors, connections and busy workers belong together one to one.    *)
THEOREM ServiceCorrect == Spec => []ServedByOne
<1>1. EchoInv => ServedByOne
  BY DEF EchoInv
<1> QED
  BY <1>1, InvCorrect, PTL

(* No answer is taken for that to a later request. *)
THEOREM AnswersCorrect == Spec => []AnswerIsToLast
<1>1. EchoInv => AnswerIsToLast
  BY DEF EchoInv
<1> QED
  BY <1>1, InvCorrect, PTL

(* The server closes the connections of clients that are gone, and no other. *)
THEOREM ClosesCorrect == Spec => ClosesOnlyDead
<1> DEFINE Closes == \A c \in Conn : side[c] = "open" /\ side'[c] = "free" => owner[c] = NULL
<1>1. EchoInv /\ [Next]_vars => [Closes]_vars
  <2> SUFFICES ASSUME EchoInv, Next, NEW c \in Conn, side[c] = "open", side'[c] = "free"
               PROVE  owner[c] = NULL
    OBVIOUS
  <2>1. TypeOK
    BY DEF EchoInv, PoolIsIdle
  <2>2. ASSUME NEW w \in Worker, Wakes(w), ServerCloses(file[fd[w]])
        PROVE  c = file[fd[w]]
    BY <2>1, <2>2 DEF ServerCloses, TypeOK
  <2>3. CASE \E w \in Worker : EndOfFile(w)
    BY <2>2, <2>3 DEF EndOfFile, Release
  <2>4. CASE \E w \in Worker : ReadFails(w)
    BY <2>2, <2>4 DEF ReadFails, Release, EchoInv, NetInv
  <2>5. CASE \E f \in Fd : Accept(f)
    BY <2>1, <2>5 DEF Accept, Given, TypeOK
  <2>6. CASE \E k \in Client : Connected(k)
    BY <2>1, <2>6 DEF Connected, Handshake, TypeOK
  <2>7. CASE side' = side
    BY <2>7
  <2> QED
    BY <2>3, <2>4, <2>5, <2>6, <2>7
    DEF Next, ServerNext, AcceptorRuns, Served, ClientNext, PoolEmpty, AcceptFails,
        AcceptorWakes, Echo, NothingYet, Write, Read, ReadTimesOut, Killed,
        StartAgain, ClientCloses, net
<1> QED
  BY <1>1, InvCorrect, PTL DEF Spec, ClosesOnlyDead
=============================================================================
