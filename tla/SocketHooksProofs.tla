------------------------- MODULE SocketHooksProofs -------------------------
(***************************************************************************)
(* Proofs about the hooked socket calls, for any number of coroutines and  *)
(* descriptors and any sizes of buffers and writes.                        *)
(***************************************************************************)
EXTENDS SocketHooks, TLAPS

(* A descriptor is not closed under a call, and sendto waits only with      *)
(* nothing sent.                                                            *)
CallsInv ==
  \A co \in Co : call[co] # NULL =>
    /\ sock[call[co].fd] # NULL
    /\ call[co].op = "sendto" => call[co].wrotelen = 0

(* A socket keeps the flag that libco's fcntl has added.                    *)
SetsHold == \A fd \in Fd : sock[fd] # NULL /\ sock[fd].set => sock[fd].nonblock

HooksInv == CallsInv /\ WriteTruth /\ SetsHold /\ SetNeverBlocks

LEMMA InitInv == Init => HooksInv
<1> SUFFICES ASSUME Init PROVE HooksInv
  OBVIOUS
<1>1. TypeOK
  <2>1. \A fd \in Fd : [op |-> "none", fd |-> fd, ret |-> 0] \in Result
    BY SizeAssumption DEF Result
  <2>2. result \in [Co -> Result]
    BY <2>1 DEF Init
  <2>3. taken \in [Co -> -1 .. MaxBytes]
    BY SizeAssumption DEF Init
  <2> QED
    BY <2>2, <2>3, NullAssumption DEF Init, TypeOK
<1>2. CallsInv /\ SetsHold
  BY DEF Init, CallsInv, SetsHold
<1>3. WriteTruth
  <2>1. \A co \in Co : call[co] = NULL /\ result[co].op = "none"
    BY DEF Init
  <2> QED
    BY <2>1 DEF WriteTruth
<1>4. SetNeverBlocks
  BY <1>1 DEF Init, SetNeverBlocks
<1> QED
  BY <1>2, <1>3, <1>4 DEF HooksInv

LEMMA InvTypes == ASSUME HooksInv PROVE TypeOK
  BY DEF HooksInv, SetNeverBlocks

---------------------------------------------------------------------------
(* Steps that change what goes through sockets and not their flags.         *)
SameSockets ==
  /\ sock' \in [Fd -> Socket \cup {NULL}]
  /\ \A fd \in Fd : /\ sock'[fd] # NULL <=> sock[fd] # NULL
                    /\ sock'[fd].by = sock[fd].by /\ sock'[fd].set = sock[fd].set
                    /\ sock'[fd].nonblock = sock[fd].nonblock

LEMMA SocketMoves ==
  ASSUME TypeOK, NEW fd \in Fd, sock[fd] # NULL
  PROVE  /\ \A n \in 0 .. BufSize : sock' = [sock EXCEPT ![fd].room = n] => SameSockets
         /\ \A n \in 0 .. BufSize : sock' = [sock EXCEPT ![fd].in = n] => SameSockets
         /\ \A p \in Peer : sock' = [sock EXCEPT ![fd].peer = p] => SameSockets
<1>1. sock \in [Fd -> Socket \cup {NULL}] /\ sock[fd] \in Socket
  BY DEF TypeOK
<1>2. ASSUME NEW s \in Socket, s.by = sock[fd].by, s.set = sock[fd].set,
             s.nonblock = sock[fd].nonblock, sock' = [sock EXCEPT ![fd] = s]
      PROVE  SameSockets
  BY <1>1, <1>2, NullAssumption DEF SameSockets
<1>3. ASSUME NEW n \in 0 .. BufSize, sock' = [sock EXCEPT ![fd].room = n] PROVE SameSockets
  <2>1. sock' = [sock EXCEPT ![fd] = [sock[fd] EXCEPT !.room = n]]
    BY <1>3
  <2>2. [sock[fd] EXCEPT !.room = n] \in Socket
    BY <1>1 DEF Socket
  <2> QED
    BY <1>1, <1>2, <2>1, <2>2 DEF Socket
<1>4. ASSUME NEW n \in 0 .. BufSize, sock' = [sock EXCEPT ![fd].in = n] PROVE SameSockets
  <2>1. sock' = [sock EXCEPT ![fd] = [sock[fd] EXCEPT !.in = n]]
    BY <1>4
  <2>2. [sock[fd] EXCEPT !.in = n] \in Socket
    BY <1>1 DEF Socket
  <2> QED
    BY <1>1, <1>2, <2>1, <2>2 DEF Socket
<1>5. ASSUME NEW p \in Peer, sock' = [sock EXCEPT ![fd].peer = p] PROVE SameSockets
  <2>1. sock' = [sock EXCEPT ![fd] = [sock[fd] EXCEPT !.peer = p]]
    BY <1>5
  <2>2. [sock[fd] EXCEPT !.peer = p] \in Socket
    BY <1>1 DEF Socket
  <2> QED
    BY <1>1, <1>2, <2>1, <2>2 DEF Socket
<1> QED
  BY <1>3, <1>4, <1>5

(* Nothing moves: the sockets stay as they are. *)
LEMMA SocketsStay == ASSUME TypeOK, UNCHANGED sock PROVE SameSockets
  BY DEF TypeOK, SameSockets

---------------------------------------------------------------------------
(* Nobody but co wrote. *)
WroteOnly(co) == /\ taken' \in [Co -> -1 .. MaxBytes]
                 /\ \A other \in Co \ {co} : taken'[other] = taken[other]

(* Which descriptors have a context, and which of them have set flags, does *)
(* not depend on the bytes that move.                                       *)
Contexts == HookedCo = Co =>
              \A fd \in Fd : hook[fd] # NULL <=> sock[fd] # NULL /\ sock[fd].by = "libco"

LEMMA FlagsKept ==
  ASSUME HooksInv, SameSockets, UNCHANGED hook
  PROVE  SetsHold' /\ Contexts'
  BY DEF HooksInv, SetsHold, SetNeverBlocks, Contexts, SameSockets

(* A call of co returns, on its own or because the kernel lets go of the    *)
(* thread.                                                                  *)
LEMMA ReturnKeeps ==
  ASSUME HooksInv, SameSockets, UNCHANGED hook, NEW co \in Co, WroteOnly(co),
         NEW op \in {"read", "write", "sendto", "connect"}, NEW fd \in Fd,
         NEW ret \in -1 .. MaxBytes, Returned(co, op, fd, ret),
         blocked \in {NULL, co}, blocked' = NULL,
         op \in {"write", "sendto"} => taken'[co] = IF ret > 0 THEN ret ELSE 0
  PROVE  HooksInv'
<1> USE InvTypes DEF HooksInv
<1>1. call'[co] = NULL /\ result'[co] = [op |-> op, fd |-> fd, ret |-> ret]
  BY DEF Returned, TypeOK
<1>2. \A other \in Co \ {co} : call'[other] = call[other] /\ result'[other] = result[other]
  BY DEF Returned, TypeOK
<1>3. call' \in [Co -> Call \cup {NULL}]
  BY DEF Returned, TypeOK
<1>4. result' \in [Co -> Result]
  <2>1. [op |-> op, fd |-> fd, ret |-> ret] \in Result
    BY DEF Result
  <2> QED
    BY <2>1 DEF Returned, TypeOK
<1>5. TypeOK'
  <2>1. \A other \in Co \ {co} : call[other] # NULL => call[other].stage # "blocked"
    BY NullAssumption DEF TypeOK
  <2>2. \A other \in Co : blocked' = other <=> call'[other] # NULL /\ call'[other].stage = "blocked"
    BY <1>1, <1>2, <2>1, NullAssumption
  <2>3. hook' \in [Fd -> Hook \cup {NULL}]
    BY DEF TypeOK
  <2> QED
    BY <1>3, <1>4, <2>2, <2>3 DEF TypeOK, SameSockets, WroteOnly
<1>6. CallsInv'
  <2> SUFFICES ASSUME NEW other \in Co, call'[other] # NULL
               PROVE  /\ sock'[call'[other].fd] # NULL
                      /\ call'[other].op = "sendto" => call'[other].wrotelen = 0
    BY DEF CallsInv
  <2>1. other # co /\ call'[other] = call[other]
    BY <1>1, <1>2
  <2>2. call[other].fd \in Fd
    BY <2>1 DEF TypeOK, Call
  <2> QED
    BY <2>1, <2>2 DEF CallsInv, SameSockets
<1>7. WriteTruth'
  <2> SUFFICES ASSUME NEW other \in Co
               PROVE  /\ call'[other] # NULL /\ call'[other].op \in {"write", "sendto"}
                           => taken'[other] = call'[other].wrotelen
                      /\ call'[other] = NULL /\ result'[other].op \in {"write", "sendto"}
                           => taken'[other] = IF result'[other].ret > 0 THEN result'[other].ret ELSE 0
    BY DEF WriteTruth
  <2>1. CASE other = co
    BY <1>1, <2>1
  <2>2. CASE other # co
    BY <1>2, <2>2 DEF WriteTruth, WroteOnly
  <2> QED
    BY <2>1, <2>2
<1>8. SetsHold' /\ SetNeverBlocks'
  BY <1>5, FlagsKept DEF SetNeverBlocks, Contexts
<1> QED
  BY <1>6, <1>7, <1>8

(* A call of co waits, in poll or in the kernel, which it may not on a      *)
(* socket with set flags.                                                   *)
LEMMA WaitKeeps ==
  ASSUME HooksInv, SameSockets, UNCHANGED hook, NEW co \in Co, WroteOnly(co),
         NEW c \in Call, sock[c.fd] # NULL, Entered(co, c), blocked \in {NULL, co},
         blocked' = IF c.stage = "blocked" THEN co ELSE NULL,
         c.stage = "blocked" => ~sock[c.fd].nonblock,
         c.op \in {"write", "sendto"} => taken'[co] = c.wrotelen,
         c.op = "sendto" => c.wrotelen = 0
  PROVE  HooksInv'
<1> USE InvTypes DEF HooksInv
<1>0. c.fd \in Fd /\ c # NULL
  BY NullAssumption DEF Call
<1>1. call'[co] = c /\ result'[co].op = "none"
  BY DEF Entered, TypeOK
<1>2. \A other \in Co \ {co} : call'[other] = call[other] /\ result'[other] = result[other]
  BY DEF Entered, TypeOK
<1>3. call' \in [Co -> Call \cup {NULL}]
  BY DEF Entered, TypeOK
<1>4. result' \in [Co -> Result]
  <2>1. [op |-> "none", fd |-> c.fd, ret |-> 0] \in Result
    BY <1>0, SizeAssumption DEF Result
  <2> QED
    BY <2>1 DEF Entered, TypeOK
<1>5. TypeOK'
  <2>1. \A other \in Co \ {co} : call[other] # NULL => call[other].stage # "blocked"
    BY NullAssumption DEF TypeOK
  <2>2. \A other \in Co : blocked' = other <=> call'[other] # NULL /\ call'[other].stage = "blocked"
    BY <1>0, <1>1, <1>2, <2>1, NullAssumption
  <2>3. hook' \in [Fd -> Hook \cup {NULL}]
    BY DEF TypeOK
  <2> QED
    BY <1>3, <1>4, <2>2, <2>3 DEF TypeOK, SameSockets, WroteOnly
<1>6. CallsInv'
  <2> SUFFICES ASSUME NEW other \in Co, call'[other] # NULL
               PROVE  /\ sock'[call'[other].fd] # NULL
                      /\ call'[other].op = "sendto" => call'[other].wrotelen = 0
    BY DEF CallsInv
  <2>1. CASE other = co
    BY <1>0, <1>1, <2>1 DEF SameSockets
  <2>2. CASE other # co
    <3>1. call'[other] = call[other]
      BY <1>2, <2>2
    <3>2. call[other].fd \in Fd
      BY <3>1 DEF TypeOK, Call
    <3> QED
      BY <3>1, <3>2 DEF CallsInv, SameSockets
  <2> QED
    BY <2>1, <2>2
<1>7. WriteTruth'
  <2> SUFFICES ASSUME NEW other \in Co
               PROVE  /\ call'[other] # NULL /\ call'[other].op \in {"write", "sendto"}
                           => taken'[other] = call'[other].wrotelen
                      /\ call'[other] = NULL /\ result'[other].op \in {"write", "sendto"}
                           => taken'[other] = IF result'[other].ret > 0 THEN result'[other].ret ELSE 0
    BY DEF WriteTruth
  <2>1. CASE other = co
    BY <1>0, <1>1, <2>1
  <2>2. CASE other # co
    BY <1>2, <2>2 DEF WriteTruth, WroteOnly
  <2> QED
    BY <2>1, <2>2
<1>8. blocked' # NULL => ~sock'[call'[blocked'].fd].set
  <2>1. ASSUME c.stage = "blocked" PROVE ~sock'[c.fd].set
    BY <1>0, <2>1 DEF SetsHold, SameSockets
  <2> QED
    BY <1>1, <2>1
<1>9. SetsHold' /\ SetNeverBlocks'
  BY <1>5, <1>8, FlagsKept DEF SetNeverBlocks, Contexts
<1> QED
  BY <1>6, <1>7, <1>9

---------------------------------------------------------------------------
(* What the kernel can take in one write: never more than is asked for or   *)
(* than there is room for.                                                  *)
LEMMA KernelWrites ==
  ASSUME NEW s \in Socket, NEW k \in Int, NEW w \in WriteReturns(s, k)
  PROVE  /\ w = -1 \/ (w \in Nat \ {0} /\ w <= k)
         /\ Positive(w) \in Nat /\ (w > 0 => Positive(w) = w) /\ (w <= 0 => Positive(w) = 0 /\ w = -1)
         /\ s.room - Positive(w) \in 0 .. BufSize
<1>1. s.room \in 0 .. BufSize /\ BufSize \in Nat
  BY SizeAssumption DEF Socket
<1>2. w = -1 \/ (w \in Nat \ {0} /\ w <= k /\ w <= s.room)
  BY <1>1 DEF WriteReturns
<1> QED
  BY <1>1, <1>2 DEF Positive

LEMMA KernelReads ==
  ASSUME NEW s \in Socket, NEW r \in ReadReturns(s)
  PROVE  r \in {-1, 0, 1} /\ s.in - Positive(r) \in 0 .. BufSize
<1>1. s.in \in 0 .. BufSize /\ BufSize \in Nat
  BY SizeAssumption DEF Socket
<1>2. r \in {-1, 0, 1} /\ (r = 1 => s.in > 0)
  BY <1>1 DEF ReadReturns
<1> QED
  BY <1>1, <1>2 DEF Positive

LEMMA BlockedCall ==
  ASSUME NEW c \in Call
  PROVE  /\ [c EXCEPT !.stage = "blocked"] \in Call
         /\ [c EXCEPT !.stage = "blocked"].stage = "blocked"
         /\ [c EXCEPT !.stage = "blocked"].fd = c.fd
         /\ [c EXCEPT !.stage = "blocked"].op = c.op
         /\ [c EXCEPT !.stage = "blocked"].wrotelen = c.wrotelen
  BY DEF Call

(* The call that runs into the kernel. *)
LEMMA BlockKeeps ==
  ASSUME HooksInv, SameSockets, UNCHANGED hook, NEW co \in Co, WroteOnly(co),
         NEW c \in Call, sock[c.fd] # NULL, Block(co, c), blocked = NULL,
         ~sock[c.fd].nonblock,
         c.op \in {"write", "sendto"} => taken'[co] = c.wrotelen,
         c.op = "sendto" => c.wrotelen = 0
  PROVE  HooksInv'
<1> DEFINE b == [c EXCEPT !.stage = "blocked"]
<1>1. b \in Call /\ b.stage = "blocked" /\ b.fd = c.fd /\ b.op = c.op /\ b.wrotelen = c.wrotelen
  BY BlockedCall
<1>2. Entered(co, b) /\ blocked' = co
  BY DEF Block
<1> HIDE DEF b
<1> QED
  BY <1>1, <1>2, WaitKeeps

LEMMA PollKeeps ==
  ASSUME HooksInv, SameSockets, UNCHANGED hook, NEW co \in Co, WroteOnly(co),
         NEW c \in Call, sock[c.fd] # NULL, Wait(co, c), blocked = NULL,
         c.stage = "poll",
         c.op \in {"write", "sendto"} => taken'[co] = c.wrotelen,
         c.op = "sendto" => c.wrotelen = 0
  PROVE  HooksInv'
  BY WaitKeeps DEF Wait

LEMMA NewCall ==
  ASSUME NEW op \in {"read", "write", "sendto", "connect"}, NEW fd \in Fd,
         NEW nbyte \in 0 .. MaxBytes, NEW wrotelen \in 0 .. MaxBytes,
         NEW turn \in 0 .. ConnectPolls
  PROVE  LET c == Waiting(op, fd, nbyte, wrotelen, turn)
         IN  /\ c \in Call /\ c.op = op /\ c.fd = fd /\ c.wrotelen = wrotelen
             /\ c.stage = "poll"
  BY DEF Call, Waiting

---------------------------------------------------------------------------
(* The first attempt of write and sendto, whichever goes on after which     *)
(* result, as long as a sendto that sent something returns.                 *)
FirstTried(co, op, fd, nbyte) ==
  /\ Runs(co) /\ Open(fd) /\ UNCHANGED hook
  /\ \/ /\ ~sock[fd].nonblock
        /\ Block(co, Waiting(op, fd, nbyte, 0, 0))
        /\ taken' = [taken EXCEPT ![co] = 0]
        /\ UNCHANGED sock
     \/ \E w \in WriteReturns(sock[fd], nbyte) :
          /\ sock' = [sock EXCEPT ![fd].room = @ - Positive(w)]
          /\ taken' = [taken EXCEPT ![co] = Positive(w)]
          /\ \/ Return(co, op, fd, w)
             \/ /\ op = "sendto" => w <= 0
                /\ Wait(co, Waiting(op, fd, nbyte, Positive(w), 1))

LEMMA FirstTryKeeps ==
  ASSUME HooksInv, NEW co \in Co, NEW op \in {"write", "sendto"}, NEW fd \in Fd,
         NEW nbyte \in 1 .. MaxBytes, FirstTried(co, op, fd, nbyte)
  PROVE  HooksInv'
<1>1. /\ Runs(co) /\ Open(fd) /\ UNCHANGED hook /\ blocked = NULL
      /\ sock[fd] # NULL /\ sock[fd] \in Socket /\ TypeOK
  BY InvTypes DEF FirstTried, Runs, Open, TypeOK
<1>2. /\ nbyte \in 0 .. MaxBytes /\ 0 \in 0 .. MaxBytes
      /\ 0 \in 0 .. ConnectPolls /\ 1 \in 0 .. ConnectPolls
  BY SizeAssumption, PollsAssumption
<1>3. ASSUME NEW n \in 0 .. MaxBytes, taken' = [taken EXCEPT ![co] = n]
      PROVE  WroteOnly(co) /\ taken'[co] = n
  BY <1>1, <1>3, SizeAssumption DEF WroteOnly, TypeOK
<1>4. CASE /\ ~sock[fd].nonblock
           /\ Block(co, Waiting(op, fd, nbyte, 0, 0))
           /\ taken' = [taken EXCEPT ![co] = 0]
           /\ UNCHANGED sock
  <2> DEFINE c == Waiting(op, fd, nbyte, 0, 0)
  <2>1. c \in Call /\ c.op = op /\ c.fd = fd /\ c.wrotelen = 0
    BY <1>2, NewCall
  <2>2. WroteOnly(co) /\ taken'[co] = 0
    BY <1>2, <1>3, <1>4
  <2>3. SameSockets
    BY <1>1, <1>4, SocketsStay
  <2>4. Block(co, c)
    BY <1>4
  <2> HIDE DEF c
  <2> QED
    BY <1>1, <1>4, <2>1, <2>2, <2>3, <2>4, BlockKeeps
<1>5. ASSUME NEW w \in WriteReturns(sock[fd], nbyte),
             sock' = [sock EXCEPT ![fd].room = @ - Positive(w)],
             taken' = [taken EXCEPT ![co] = Positive(w)],
             \/ Return(co, op, fd, w)
             \/ /\ op = "sendto" => w <= 0
                /\ Wait(co, Waiting(op, fd, nbyte, Positive(w), 1))
      PROVE  HooksInv'
  <2>1. /\ w = -1 \/ (w \in Nat \ {0} /\ w <= nbyte)
        /\ Positive(w) \in Nat /\ (w > 0 => Positive(w) = w) /\ (w <= 0 => Positive(w) = 0)
        /\ sock[fd].room - Positive(w) \in 0 .. BufSize
    BY <1>1, KernelWrites
  <2>2. /\ w \in -1 .. MaxBytes /\ Positive(w) \in 0 .. MaxBytes
        /\ Positive(w) = IF w > 0 THEN w ELSE 0
    BY <2>1, SizeAssumption
  <2>3. SameSockets
    <3> DEFINE room == sock[fd].room - Positive(w)
    <3>1. sock' = [sock EXCEPT ![fd].room = room]
      BY <1>5
    <3>2. room \in 0 .. BufSize
      BY <2>1
    <3> HIDE DEF room
    <3> QED
      BY <1>1, <3>1, <3>2, SocketMoves
  <2>4. WroteOnly(co) /\ taken'[co] = Positive(w)
    BY <1>3, <1>5, <2>2
  <2>5. CASE Return(co, op, fd, w)
    <3>1. Returned(co, op, fd, w) /\ blocked' = NULL
      BY <1>1, <2>5 DEF Return
    <3> QED
      BY <1>1, <2>2, <2>3, <2>4, <3>1, ReturnKeeps
  <2>6. CASE /\ op = "sendto" => w <= 0
             /\ Wait(co, Waiting(op, fd, nbyte, Positive(w), 1))
    <3> DEFINE c == Waiting(op, fd, nbyte, Positive(w), 1)
    <3>1. c \in Call /\ c.op = op /\ c.fd = fd /\ c.wrotelen = Positive(w) /\ c.stage = "poll"
      BY <1>2, <2>2, NewCall
    <3>2. Wait(co, c) /\ (c.op = "sendto" => c.wrotelen = 0)
      BY <2>1, <2>6, <3>1
    <3> HIDE DEF c
    <3> QED
      BY <1>1, <2>3, <2>4, <3>1, <3>2, PollKeeps
  <2> QED
    BY <1>5, <2>5, <2>6
<1> QED
  BY <1>4, <1>5 DEF FirstTried

LEMMA WriteStep ==
  ASSUME HooksInv, NEW co \in Co, NEW fd \in Fd, NEW nbyte \in 1 .. MaxBytes, write(co, fd, nbyte)
  PROVE  HooksInv'
<1>1. FirstTried(co, "write", fd, nbyte)
  BY DEF write, FirstTry, FirstTried, WriteBlocks
<1> QED
  BY <1>1, FirstTryKeeps

LEMMA SendtoStep ==
  ASSUME HooksInv, NEW co \in Co, NEW fd \in Fd, NEW nbyte \in 1 .. MaxBytes, sendto(co, fd, nbyte)
  PROVE  HooksInv'
<1>1. TypeOK /\ (Open(fd) => sock[fd] \in Socket)
  BY InvTypes DEF TypeOK, Open
<1>2. FirstTried(co, "sendto", fd, nbyte)
  BY <1>1, KernelWrites DEF sendto, FirstTry, FirstTried, WriteBlocks
<1> QED
  BY <1>2, FirstTryKeeps

---------------------------------------------------------------------------
(* What is known when co comes back from a poll. *)
LEMMA BackFacts ==
  ASSUME HooksInv, NEW co \in Co, NEW op, Back(co, op)
  PROVE  /\ TypeOK /\ blocked = NULL
         /\ call[co] \in Call /\ call[co].op = op /\ call[co].fd \in Fd
         /\ sock[call[co].fd] # NULL /\ sock[call[co].fd] \in Socket
         /\ op \in {"write", "sendto"} => taken[co] = call[co].wrotelen
         /\ op = "sendto" => call[co].wrotelen = 0
<1>1. TypeOK /\ blocked = NULL /\ call[co] # NULL /\ call[co] \in Call /\ call[co].op = op
  BY InvTypes DEF Back, TypeOK
<1>2. call[co].fd \in Fd
  BY <1>1 DEF Call
<1> QED
  BY <1>1, <1>2 DEF HooksInv, CallsInv, WriteTruth, TypeOK

(* The later attempts; off is where the rest begins. *)
NextTried(co, off) ==
  LET c == call[co]
      rest == c.nbyte - c.wrotelen
  IN  /\ UNCHANGED hook
      /\ \/ ~sock[c.fd].nonblock /\ Block(co, c) /\ UNCHANGED <<sock, taken>>
         \/ \E w \in WriteReturns(sock[c.fd], rest) :
              /\ Take(co, c.fd, off, w)
              /\ LET wrote == c.wrotelen + Positive(w)
                 IN  \/ Return(co, c.op, c.fd, Written(wrote, w))
                     \/ c.op = "write" /\ Wait(co, Waiting(c.op, c.fd, c.nbyte, wrote, 1))

LEMMA NextTryKeeps ==
  ASSUME HooksInv, NEW co \in Co, NEW op \in {"write", "sendto"}, Back(co, op),
         NextTried(co, call[co].wrotelen)
  PROVE  HooksInv'
<1> DEFINE c == call[co]
<1>1. /\ TypeOK /\ blocked = NULL
      /\ c \in Call /\ c.op = op /\ c.fd \in Fd
      /\ sock[c.fd] # NULL /\ sock[c.fd] \in Socket
      /\ taken[co] = c.wrotelen
      /\ op = "sendto" => c.wrotelen = 0
  BY BackFacts
<1>2. c.nbyte \in 0 .. MaxBytes /\ c.wrotelen \in 0 .. MaxBytes
  BY <1>1 DEF Call
<1>3. UNCHANGED hook
  BY DEF NextTried
<1>4. CASE ~sock[c.fd].nonblock /\ Block(co, c) /\ UNCHANGED <<sock, taken>>
  <2>1. WroteOnly(co) /\ taken'[co] = c.wrotelen
    BY <1>1, <1>4 DEF WroteOnly, TypeOK
  <2>2. SameSockets
    BY <1>1, <1>4, SocketsStay
  <2> HIDE DEF c
  <2> QED
    BY <1>1, <1>3, <1>4, <2>1, <2>2, BlockKeeps
<1>5. ASSUME NEW w \in WriteReturns(sock[c.fd], c.nbyte - c.wrotelen),
             Take(co, c.fd, c.wrotelen, w),
             \/ Return(co, c.op, c.fd, Written(c.wrotelen + Positive(w), w))
             \/ c.op = "write" /\ Wait(co, Waiting(c.op, c.fd, c.nbyte, c.wrotelen + Positive(w), 1))
      PROVE  HooksInv'
  <2> DEFINE wrote == c.wrotelen + Positive(w)
  <2>1. /\ w = -1 \/ (w \in Nat \ {0} /\ w <= c.nbyte - c.wrotelen)
        /\ Positive(w) \in Nat /\ (w > 0 => Positive(w) = w) /\ (w <= 0 => Positive(w) = 0)
        /\ sock[c.fd].room - Positive(w) \in 0 .. BufSize
    <3>1. c.nbyte - c.wrotelen \in Int
      BY <1>2
    <3> QED
      BY <1>1, <3>1, KernelWrites
  <2>2. wrote \in 0 .. MaxBytes
    BY <1>2, <2>1, SizeAssumption
  <2>3. /\ Written(wrote, w) \in -1 .. MaxBytes
        /\ wrote = IF Written(wrote, w) > 0 THEN Written(wrote, w) ELSE 0
    BY <1>2, <2>1, <2>2, SizeAssumption DEF Written
  <2>4. SameSockets /\ WroteOnly(co) /\ taken'[co] = wrote
    <3>1. CASE w <= 0
      <4>1. UNCHANGED <<sock, taken>> /\ wrote = c.wrotelen
        BY <1>2, <1>5, <2>1, <3>1 DEF Take
      <4>2. SameSockets
        BY <1>1, <4>1, SocketsStay
      <4> QED
        BY <1>1, <4>1, <4>2 DEF WroteOnly, TypeOK
    <3>2. CASE ~(w <= 0)
      <4> DEFINE room == sock[c.fd].room - w
      <4>1. sock' = [sock EXCEPT ![c.fd].room = room]
        BY <1>5, <3>2 DEF Take
      <4>2. w > 0 /\ wrote = c.wrotelen + w /\ room \in 0 .. BufSize
        BY <2>1, <3>2
      <4>3. SameSockets
        <5> HIDE DEF c, room
        <5> QED
          BY <1>1, <4>1, <4>2, SocketMoves
      <4>4. taken' = [taken EXCEPT ![co] = IF c.wrotelen = taken[co] THEN taken[co] + w ELSE -1]
        BY <1>5, <3>2 DEF Take
      <4>5. taken' = [taken EXCEPT ![co] = wrote]
        BY <1>1, <4>2, <4>4
      <4> HIDE DEF wrote, c
      <4>6. WroteOnly(co) /\ taken'[co] = wrote
        BY <1>1, <2>2, <4>5, SizeAssumption DEF WroteOnly, TypeOK
      <4> QED
        BY <4>3, <4>6
    <3> QED
      BY <3>1, <3>2
  <2>5. CASE Return(co, c.op, c.fd, Written(wrote, w))
    <3> DEFINE ret == Written(wrote, w)
    <3>1. Returned(co, c.op, c.fd, ret) /\ blocked' = NULL
      BY <1>1, <2>5 DEF Return
    <3>2. ret \in -1 .. MaxBytes /\ taken'[co] = IF ret > 0 THEN ret ELSE 0
      BY <2>3, <2>4
    <3> HIDE DEF c, wrote, ret
    <3> QED
      BY <1>1, <1>3, <2>4, <3>1, <3>2, ReturnKeeps
  <2>6. CASE c.op = "write" /\ Wait(co, Waiting(c.op, c.fd, c.nbyte, wrote, 1))
    <3> DEFINE d == Waiting(c.op, c.fd, c.nbyte, wrote, 1)
    <3>1. d \in Call /\ d.op = c.op /\ d.fd = c.fd /\ d.wrotelen = wrote /\ d.stage = "poll"
      <4>1. 1 \in 0 .. ConnectPolls
        BY PollsAssumption
      <4> QED
        BY <1>1, <1>2, <2>2, <4>1, NewCall
    <3>2. Wait(co, d) /\ d.op # "sendto"
      BY <2>6, <3>1
    <3> HIDE DEF c, d, wrote
    <3> QED
      BY <1>1, <1>3, <2>4, <3>1, <3>2, PollKeeps
  <2> QED
    BY <1>5, <2>5, <2>6
<1> QED
  BY <1>4, <1>5 DEF NextTried

LEMMA WriteAgainStep == ASSUME HooksInv, NEW co \in Co, write_again(co) PROVE HooksInv'
<1>1. Back(co, "write")
  BY DEF write_again
<1>2. call[co].op = "write"
  BY <1>1 DEF Back
<1>3. NextTried(co, call[co].wrotelen)
  BY <1>2 DEF write_again, NextTry, NextTried, WriteBlocks
<1> QED
  BY <1>1, <1>3, NextTryKeeps

LEMMA SendtoAgainStep == ASSUME HooksInv, NEW co \in Co, sendto_again(co) PROVE HooksInv'
<1>1. Back(co, "sendto")
  BY DEF sendto_again
<1>2. call[co].wrotelen = 0
  BY <1>1, BackFacts
<1>3. NextTried(co, call[co].wrotelen)
  BY <1>2 DEF sendto_again, NextTry, NextTried, WriteBlocks
<1> QED
  BY <1>1, <1>3, NextTryKeeps

---------------------------------------------------------------------------
(* The system's read, called with no poll or after one. *)
LEMMA SysReadKeeps ==
  ASSUME HooksInv, NEW co \in Co, NEW fd \in Fd, sock[fd] # NULL, blocked \in {NULL, co},
         NEW r \in ReadReturns(sock[fd]), sock' = [sock EXCEPT ![fd].in = @ - Positive(r)],
         Returned(co, "read", fd, r), blocked' = NULL, UNCHANGED <<hook, taken>>
  PROVE  HooksInv'
<1>1. TypeOK /\ sock[fd] \in Socket
  BY InvTypes DEF TypeOK
<1>2. r \in -1 .. MaxBytes /\ sock[fd].in - Positive(r) \in 0 .. BufSize
  BY <1>1, KernelReads, SizeAssumption
<1>3. SameSockets
  <2> DEFINE in == sock[fd].in - Positive(r)
  <2>1. sock' = [sock EXCEPT ![fd].in = in] /\ in \in 0 .. BufSize
    BY <1>2
  <2> HIDE DEF in
  <2> QED
    BY <1>1, <2>1, SocketMoves
<1>4. WroteOnly(co)
  BY <1>1 DEF WroteOnly, TypeOK
<1> QED
  BY <1>2, <1>3, <1>4, ReturnKeeps

LEMMA ReadCall ==
  LET c(fd) == Waiting("read", fd, 1, 0, 0)
  IN  \A fd \in Fd : c(fd) \in Call /\ c(fd).op = "read" /\ c(fd).fd = fd /\ c(fd).stage = "poll"
<1>1. 1 \in 0 .. MaxBytes /\ 0 \in 0 .. MaxBytes /\ 0 \in 0 .. ConnectPolls
  BY SizeAssumption, PollsAssumption
<1> QED
  BY <1>1, NewCall

LEMMA ReadStep ==
  ASSUME HooksInv, NEW co \in Co, NEW fd \in Fd, read(co, fd)
  PROVE  HooksInv'
<1> DEFINE c == Waiting("read", fd, 1, 0, 0)
<1>1. TypeOK /\ sock[fd] # NULL /\ blocked = NULL
  BY InvTypes DEF read, Runs, Open
<1>2. c \in Call /\ c.op = "read" /\ c.fd = fd /\ c.stage = "poll"
  BY ReadCall
<1>3. ASSUME UNCHANGED <<sock, hook, taken>> PROVE SameSockets /\ WroteOnly(co)
  BY <1>1, <1>3, SocketsStay DEF WroteOnly, TypeOK
<1>4. CASE SysRead(co, fd)
  BY <1>1, <1>4, SysReadKeeps DEF SysRead, Return
<1>5. CASE Wait(co, c) /\ UNCHANGED <<sock, hook, taken>>
  <2> HIDE DEF c
  <2> QED
    BY <1>1, <1>2, <1>3, <1>5, PollKeeps
<1>6. CASE Block(co, c) /\ ReadBlocks(sock[fd]) /\ UNCHANGED <<sock, hook, taken>>
  <2> HIDE DEF c
  <2> QED
    BY <1>1, <1>2, <1>3, <1>6, BlockKeeps DEF ReadBlocks
<1> QED
  BY <1>4, <1>5, <1>6 DEF read

LEMMA ReadAgainStep == ASSUME HooksInv, NEW co \in Co, read_again(co) PROVE HooksInv'
<1>1. Back(co, "read")
  BY DEF read_again
<1>2. /\ TypeOK /\ blocked = NULL /\ call[co] \in Call /\ call[co].op = "read"
      /\ call[co].fd \in Fd /\ sock[call[co].fd] # NULL
  BY <1>1, BackFacts
<1>3. CASE SysRead(co, call[co].fd)
  BY <1>2, <1>3, SysReadKeeps DEF SysRead, Return
<1>4. CASE Block(co, call[co]) /\ ReadBlocks(sock[call[co].fd]) /\ UNCHANGED <<sock, hook, taken>>
  <2>1. SameSockets /\ WroteOnly(co)
    BY <1>2, <1>4, SocketsStay DEF WroteOnly, TypeOK
  <2> QED
    BY <1>2, <1>4, <2>1, BlockKeeps DEF ReadBlocks
<1> QED
  BY <1>3, <1>4 DEF read_again

LEMMA ConnectStep ==
  ASSUME HooksInv, NEW co \in Co, NEW fd \in Fd, connect(co, fd)
  PROVE  HooksInv'
<1>1. /\ TypeOK /\ sock[fd] # NULL /\ sock[fd].peer = "none" /\ blocked = NULL
      /\ UNCHANGED <<hook, taken>>
      /\ \E p \in {"none", "up", "connecting"} : sock' = [sock EXCEPT ![fd].peer = p]
  BY InvTypes DEF connect, Runs, Open
<1>2. SameSockets
  BY <1>1, SocketMoves DEF Peer
<1>3. WroteOnly(co)
  BY <1>1 DEF WroteOnly, TypeOK
<1>4. 0 \in 0 .. MaxBytes /\ 0 \in 0 .. ConnectPolls /\ 1 \in 0 .. ConnectPolls
      /\ -1 \in -1 .. MaxBytes /\ 0 \in -1 .. MaxBytes
  BY SizeAssumption, PollsAssumption
<1>5. CASE \E ret \in {0, -1} : Return(co, "connect", fd, ret)
  BY <1>1, <1>2, <1>3, <1>4, <1>5, ReturnKeeps DEF Return
<1>6. CASE Block(co, Waiting("connect", fd, 0, 0, 0)) /\ ~sock[fd].nonblock
  <2> DEFINE c == Waiting("connect", fd, 0, 0, 0)
  <2>1. c \in Call /\ c.op = "connect" /\ c.fd = fd
    BY <1>4, NewCall
  <2>2. Block(co, c)
    BY <1>6
  <2> HIDE DEF c
  <2> QED
    BY <1>1, <1>2, <1>3, <1>6, <2>1, <2>2, BlockKeeps
<1>7. CASE Wait(co, Waiting("connect", fd, 0, 0, 1))
  <2> DEFINE c == Waiting("connect", fd, 0, 0, 1)
  <2>1. c \in Call /\ c.op = "connect" /\ c.fd = fd /\ c.stage = "poll"
    BY <1>4, NewCall
  <2>2. Wait(co, c)
    BY <1>7
  <2> HIDE DEF c
  <2> QED
    BY <1>1, <1>2, <1>3, <2>1, <2>2, PollKeeps
<1> QED
  BY <1>5, <1>6, <1>7 DEF connect

LEMMA ConnectAgainStep == ASSUME HooksInv, NEW co \in Co, connect_again(co) PROVE HooksInv'
<1> DEFINE fd == call[co].fd
           turn == call[co].turn
<1>1. Back(co, "connect") /\ UNCHANGED <<sock, hook, taken>>
  BY DEF connect_again
<1>2. /\ TypeOK /\ blocked = NULL /\ call[co] \in Call /\ call[co].op = "connect"
      /\ fd \in Fd /\ sock[fd] # NULL
  BY <1>1, BackFacts
<1>3. SameSockets /\ WroteOnly(co)
  BY <1>1, <1>2, SocketsStay DEF WroteOnly, TypeOK
<1>4. CASE turn < ConnectPolls /\ Wait(co, Waiting("connect", fd, 0, 0, turn + 1))
  <2> DEFINE c == Waiting("connect", fd, 0, 0, turn + 1)
  <2>1. turn + 1 \in 0 .. ConnectPolls /\ 0 \in 0 .. MaxBytes
    BY <1>2, <1>4, SizeAssumption, PollsAssumption DEF Call
  <2>2. c \in Call /\ c.op = "connect" /\ c.fd = fd /\ c.stage = "poll"
    BY <1>2, <2>1, NewCall
  <2>3. Wait(co, c)
    BY <1>4
  <2> HIDE DEF c
  <2> QED
    BY <1>1, <1>2, <1>3, <2>2, <2>3, PollKeeps
<1>5. CASE \E ret \in {-1, 0} : Return(co, "connect", fd, ret)
  <2>1. \A ret \in {-1, 0} : ret \in -1 .. MaxBytes
    BY SizeAssumption
  <2> QED
    BY <1>1, <1>2, <1>3, <1>5, <2>1, ReturnKeeps DEF Return
<1> QED
  BY <1>4, <1>5 DEF connect_again

---------------------------------------------------------------------------
(* poll reports; nothing but the call's own stage and result changes. *)
LEMMA PollStep == ASSUME HooksInv, NEW co \in Co, PollReturns(co) PROVE HooksInv'
<1>1. PICK ready \in BOOLEAN : call' = [call EXCEPT ![co].stage = "awake", ![co].out = ready]
  BY DEF PollReturns
<1>2. /\ blocked = NULL /\ call[co] \in Call
      /\ UNCHANGED <<sock, hook, taken, result, blocked>> /\ TypeOK
  BY InvTypes DEF PollReturns, TypeOK
<1> DEFINE c == [[call[co] EXCEPT !.stage = "awake"] EXCEPT !.out = ready]
<1>3. call' = [call EXCEPT ![co] = c]
  BY <1>1, <1>2 DEF TypeOK
<1>4. /\ c \in Call /\ c.stage = "awake" /\ c.op = call[co].op /\ c.fd = call[co].fd
      /\ c.wrotelen = call[co].wrotelen
  BY <1>2 DEF Call
<1>5. c # NULL /\ call[co] # NULL
  BY <1>2, <1>4, NullAssumption
<1> HIDE DEF c
<1>6. call'[co] = c /\ \A other \in Co \ {co} : call'[other] = call[other]
  BY <1>2, <1>3 DEF TypeOK
<1>7. TypeOK'
  <2>1. call' \in [Co -> Call \cup {NULL}]
    BY <1>2, <1>3, <1>4 DEF TypeOK
  <2>2. \A other \in Co : blocked' = other <=> call'[other] # NULL /\ call'[other].stage = "blocked"
    BY <1>2, <1>4, <1>6, NullAssumption DEF TypeOK
  <2> QED
    BY <1>2, <2>1, <2>2 DEF TypeOK
<1>8. CallsInv' /\ WriteTruth'
  <2>1. \A other \in Co : /\ call'[other] # NULL <=> call[other] # NULL
                          /\ call'[other].op = call[other].op
                          /\ call'[other].fd = call[other].fd
                          /\ call'[other].wrotelen = call[other].wrotelen
    BY <1>4, <1>5, <1>6
  <2>2. CallsInv'
    BY <1>2, <2>1 DEF HooksInv, CallsInv
  <2>3. ASSUME NEW other \in Co
        PROVE  /\ call'[other] # NULL /\ call'[other].op \in {"write", "sendto"}
                    => taken'[other] = call'[other].wrotelen
               /\ call'[other] = NULL /\ result'[other].op \in {"write", "sendto"}
                    => taken'[other] = IF result'[other].ret > 0 THEN result'[other].ret ELSE 0
    <3>1. taken'[other] = taken[other] /\ result'[other] = result[other]
      BY <1>2
    <3> QED
      BY <2>1, <3>1 DEF HooksInv, WriteTruth
  <2> QED
    BY <2>2, <2>3 DEF WriteTruth
<1>9. SetsHold' /\ SetNeverBlocks'
  BY <1>2, <1>7 DEF HooksInv, SetsHold, SetNeverBlocks
<1> QED
  BY <1>8, <1>9 DEF HooksInv

(* The kernel lets go of the thread because the peer has gone: of what a    *)
(* write had left it took a part, or nothing.                               *)
LEMMA CutShortStep ==
  ASSUME HooksInv, NEW co \in Co, CutShort(co), blocked = co, blocked' = NULL, UNCHANGED hook
  PROVE  HooksInv'
<1> DEFINE c == call[co]
<1>1. /\ TypeOK /\ UNCHANGED sock /\ SameSockets
      /\ c \in Call /\ c # NULL /\ c.fd \in Fd /\ sock[c.fd] # NULL
      /\ c.op \in {"write", "sendto"} /\ taken[co] = c.wrotelen
      /\ c.nbyte \in 0 .. MaxBytes /\ c.wrotelen \in 0 .. MaxBytes
  <2>1. TypeOK /\ UNCHANGED sock /\ SameSockets
    BY InvTypes, SocketsStay DEF CutShort
  <2>2. c \in Call /\ c # NULL /\ c.op \in {"write", "sendto"}
    BY <2>1 DEF TypeOK, CutShort
  <2> QED
    BY <2>1, <2>2 DEF HooksInv, CallsInv, WriteTruth, Call
<1>2. PICK w \in {-1} \cup 1 .. c.nbyte - c.wrotelen - 1 :
        /\ taken' = [taken EXCEPT ![co] = @ + Positive(w)]
        /\ \/ Returned(co, c.op, c.fd, Written(c.wrotelen + Positive(w), w))
           \/ /\ c.op # "sendto"
              /\ Entered(co, Waiting(c.op, c.fd, c.nbyte, c.wrotelen + Positive(w), 1))
  BY DEF CutShort
<1> DEFINE wrote == c.wrotelen + Positive(w)
           ret == Written(wrote, w)
           d == Waiting(c.op, c.fd, c.nbyte, wrote, 1)
<1>3. wrote \in 0 .. MaxBytes
  BY <1>1, <1>2, SizeAssumption DEF Positive
<1>4. ret \in -1 .. MaxBytes /\ wrote = IF ret > 0 THEN ret ELSE 0
  BY <1>1, <1>2, <1>3, SizeAssumption DEF Positive, Written
<1>5. WroteOnly(co) /\ taken'[co] = wrote
  <2>1. taken' = [taken EXCEPT ![co] = wrote]
    BY <1>1, <1>2
  <2> HIDE DEF wrote
  <2> QED
    BY <1>1, <1>3, <2>1, SizeAssumption DEF WroteOnly, TypeOK
<1>6. CASE Returned(co, c.op, c.fd, ret)
  <2> HIDE DEF c, wrote, ret
  <2> QED
    BY <1>1, <1>4, <1>5, <1>6, ReturnKeeps
<1>7. CASE c.op # "sendto" /\ Entered(co, d)
  <2>1. d \in Call /\ d.op = c.op /\ d.fd = c.fd /\ d.wrotelen = wrote /\ d.stage = "poll"
    <3>1. 1 \in 0 .. ConnectPolls
      BY PollsAssumption
    <3> QED
      BY <1>1, <1>3, <3>1, NewCall
  <2> HIDE DEF c, wrote, d
  <2> QED
    BY <1>1, <1>5, <1>7, <2>1, WaitKeeps
<1> QED
  BY <1>2, <1>6, <1>7

(* The kernel lets go of the thread. *)
LEMMA UnblockStep == ASSUME HooksInv, NEW co \in Co, Unblock(co) PROVE HooksInv'
<1> DEFINE c == call[co]
           s == sock[call[co].fd]
<1>1. blocked = co /\ blocked' = NULL /\ UNCHANGED hook /\ TypeOK
  BY InvTypes DEF Unblock
<1>2. c \in Call /\ c # NULL /\ c.fd \in Fd /\ s # NULL /\ s \in Socket
  <2>1. c # NULL /\ c \in Call
    BY <1>1 DEF TypeOK
  <2>2. c.fd \in Fd
    BY <2>1 DEF Call
  <2> QED
    BY <1>1, <2>1, <2>2 DEF HooksInv, CallsInv, TypeOK
<1>3. /\ c.nbyte \in 0 .. MaxBytes /\ c.wrotelen \in 0 .. MaxBytes /\ 0 \in 0 .. BufSize
      /\ -1 \in -1 .. MaxBytes /\ 0 \in -1 .. MaxBytes
  BY <1>2, SizeAssumption DEF Call
<1>4. UNCHANGED taken => WroteOnly(co)
  BY <1>1 DEF WroteOnly, TypeOK
<1>5. UNCHANGED sock => SameSockets
  BY <1>1, SocketsStay
<1>6. ASSUME NEW r \in ReadReturns(s), sock' = [sock EXCEPT ![c.fd].in = @ - Positive(r)],
             Returned(co, "read", c.fd, r), UNCHANGED taken
      PROVE  HooksInv'
  BY <1>1, <1>2, <1>6, SysReadKeeps
<1>7. CASE /\ c.op \in {"write", "sendto"}
           /\ sock' = [sock EXCEPT ![c.fd].room = 0]
           /\ taken' = [taken EXCEPT ![co] = c.nbyte]
           /\ Returned(co, c.op, c.fd, c.nbyte)
  <2>1. SameSockets
    BY <1>1, <1>2, <1>3, <1>7, SocketMoves
  <2>2. WroteOnly(co) /\ taken'[co] = c.nbyte
    BY <1>1, <1>3, <1>7 DEF WroteOnly, TypeOK
  <2>3. c.nbyte \in -1 .. MaxBytes /\ c.nbyte = IF c.nbyte > 0 THEN c.nbyte ELSE 0
    BY <1>3, SizeAssumption
  <2> HIDE DEF c
  <2> QED
    BY <1>1, <1>2, <1>7, <2>1, <2>2, <2>3, ReturnKeeps
<1>8. CASE CutShort(co)
  BY <1>1, <1>8, CutShortStep
<1>9. ASSUME NEW ret \in {-1, 0}, Returned(co, "connect", c.fd, ret), UNCHANGED <<sock, taken>>
      PROVE  HooksInv'
  BY <1>1, <1>2, <1>3, <1>4, <1>5, <1>9, ReturnKeeps
<1> QED
  BY <1>6, <1>7, <1>8, <1>9 DEF Unblock

---------------------------------------------------------------------------
(* Steps that leave the calls alone. *)
LEMMA CallsIdle ==
  ASSUME HooksInv, UNCHANGED <<call, taken, result, blocked>>,
         sock' \in [Fd -> Socket \cup {NULL}], hook' \in [Fd -> Hook \cup {NULL}],
         \A co \in Co : call[co] # NULL => sock'[call[co].fd] # NULL,
         SetsHold', Contexts',
         blocked # NULL => sock'[call[blocked].fd].set = sock[call[blocked].fd].set
  PROVE  HooksInv'
<1>1. TypeOK'
  BY InvTypes DEF TypeOK
<1>2. CallsInv'
  BY DEF HooksInv, CallsInv
<1>3. WriteTruth'
  BY DEF HooksInv, WriteTruth
<1>4. SetNeverBlocks'
  BY <1>1 DEF HooksInv, SetNeverBlocks, Contexts
<1> QED
  BY <1>2, <1>3, <1>4 DEF HooksInv

LEMMA PeerStep == ASSUME HooksInv, NEW fd \in Fd, PeerActs(fd) PROVE HooksInv'
<1>1. /\ TypeOK /\ sock[fd] # NULL /\ sock[fd] \in Socket
      /\ UNCHANGED <<hook, call, taken, result, blocked>>
  BY InvTypes DEF PeerActs, Open, TypeOK
<1>2. SameSockets
  <2> DEFINE room == sock[fd].room + 1
             in == sock[fd].in + 1
  <2>1. CASE \E p \in Peer : sock' = [sock EXCEPT ![fd].peer = p]
    BY <1>1, <2>1, SocketMoves
  <2>2. CASE sock[fd].room < BufSize /\ sock' = [sock EXCEPT ![fd].room = room]
    <3>1. room \in 0 .. BufSize
      BY <1>1, <2>2, SizeAssumption DEF Socket
    <3> HIDE DEF room
    <3> QED
      BY <1>1, <2>2, <3>1, SocketMoves
  <2>3. CASE sock[fd].in < BufSize /\ sock' = [sock EXCEPT ![fd].in = in]
    <3>1. in \in 0 .. BufSize
      BY <1>1, <2>3, SizeAssumption DEF Socket
    <3> HIDE DEF in
    <3> QED
      BY <1>1, <2>3, <3>1, SocketMoves
  <2> QED
    BY <2>1, <2>2, <2>3 DEF PeerActs, Peer
<1>3. \A co \in Co : call[co] # NULL => sock'[call[co].fd] # NULL
  <2>1. \A co \in Co : call[co] # NULL => call[co].fd \in Fd
    BY <1>1 DEF TypeOK, Call
  <2> QED
    BY <1>2, <2>1 DEF HooksInv, CallsInv, SameSockets
<1>4. hook' \in [Fd -> Hook \cup {NULL}] /\ TypeOK'
  BY <1>1, <1>2 DEF TypeOK, SameSockets
<1>5. SetsHold' /\ Contexts'
  BY <1>1, <1>2, FlagsKept
<1>6. blocked # NULL => sock'[call[blocked].fd].set = sock[call[blocked].fd].set
  <2>1. blocked # NULL => call[blocked].fd \in Fd
    BY <1>1 DEF TypeOK, Call
  <2> QED
    BY <1>2, <2>1 DEF SameSockets
<1> QED
  BY <1>1, <1>3, <1>4, <1>5, <1>6, <1>2, CallsIdle DEF SameSockets

(* A descriptor is opened, closed or set: of one descriptor the socket and  *)
(* the context change together.                                             *)
LEMMA DescriptorKeeps ==
  ASSUME HooksInv, blocked = NULL, UNCHANGED <<call, taken, result, blocked>>,
         NEW fd \in Fd, NEW s \in Socket \cup {NULL}, NEW h \in Hook \cup {NULL},
         sock' = [sock EXCEPT ![fd] = s], hook' = [hook EXCEPT ![fd] = h],
         s = NULL => Unused(fd),
         s # NULL /\ s.set => s.nonblock,
         HookedCo = Co => (h # NULL <=> s # NULL /\ s.by = "libco")
  PROVE  HooksInv'
<1>1. sock' \in [Fd -> Socket \cup {NULL}] /\ hook' \in [Fd -> Hook \cup {NULL}]
  BY InvTypes DEF TypeOK
<1>2. /\ sock'[fd] = s /\ hook'[fd] = h
      /\ \A other \in Fd \ {fd} : sock'[other] = sock[other] /\ hook'[other] = hook[other]
  BY InvTypes DEF TypeOK
<1>3. \A co \in Co : call[co] # NULL => sock'[call[co].fd] # NULL
  <2>1. \A co \in Co : call[co] # NULL => call[co].fd \in Fd
    BY InvTypes DEF TypeOK, Call
  <2> QED
    BY <1>2, <2>1 DEF HooksInv, CallsInv, Unused
<1>4. SetsHold' /\ Contexts'
  BY <1>2 DEF HooksInv, SetsHold, SetNeverBlocks, Contexts
<1> QED
  BY <1>1, <1>3, <1>4, NullAssumption, CallsIdle

LEMMA NewSocketFacts ==
  ASSUME NEW by \in {"libco", "other"}, NEW set \in BOOLEAN, NEW nonblock \in BOOLEAN,
         NEW peer \in Peer
  PROVE  LET s == NewSocket(by, set, nonblock, peer)
         IN  s \in Socket /\ s.by = by /\ s.set = set /\ s.nonblock = nonblock
<1>1. 0 \in 0 .. BufSize /\ BufSize \in 0 .. BufSize
  BY SizeAssumption
<1> QED
  BY <1>1 DEF NewSocket, Socket

LEMMA SocketStep ==
  ASSUME HooksInv, NEW co \in Co, NEW fd \in Fd, NEW type \in BOOLEAN, socket(co, fd, type)
  PROVE  HooksInv'
<1>1. TypeOK /\ blocked = NULL /\ UNCHANGED <<call, taken, result, blocked>> /\ sock[fd] = NULL
  BY InvTypes DEF socket, Runs, Open
<1>2. "none" \in Peer
  BY DEF Peer
<1>3. CASE Hooks(co)
  <2> DEFINE s == NewSocket("libco", TRUE, TRUE, "none")
             h == [user_flag |-> type]
  <2>1. sock' = [sock EXCEPT ![fd] = s] /\ hook' = [hook EXCEPT ![fd] = h]
    BY <1>3 DEF socket
  <2>2. s \in Socket /\ s.by = "libco" /\ s.set /\ s.nonblock
    BY <1>2, NewSocketFacts
  <2>3. h \in Hook /\ h # NULL
    BY NullAssumption DEF Hook
  <2> HIDE DEF s, h
  <2> QED
    BY <1>1, <2>1, <2>2, <2>3, NullAssumption, DescriptorKeeps
<1>4. CASE ~Hooks(co)
  <2> DEFINE s == NewSocket("other", FALSE, type, "none")
  <2>1. sock' = [sock EXCEPT ![fd] = s] /\ hook' = [hook EXCEPT ![fd] = hook[fd]]
    BY <1>1, <1>4 DEF socket, TypeOK
  <2>2. s \in Socket /\ ~s.set /\ hook[fd] \in Hook \cup {NULL} /\ HookedCo # Co
    BY <1>1, <1>2, <1>4, NewSocketFacts DEF Hooks, TypeOK
  <2> HIDE DEF s
  <2> QED
    BY <1>1, <2>1, <2>2, NullAssumption, DescriptorKeeps
<1> QED
  BY <1>3, <1>4

LEMMA AcceptStep ==
  ASSUME HooksInv, NEW co \in Co, NEW fd \in Fd, co_accept(co, fd)
  PROVE  HooksInv'
<1> DEFINE s == NewSocket("libco", FALSE, FALSE, "up")
           h == [user_flag |-> FALSE]
<1>1. /\ blocked = NULL /\ UNCHANGED <<call, taken, result, blocked>>
      /\ sock' = [sock EXCEPT ![fd] = s] /\ hook' = [hook EXCEPT ![fd] = h]
  BY DEF co_accept, Runs
<1>2. s \in Socket /\ s.by = "libco" /\ ~s.set
  BY NewSocketFacts DEF Peer
<1>3. h \in Hook
  BY DEF Hook
<1> HIDE DEF s, h
<1>4. /\ s \in Socket \cup {NULL} /\ s # NULL
      /\ h \in Hook \cup {NULL} /\ h # NULL
  BY <1>2, <1>3, NullAssumption
<1> QED
  BY <1>1, <1>2, <1>4, DescriptorKeeps

LEMMA OtherFdStep ==
  ASSUME HooksInv, NEW co \in Co, NEW fd \in Fd, OtherFd(co, fd)
  PROVE  HooksInv'
<1> DEFINE s == NewSocket("other", FALSE, FALSE, "up")
<1>1. /\ blocked = NULL /\ UNCHANGED <<call, taken, result, blocked>> /\ sock[fd] = NULL
      /\ sock' = [sock EXCEPT ![fd] = s] /\ UNCHANGED hook /\ TypeOK
  BY InvTypes DEF OtherFd, Runs, Open
<1>2. s \in Socket /\ s.by = "other" /\ ~s.set
  BY NewSocketFacts DEF Peer
<1>3. hook' = [hook EXCEPT ![fd] = hook[fd]] /\ hook[fd] \in Hook \cup {NULL}
  BY <1>1 DEF TypeOK
<1>4. HookedCo = Co => hook[fd] = NULL
  BY <1>1 DEF HooksInv, SetNeverBlocks
<1> HIDE DEF s
<1> QED
  BY <1>1, <1>2, <1>3, <1>4, NullAssumption, DescriptorKeeps

LEMMA CloseStep ==
  ASSUME HooksInv, NEW co \in Co, NEW fd \in Fd, close(co, fd)
  PROVE  HooksInv'
<1> DEFINE h == IF Hooks(co) THEN NULL ELSE hook[fd]
<1>1. /\ blocked = NULL /\ UNCHANGED <<call, taken, result, blocked>> /\ Unused(fd) /\ TypeOK
      /\ sock' = [sock EXCEPT ![fd] = NULL]
  BY InvTypes DEF close, Runs
<1>2. hook' = [hook EXCEPT ![fd] = h] /\ h \in Hook \cup {NULL}
  BY <1>1 DEF close, TypeOK
<1>3. HookedCo = Co => h = NULL
  BY DEF Hooks
<1> HIDE DEF h
<1> QED
  BY <1>1, <1>2, <1>3, DescriptorKeeps

LEMMA SetsStep ==
  ASSUME HooksInv, NEW co \in Co, NEW fd \in Fd, Sets(co, fd)
  PROVE  HooksInv'
<1>1. PICK param \in BOOLEAN : fcntl_setfl(co, fd, param)
  BY DEF Sets
<1>2. /\ blocked = NULL /\ UNCHANGED <<call, taken, result, blocked>> /\ TypeOK
      /\ sock[fd] # NULL /\ sock[fd] \in Socket /\ hook[fd] \in Hook \cup {NULL}
  BY <1>1, InvTypes DEF fcntl_setfl, Runs, Open, TypeOK
<1> DEFINE set == Hooks(co) /\ hook[fd] # NULL
           nonblock == param \/ set
           s == [[sock[fd] EXCEPT !.nonblock = nonblock] EXCEPT !.set = set]
           h == IF hook[fd] # NULL THEN [hook[fd] EXCEPT !.user_flag = param] ELSE hook[fd]
<1>3. sock' = [sock EXCEPT ![fd] = s]
  BY <1>1, <1>2 DEF fcntl_setfl, TypeOK
<1>4. hook' = [hook EXCEPT ![fd] = h]
  BY <1>1, <1>2 DEF fcntl_setfl, TypeOK
<1>5. s \in Socket /\ s.by = sock[fd].by /\ (s.set => s.nonblock)
  BY <1>2 DEF Socket
<1>6. h \in Hook \cup {NULL} /\ (h # NULL <=> hook[fd] # NULL)
  BY <1>2, NullAssumption DEF Hook
<1>7. HookedCo = Co => (h # NULL <=> s # NULL /\ s.by = "libco")
  BY <1>2, <1>5, <1>6, NullAssumption DEF HooksInv, SetNeverBlocks
<1>8. s # NULL
  BY <1>5, NullAssumption
<1> HIDE DEF s, h
<1> QED
  BY <1>2, <1>3, <1>4, <1>5, <1>6, <1>7, <1>8, DescriptorKeeps

---------------------------------------------------------------------------
LEMMA NextInv == ASSUME HooksInv, [Next]_vars PROVE HooksInv'
<1>1. ASSUME NEW co \in Co, NEW fd \in Fd, Opens(co, fd) PROVE HooksInv'
  BY <1>1, SocketStep, AcceptStep, OtherFdStep DEF Opens
<1>2. ASSUME NEW co \in Co, NEW fd \in Fd, Calls(co, fd) PROVE HooksInv'
  BY <1>2, ReadStep, ConnectStep, WriteStep, SendtoStep DEF Calls
<1>3. ASSUME NEW co \in Co, Goes(co) PROVE HooksInv'
  BY <1>3, WriteAgainStep, SendtoAgainStep, ReadAgainStep, ConnectAgainStep DEF Goes
<1>4. CASE UNCHANGED vars
  BY <1>4 DEF vars, HooksInv, TypeOK, CallsInv, WriteTruth, SetsHold, SetNeverBlocks
<1> QED
  BY <1>1, <1>2, <1>3, <1>4, CloseStep, SetsStep, PollStep, UnblockStep, PeerStep DEF Next

LEMMA Invariance == Spec => []HooksInv
<1>1. HooksInv /\ [Next]_vars => HooksInv'
  BY NextInv
<1> QED
  BY InitInv, <1>1, PTL DEF Spec

(* Whatever the coroutines, hooked or not, do with their descriptors, the   *)
(* kernel's flags, the contexts and the calls have their types, and the one *)
(* call that is in the kernel is that of the coroutine that blocks.         *)
THEOREM TypeCorrect == Spec => []TypeOK
<1>1. HooksInv => TypeOK
  BY InvTypes
<1> QED
  BY <1>1, Invariance, PTL

(* What write, send and sendto return is what the kernel took, in order,    *)
(* for every length, buffer and number of waits, of hooked coroutines and   *)
(* of others.                                                               *)
THEOREM WriteCorrect == Spec => []WriteTruth
<1>1. HooksInv => WriteTruth
  BY DEF HooksInv
<1> QED
  BY <1>1, Invariance, PTL

(* A call never blocks the thread on a descriptor whose flags were last set *)
(* through libco's fcntl; and where all coroutines hook, the contexts that  *)
(* fcntl goes by are exactly those of the open descriptors of socket and    *)
(* co_accept, whatever is opened, closed and opened again.                  *)
THEOREM SetCorrect == Spec => []SetNeverBlocks
<1>1. HooksInv => SetNeverBlocks
  BY DEF HooksInv
<1> QED
  BY <1>1, Invariance, PTL
=============================================================================
