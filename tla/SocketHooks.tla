---------------------------- MODULE SocketHooks ----------------------------
(***************************************************************************)
(* co_hook_sys_call.cpp: the socket calls libco puts in place of the       *)
(* system's.  A hooked descriptor has a context in g_rpchook_socket_fd and *)
(* is non-blocking in the kernel; a call on it waits in poll, where other  *)
(* coroutines run, and then calls the system.                              *)
(*                                                                         *)
(* A coroutine goes on without a break until it waits in poll or, which    *)
(* stops the whole thread, blocks in the kernel.                           *)
(***************************************************************************)
EXTENDS Integers, FiniteSets

CONSTANTS Co, NULL,
          HookedCo,    \* the coroutines that called co_enable_hook_sys
          Fd,          \* the descriptors the kernel gives out
          MaxBytes,    \* bound on what one write asks for
          BufSize,     \* what the kernel's buffers hold
          ConnectPolls \* how often connect waits 25 s (3)

ASSUME HookedAssumption == HookedCo \subseteq Co
ASSUME SizeAssumption   == MaxBytes \in Nat \ {0} /\ BufSize \in Nat \ {0}
ASSUME PollsAssumption  == ConnectPolls \in Nat \ {0}

VARIABLES sock,     \* the kernel: [Fd -> socket or NULL]
          hook,     \* g_rpchook_socket_fd: [Fd -> rpchook_t or NULL]
          call,     \* [Co -> the call it waits in or NULL]
          taken,    \* [Co -> the bytes of its last write the kernel took in order]
          result,   \* [Co -> what its last call returned]
          blocked   \* the coroutine that blocks the thread in the kernel, or NULL

vars == <<sock, hook, call, taken, result, blocked>>

(* A socket of the kernel.  Of its history, whether libco's socket or       *)
(* co_accept gave it out, and whether the last F_SETFL on it was that of a  *)
(* hooked coroutine that found its context.                                 *)
Peer   == {"none", "connecting", "refused", "up", "gone"}
Socket == [by : {"libco", "other"}, set : BOOLEAN, nonblock : BOOLEAN,
           peer : Peer, room : 0 .. BufSize, in : 0 .. BufSize]

(* rpchook_t; of user_flag the bit O_NONBLOCK. *)
Hook == [user_flag : BOOLEAN]

(* A call that waits: the bytes it wrote, how often connect has polled and  *)
(* whether write has, and what poll has reported.                           *)
Call == [op : {"read", "write", "sendto", "connect"}, fd : Fd, nbyte : 0 .. MaxBytes,
         wrotelen : 0 .. MaxBytes, turn : 0 .. ConnectPolls,
         stage : {"poll", "awake", "blocked"}, out : BOOLEAN]

Result == [op : {"none", "read", "write", "sendto", "connect"}, fd : Fd,
           ret : -1 .. MaxBytes]

ASSUME NullAssumption == NULL \notin Co /\ NULL \notin Socket /\ NULL \notin Hook /\ NULL \notin Call

TypeOK == /\ sock \in [Fd -> Socket \cup {NULL}]
          /\ hook \in [Fd -> Hook \cup {NULL}]
          /\ call \in [Co -> Call \cup {NULL}]
          /\ taken \in [Co -> -1 .. MaxBytes]
          /\ result \in [Co -> Result]
          /\ blocked \in Co \cup {NULL}
          /\ \A co \in Co : blocked = co <=> call[co] # NULL /\ call[co].stage = "blocked"

Init == /\ sock = [fd \in Fd |-> NULL]
        /\ hook = [fd \in Fd |-> NULL]
        /\ call = [co \in Co |-> NULL]
        /\ taken = [co \in Co |-> 0]
        /\ result \in [Co -> {[op |-> "none", fd |-> fd, ret |-> 0] : fd \in Fd}]
        /\ blocked = NULL

---------------------------------------------------------------------------
(* co can make a call. *)
Runs(co)   == blocked = NULL /\ call[co] = NULL
Open(fd)   == sock[fd] # NULL
Hooks(co)  == co \in HookedCo        \* co_is_enable_sys_hook()
Unused(fd) == \A co \in Co : call[co] # NULL => call[co].fd # fd

NewSocket(by, set, nonblock, peer) ==
  [by |-> by, set |-> set, nonblock |-> nonblock, peer |-> peer, room |-> BufSize, in |-> 0]

(* Fault: the kernel is passed what the caller passed. *)
fcntl_setfl_passed(co, fd, param) ==
  /\ Runs(co) /\ Open(fd)
  /\ sock' = [sock EXCEPT ![fd].nonblock = param,
                          ![fd].set = Hooks(co) /\ hook[fd] # NULL]
  /\ hook' = IF hook[fd] # NULL THEN [hook EXCEPT ![fd].user_flag = param] ELSE hook
  /\ UNCHANGED <<call, taken, result, blocked>>

(* fcntl(fd, F_SETFL, param): a hooked descriptor stays non-blocking in the *)
(* kernel, and user_flag is what was passed.                                *)
fcntl_setfl(co, fd, param) ==
  /\ Runs(co) /\ Open(fd)
  /\ sock' = [sock EXCEPT ![fd].nonblock = param \/ (Hooks(co) /\ hook[fd] # NULL),
                          ![fd].set = Hooks(co) /\ hook[fd] # NULL]
  /\ hook' = IF hook[fd] # NULL THEN [hook EXCEPT ![fd].user_flag = param] ELSE hook
  /\ UNCHANGED <<call, taken, result, blocked>>

(* socket; type says whether it has SOCK_NONBLOCK.  A hooked one ends with  *)
(* fcntl(fd, F_SETFL, its flags).                                           *)
socket(co, fd, type) ==
  /\ Runs(co) /\ ~Open(fd)
  /\ IF Hooks(co)
     THEN /\ sock' = [sock EXCEPT ![fd] = NewSocket("libco", TRUE, TRUE, "none")]
          /\ hook' = [hook EXCEPT ![fd] = [user_flag |-> type]]
     ELSE /\ sock' = [sock EXCEPT ![fd] = NewSocket("other", FALSE, type, "none")]
          /\ UNCHANGED hook
  /\ UNCHANGED <<call, taken, result, blocked>>

(* co_accept gives the descriptor a context, and leaves it blocking.        *)
co_accept(co, fd) ==
  /\ Runs(co) /\ ~Open(fd)
  /\ sock' = [sock EXCEPT ![fd] = NewSocket("libco", FALSE, FALSE, "up")]
  /\ hook' = [hook EXCEPT ![fd] = [user_flag |-> FALSE]]
  /\ UNCHANGED <<call, taken, result, blocked>>

(* accept, pipe, open and the like are not hooked.                          *)
OtherFd(co, fd) ==
  /\ Runs(co) /\ ~Open(fd)
  /\ sock' = [sock EXCEPT ![fd] = NewSocket("other", FALSE, FALSE, "up")]
  /\ UNCHANGED <<hook, call, taken, result, blocked>>

(* close; programs do not close a descriptor that is in use by a call.      *)
close(co, fd) ==
  /\ Runs(co) /\ Open(fd) /\ Unused(fd)
  /\ hook' = IF Hooks(co) THEN [hook EXCEPT ![fd] = NULL] ELSE hook
  /\ sock' = [sock EXCEPT ![fd] = NULL]
  /\ UNCHANGED <<call, taken, result, blocked>>

(* A program sets or clears O_NONBLOCK, on purpose or because it changes    *)
(* another flag and passes on what fcntl(fd, F_GETFL), the kernel's flags,  *)
(* returned.                                                                *)
Sets(co, fd) == \E param \in BOOLEAN : fcntl_setfl(co, fd, param)

---------------------------------------------------------------------------
(* The kernel.  What a write of k bytes to a socket can return, and when a  *)
(* call blocks the thread instead.                                          *)
WriteReturns(s, k) == IF s.peer = "up" /\ s.room > 0
                      THEN 1 .. (IF k < s.room THEN k ELSE s.room) ELSE {-1}
WouldBlock(s)      == s.peer = "connecting" \/ (s.peer = "up" /\ s.room = 0)
WriteBlocks(s, k)  == ~s.nonblock /\ s.peer = "up" /\ s.room < k
ReadReturns(s)     == IF s.in > 0 THEN {1} ELSE IF s.peer \in {"gone", "refused"} THEN {0} ELSE {-1}
ReadBlocks(s)      == ~s.nonblock /\ s.peer = "up" /\ s.in = 0
Readable(s)        == s.in > 0 \/ s.peer \in {"gone", "refused"}
Writable(s)        == s.peer \in {"gone", "refused"} \/ (s.peer = "up" /\ s.room > 0)

(* The call goes straight to the system.                                    *)
Direct(co, fd) == ~Hooks(co) \/ hook[fd] = NULL \/ hook[fd].user_flag

Waiting(op, fd, nbyte, wrotelen, turn) ==
  [op |-> op, fd |-> fd, nbyte |-> nbyte, wrotelen |-> wrotelen, turn |-> turn,
   stage |-> "poll", out |-> FALSE]

Returned(co, op, fd, ret) ==
  /\ call' = [call EXCEPT ![co] = NULL]
  /\ result' = [result EXCEPT ![co] = [op |-> op, fd |-> fd, ret |-> ret]]

Entered(co, c) ==
  /\ call' = [call EXCEPT ![co] = c]
  /\ result' = [result EXCEPT ![co] = [op |-> "none", fd |-> c.fd, ret |-> 0]]

(* co's call returns, waits in poll, or blocks the thread in the system.    *)
Return(co, op, fd, ret) == Returned(co, op, fd, ret) /\ UNCHANGED blocked
Wait(co, c)             == Entered(co, c) /\ UNCHANGED blocked
Block(co, c)            == Entered(co, [c EXCEPT !.stage = "blocked"]) /\ blocked' = co

(* co is back from poll in a call of op. *)
Back(co, op) == /\ blocked = NULL /\ call[co] # NULL
                /\ call[co].op = op /\ call[co].stage = "awake"

Positive(w) == IF w > 0 THEN w ELSE 0

(* The kernel takes w bytes from place off of the buffer of co's write.     *)
Take(co, fd, off, w) ==
  IF w <= 0 THEN UNCHANGED <<sock, taken>>
  ELSE /\ sock' = [sock EXCEPT ![fd].room = @ - w]
       /\ taken' = [taken EXCEPT ![co] = IF off = @ THEN @ + w ELSE -1]

(* The value of a write or send that stops after a system call returned w.  *)
Written(wrotelen, w) == IF w <= 0 /\ wrotelen = 0 THEN w ELSE wrotelen

(* The first system call, after which the hook is done or polls.            *)
FirstTry(co, op, fd, nbyte, Done(_)) ==
  /\ Runs(co) /\ Open(fd)
  /\ UNCHANGED hook
  /\ IF WriteBlocks(sock[fd], nbyte)
     THEN /\ Block(co, Waiting(op, fd, nbyte, 0, 0))
          /\ taken' = [taken EXCEPT ![co] = 0]
          /\ UNCHANGED sock
     ELSE \E w \in WriteReturns(sock[fd], nbyte) :
            /\ sock' = [sock EXCEPT ![fd].room = @ - Positive(w)]
            /\ taken' = [taken EXCEPT ![co] = Positive(w)]
            /\ IF Done(w) THEN Return(co, op, fd, w)
               ELSE Wait(co, Waiting(op, fd, nbyte, Positive(w), 1))

(* The next one, after a poll and ready or not, with the buffer from off on.*)
NextTry(co, off, Done(_)) ==
  LET c == call[co]
      rest == c.nbyte - c.wrotelen
  IN  /\ UNCHANGED hook
      /\ IF WriteBlocks(sock[c.fd], rest) THEN Block(co, c) /\ UNCHANGED <<sock, taken>>
         ELSE \E w \in WriteReturns(sock[c.fd], rest) :
                /\ Take(co, c.fd, off, w)
                /\ LET wrote == c.wrotelen + Positive(w)
                   IN  IF Done(w) THEN Return(co, c.op, c.fd, Written(wrote, w))
                       ELSE Wait(co, Waiting(c.op, c.fd, c.nbyte, wrote, 1))

(* write and send stop when everything is written ...                       *)
All(co, w) == call[co].wrotelen + w = call[co].nbyte

write(co, fd, nbyte) == FirstTry(co, "write", fd, nbyte, LAMBDA w : Direct(co, fd) \/ w = nbyte)

(* Fault: the rest is written from the start of the buffer again. *)
write_again_start(co) ==
  Back(co, "write") /\ NextTry(co, 0, LAMBDA w : w <= 0 \/ All(co, w))

(* Fault: what could not be written is tried without an end. *)
write_again_always(co) ==
  Back(co, "write") /\ NextTry(co, call[co].wrotelen, LAMBDA w : w > 0 /\ All(co, w))

(* ... or at the first failure after a poll, though not at a failure before.*)
write_again(co) ==
  Back(co, "write") /\ NextTry(co, call[co].wrotelen, LAMBDA w : w <= 0 \/ All(co, w))

(* sendto waits only when the system would have blocked, and once.          *)
sendto(co, fd, nbyte) ==
  FirstTry(co, "sendto", fd, nbyte,
           LAMBDA w : Direct(co, fd) \/ w > 0 \/ ~WouldBlock(sock[fd]))

sendto_again(co) == Back(co, "sendto") /\ NextTry(co, 0, LAMBDA w : TRUE)

(* The system's read, of one byte, by read, recv and recvfrom. *)
SysRead(co, fd) ==
  \E r \in ReadReturns(sock[fd]) :
    /\ sock' = [sock EXCEPT ![fd].in = @ - Positive(r)]
    /\ Return(co, "read", fd, r)
    /\ UNCHANGED <<hook, taken>>

(* read, recv, recvfrom: a hooked descriptor is polled first ...            *)
read(co, fd) ==
  /\ Runs(co) /\ Open(fd)
  /\ IF ~Direct(co, fd)
     THEN /\ Wait(co, Waiting("read", fd, 1, 0, 0))
          /\ UNCHANGED <<sock, hook, taken>>
     ELSE IF ReadBlocks(sock[fd])
     THEN Block(co, Waiting("read", fd, 1, 0, 0)) /\ UNCHANGED <<sock, hook, taken>>
     ELSE SysRead(co, fd)

(* ... and then read, also when poll timed out.                             *)
read_again(co) ==
  /\ Back(co, "read")
  /\ IF ReadBlocks(sock[call[co].fd]) THEN Block(co, call[co]) /\ UNCHANGED <<sock, hook, taken>>
     ELSE SysRead(co, call[co].fd)

(* connect of a socket that is not connected.  The system's connect returns *)
(* at once, with success or an error, and so does the hook; or it is under  *)
(* way (EINPROGRESS) or, on a blocking socket, blocks the thread.           *)
connect(co, fd) ==
  /\ Runs(co) /\ Open(fd) /\ sock[fd].peer = "none"
  /\ \/ \E ret \in {0, -1} :
          /\ sock' = [sock EXCEPT ![fd].peer = IF ret = 0 THEN "up" ELSE @]
          /\ Return(co, "connect", fd, ret)
     \/ /\ sock' = [sock EXCEPT ![fd].peer = "connecting"]
        /\ IF ~sock[fd].nonblock THEN Block(co, Waiting("connect", fd, 0, 0, 0))
           ELSE IF Direct(co, fd) THEN Return(co, "connect", fd, -1)
           ELSE Wait(co, Waiting("connect", fd, 0, 0, 1))
  /\ UNCHANGED <<hook, taken>>

(* After a poll: out of the loop if it reported something, and else up to   *)
(* ConnectPolls times.  POLLOUT is success; what getsockopt says is looked  *)
(* at only without it.                                                      *)
connect_again(co) ==
  /\ Back(co, "connect")
  /\ LET c == call[co]
     IN  IF ~c.out /\ c.turn < ConnectPolls
         THEN Wait(co, Waiting("connect", c.fd, 0, 0, c.turn + 1))
         ELSE Return(co, "connect", c.fd, IF c.out THEN 0 ELSE -1)
  /\ UNCHANGED <<sock, hook, taken>>

---------------------------------------------------------------------------
(* poll, by EventLoop: it returns because the descriptor is ready or at the *)
(* timeout, and the coroutine runs some time later.                         *)
PollReturns(co) ==
  /\ blocked = NULL /\ call[co] # NULL /\ call[co].stage = "poll"
  /\ \E ready \in BOOLEAN :
       /\ ready => LET s == sock[call[co].fd]
                   IN  IF call[co].op = "read" THEN Readable(s) ELSE Writable(s)
       /\ call' = [call EXCEPT ![co].stage = "awake", ![co].out = ready]
  /\ UNCHANGED <<sock, hook, taken, result, blocked>>

(* A write that blocked the thread ends because the peer has gone: it has   *)
(* failed or written a part.  The hook of write goes on as after any other  *)
(* attempt; before it has polled once also after a failure.                 *)
CutShort(co) ==
  LET c == call[co]
  IN  /\ c.op \in {"write", "sendto"} /\ sock[c.fd].peer = "gone"
      /\ \E w \in {-1} \cup 1 .. c.nbyte - c.wrotelen - 1 :
           LET wrote == c.wrotelen + Positive(w)
           IN  /\ taken' = [taken EXCEPT ![co] = @ + Positive(w)]
               /\ IF c.op = "sendto" \/ Direct(co, c.fd) \/ (w <= 0 /\ c.turn > 0)
                  THEN Returned(co, c.op, c.fd, Written(wrote, w))
                  ELSE Entered(co, Waiting(c.op, c.fd, c.nbyte, wrote, 1))
      /\ UNCHANGED sock

(* A system call that blocked the thread ends.                              *)
Unblock(co) ==
  /\ blocked = co /\ blocked' = NULL
  /\ UNCHANGED hook
  /\ LET c == call[co]
         s == sock[c.fd]
     IN  \/ /\ c.op = "read" /\ Readable(s)
            /\ \E r \in ReadReturns(s) :
                 /\ sock' = [sock EXCEPT ![c.fd].in = @ - Positive(r)]
                 /\ Returned(co, "read", c.fd, r)
            /\ UNCHANGED taken
         \/ /\ c.op \in {"write", "sendto"} /\ s.peer = "up" /\ Writable(s)
            /\ sock' = [sock EXCEPT ![c.fd].room = 0]
            /\ taken' = [taken EXCEPT ![co] = c.nbyte]
            /\ Returned(co, c.op, c.fd, c.nbyte)
         \/ CutShort(co)
         \/ /\ c.op = "connect" /\ s.peer # "connecting"
            /\ Returned(co, "connect", c.fd, IF s.peer = "refused" THEN -1 ELSE 0)
            /\ UNCHANGED <<sock, taken>>

(* The other end: it answers a connect, reads, writes, goes away.           *)
PeerActs(fd) ==
  /\ Open(fd)
  /\ \/ sock[fd].peer = "connecting"
        /\ \E answer \in {"up", "refused"} : sock' = [sock EXCEPT ![fd].peer = answer]
     \/ sock[fd].peer = "up" /\ sock[fd].room < BufSize
        /\ sock' = [sock EXCEPT ![fd].room = @ + 1]
     \/ sock[fd].peer = "up" /\ sock[fd].in < BufSize
        /\ sock' = [sock EXCEPT ![fd].in = @ + 1]
     \/ sock[fd].peer = "up" /\ sock' = [sock EXCEPT ![fd].peer = "gone"]
  /\ UNCHANGED <<hook, call, taken, result, blocked>>

Opens(co, fd) == co_accept(co, fd) \/ OtherFd(co, fd) \/ \E b \in BOOLEAN : socket(co, fd, b)
Calls(co, fd) == \/ read(co, fd) \/ connect(co, fd)
                 \/ \E n \in 1 .. MaxBytes : write(co, fd, n) \/ sendto(co, fd, n)
Goes(co)      == write_again(co) \/ sendto_again(co) \/ read_again(co) \/ connect_again(co)

Next == \/ \E co \in Co, fd \in Fd : Opens(co, fd) \/ close(co, fd) \/ Sets(co, fd) \/ Calls(co, fd)
        \/ \E co \in Co : Goes(co) \/ PollReturns(co) \/ Unblock(co)
        \/ \E fd \in Fd : PeerActs(fd)

Spec == Init /\ [][Next]_vars

(* The event loop ends every poll at the latest at its timeout, and resumes *)
(* the coroutine.                                                           *)
FairSpec == Spec /\ \A co \in Co : WF_vars(PollReturns(co)) /\ WF_vars(Goes(co))

---------------------------------------------------------------------------
(* No call blocks the thread on a descriptor whose flags were last set      *)
(* through libco's fcntl, whatever was passed: that is every socket of      *)
(* socket, and one of co_accept from its first F_SETFL on.  It hangs on the *)
(* contexts: where all coroutines hook, those of the open descriptors that  *)
(* socket and co_accept gave out are there, and no others.                  *)
SetNeverBlocks ==
  /\ TypeOK
  /\ HookedCo = Co =>
       \A fd \in Fd : hook[fd] # NULL <=> sock[fd] # NULL /\ sock[fd].by = "libco"
  /\ blocked # NULL => ~sock[call[blocked].fd].set

(* What write returns is what the kernel took, in order and from the start  *)
(* of the buffer, over all the attempts and waits; an error only when that  *)
(* is nothing (wrotelen in write and send; sendto).                         *)
WriteTruth ==
  \A co \in Co :
    /\ call[co] # NULL /\ call[co].op \in {"write", "sendto"} => taken[co] = call[co].wrotelen
    /\ call[co] = NULL /\ result[co].op \in {"write", "sendto"} =>
         taken[co] = IF result[co].ret > 0 THEN result[co].ret ELSE 0

(* A call that waits returns in the end unless the thread is blocked: the   *)
(* loops of write and connect do not go on for ever, whatever the peer does *)
(* and the other coroutines write in between.                               *)
CallsReturn ==
  \A co \in Co : call[co] # NULL ~> call[co] = NULL \/ blocked # NULL
===========================================================================
