------------------------ MODULE EventLoopInvariants ------------------------
(***************************************************************************)
(* Why the event loop resumes the right coroutines: what its lists, the    *)
(* fields of the items and the position in the loop have to do with each   *)
(* other.                                                                  *)
(***************************************************************************)
EXTENDS EventLoop

OnStack(co) == co \in ToSet(callStack)

(* A coroutine on the call stack is blocked in nothing; no coroutine runs   *)
(* between co_epoll_wait and TakeAllTimeout, so the events it reported are  *)
(* of entries that are still there.                                         *)
ControlInv ==
  /\ Once(callStack)
  /\ \A co \in Co : OnStack(co) => wait[co] = "none"
  /\ pc = "prepare" => callStack = <<>>
  /\ pc # "prepare" => result = {}
  /\ \A fd \in result : reg[fd] \in Co

(* What a stPoll_t says of itself: it was reported to, or timed out, only   *)
(* if it is in the active list, and it times out after every event of the   *)
(* turn was seen.                                                           *)
PollInv ==
  \A co \in Co :
    /\ bTimeout[co] => Queued(co)
    /\ revents[co] # {} => wait[co] = "poll" /\ Queued(co)
    /\ wait[co] # "poll" => fds[co] = {}
    /\ wait[co] = "poll" /\ Queued(co) =>
         /\ pc # "main"
         /\ pc = "prepare" => ~bTimeout[co]

LoopInv == /\ TypeOK /\ ControlInv /\ PollInv
           /\ ResumesBlocked /\ BlockedReachable /\ EventOrTimeout

(* No poll of a descriptor is refused by AddTimeout: either the program has *)
(* none such, or the clock never goes back, no timeout is negative, and a   *)
(* late turn and the longest poll together fit into the wheel.              *)
NoneRefused == \/ ~PollsRefused
               \/ /\ ~ClockSteps
                  /\ Timeout \subseteq Nat
                  /\ MaxLag + eMaxTimeout < iItemSize

LagInv   == ~ClockSteps => lag \in 0 .. MaxLag
EntryInv == LagInv /\ EntriesOwned /\ PollWatches
===========================================================================
