-------------------------- MODULE EventLoopProofs --------------------------
(***************************************************************************)
(* Proofs about the event loop, for any number of coroutines and           *)
(* descriptors and any timeouts.                                           *)
(***************************************************************************)
EXTENDS EventLoopInvariants, ListLemmas

LEMMA InitInv == Init => LoopInv
<1> SUFFICES ASSUME Init PROVE LoopInv
  OBVIOUS
<1>1. ToSet(active) = {} /\ ToSet(waiters) = {} /\ ToSet(callStack) = {}
      /\ Once(active) /\ Once(waiters) /\ Once(callStack)
  BY EmptyOnce DEF Init
<1>2. DOMAIN wheel = {}
  BY DEF Init
<1>3. TypeOK
  BY <1>2 DEF Init, TypeOK
<1>4. ControlInv
  BY <1>1 DEF Init, ControlInv, OnStack
<1>5. PollInv /\ BlockedReachable /\ EventOrTimeout
  BY <1>1 DEF Init, PollInv, BlockedReachable, EventOrTimeout, Queued
<1>6. ResumesBlocked
  BY <1>1, <1>2 DEF ResumesBlocked, Armed, Queued
<1> QED
  BY <1>3, <1>4, <1>5, <1>6 DEF LoopInv

(* Only the loop's own step from "prepare" to "drain" and coroutines, which *)
(* run outside "prepare", disturb more than these.                          *)
LEMMA QuietStep ==
  ASSUME LoopInv, TypeOK',
         UNCHANGED <<callStack, wait, fds, revents, bTimeout, wheel, active, waiters>>,
         \/ pc' = pc /\ result' = result /\ reg' = reg
         \/ pc' = pc /\ pc # "prepare" /\ result' = result
         \/ /\ pc = "main" /\ pc' = "prepare" /\ callStack = <<>>
            /\ \A fd \in result' : reg'[fd] \in Co
         \/ pc' = "main" /\ active = <<>> /\ result' = {}
  PROVE  LoopInv'
<1>1. ControlInv'
  BY DEF LoopInv, ControlInv, OnStack
<1>2. active = <<>> => \A co \in Co : ~Queued(co)
  BY EmptyOnce DEF Queued
<1>3. PollInv'
  BY <1>2 DEF LoopInv, PollInv, Queued
<1>4. ResumesBlocked' /\ BlockedReachable' /\ EventOrTimeout'
  BY DEF LoopInv, ResumesBlocked, BlockedReachable, EventOrTimeout, Armed, Queued, Blocked
<1> QED
  BY <1>1, <1>3, <1>4 DEF LoopInv

LEMMA KernelStep ==
  ASSUME LoopInv,
         \/ Tick \/ SetBack \/ co_epoll_wait \/ Drained
         \/ \E fd \in Fd : \/ Arrive(fd)
                           \/ \E co \in Co : Consume(co, fd) \/ Close(co, fd)
  PROVE  LoopInv'
<1>1. CASE Tick \/ SetBack
  <2>1. TypeOK'
    BY <1>1 DEF LoopInv, TypeOK, Tick, SetBack, items, kernel
  <2> QED
    BY <1>1, <2>1, QuietStep DEF Tick, SetBack, items, kernel
<1>2. CASE co_epoll_wait
  <2>1. result' \subseteq Reportable
    BY <1>2 DEF co_epoll_wait, kSubset
  <2>2. TypeOK' /\ \A fd \in result' : reg'[fd] \in Co
    BY <1>2, <2>1 DEF LoopInv, TypeOK, co_epoll_wait, Reportable, items, kernel
  <2> QED
    BY <1>2, <2>2, QuietStep DEF co_epoll_wait, items
<1>3. CASE Drained
  <2>1. TypeOK' /\ result' = {}
    BY <1>3 DEF LoopInv, TypeOK, ControlInv, Drained, items, kernel
  <2> QED
    BY <1>3, <2>1, QuietStep DEF Drained, items
<1>4. ASSUME NEW fd \in Fd, Arrive(fd) PROVE LoopInv'
  <2>1. TypeOK'
    BY <1>4 DEF LoopInv, TypeOK, Arrive, items
  <2> QED
    BY <1>4, <2>1, QuietStep DEF Arrive, items
<1>5. ASSUME NEW fd \in Fd, NEW co \in Co, Consume(co, fd) \/ Close(co, fd)
      PROVE  LoopInv'
  <2>1. TypeOK'
    BY <1>5 DEF LoopInv, TypeOK, Consume, Close, items
  <2>2. pc # "prepare"
    BY <1>5, CoAssumption DEF LoopInv, ControlInv, Consume, Close, Runs, Running
  <2> QED
    BY <1>5, <2>1, <2>2, QuietStep DEF Consume, Close, items
<1> QED
  BY <1>1, <1>2, <1>3, <1>4, <1>5

---------------------------------------------------------------------------
(* What holds while a coroutine runs, and when it leaves the call stack.    *)
LEMMA RunsFacts ==
  ASSUME LoopInv, NEW co \in Co, Runs(co)
  PROVE  /\ callStack # <<>> /\ pc # "prepare" /\ result = {}
         /\ OnStack(co) /\ wait[co] = "none" /\ fds[co] = {}
         /\ ~Armed(co) /\ ~Queued(co) /\ co \notin ToSet(waiters)
         /\ Front(callStack) \in Seq(Co) /\ Once(Front(callStack))
         /\ ToSet(Front(callStack)) = ToSet(callStack) \ {co}
<1>1. callStack # <<>> /\ co = Last(callStack)
  BY CoAssumption DEF Runs, Running
<1>2. callStack \in Seq(Co) /\ Once(callStack)
  BY DEF LoopInv, TypeOK, ControlInv
<1>3. /\ Front(callStack) \in Seq(Co) /\ Once(Front(callStack))
      /\ ToSet(Front(callStack)) = ToSet(callStack) \ {co}
      /\ OnStack(co)
  BY <1>1, <1>2, FrontMembers DEF OnStack
<1>4. pc # "prepare" /\ result = {} /\ wait[co] = "none"
  BY <1>1, <1>3 DEF LoopInv, ControlInv
<1>5. ~Armed(co) /\ ~Queued(co) /\ co \notin ToSet(waiters) /\ fds[co] = {}
  BY <1>4 DEF LoopInv, ResumesBlocked, PollInv, Blocked
<1> QED
  BY <1>1, <1>3, <1>4, <1>5

(* Timers armed and disarmed. *)
LEMMA ArmFacts ==
  ASSUME TypeOK, NEW co \in Co, NEW ms \in Int, ~Refused(ms)
  PROVE  /\ DOMAIN Arm(co, ms) = DOMAIN wheel \cup {co}
         /\ Arm(co, ms) \in [DOMAIN Arm(co, ms) -> 0 .. iItemSize - 1]
<1>1. lag + ms \in 0 .. iItemSize - 1
  BY TimeAssumption DEF TypeOK, Refused
<1> QED
  BY <1>1 DEF TypeOK, Arm

LEMMA DisarmFacts ==
  ASSUME TypeOK, NEW S
  PROVE  /\ DOMAIN Disarm(S) = DOMAIN wheel \ S
         /\ Disarm(S) \in [DOMAIN Disarm(S) -> 0 .. iItemSize - 1]
BY DEF TypeOK, Disarm, Restrict

(* A coroutine that leaves the call stack for a wait leads to all of        *)
(* LoopInv, if it left itself where it will be found.                       *)
LEMMA YieldStep ==
  ASSUME LoopInv, co_yield_ct(Last(callStack)), Last(callStack) \in Co
  PROVE  LoopInv'
<1> DEFINE co == Last(callStack)
<1>1. /\ Front(callStack) \in Seq(Co) /\ Once(Front(callStack))
      /\ ToSet(Front(callStack)) = ToSet(callStack) \ {co} /\ pc # "prepare"
  BY RunsFacts DEF co_yield_ct
<1>2. /\ callStack' = Front(callStack)
      /\ UNCHANGED <<pc, wait, fds, revents, bTimeout, wheel, lag, active, waiters,
                     reg, ready, result>>
  BY DEF co_yield_ct, items, kernel
<1> HIDE DEF co
<1>3. TypeOK'
  BY <1>1, <1>2 DEF LoopInv, TypeOK
<1>4. ControlInv'
  BY <1>1, <1>2 DEF LoopInv, ControlInv, OnStack
<1>5. PollInv' /\ BlockedReachable' /\ EventOrTimeout'
  BY <1>2 DEF LoopInv, PollInv, BlockedReachable, EventOrTimeout, Armed, Queued
<1>6. ResumesBlocked'
  BY <1>1, <1>2 DEF LoopInv, ResumesBlocked, Armed, Queued, Blocked
<1> QED
  BY <1>3, <1>4, <1>5, <1>6 DEF LoopInv

LEMMA ResumeStep ==
  ASSUME LoopInv, NEW co \in Co, co_resume(co)
  PROVE  LoopInv'
<1>1. /\ wait[co] = "none" /\ co \notin ToSet(callStack)
      /\ callStack' = Append(callStack, co)
      /\ UNCHANGED <<pc, wait, fds, revents, bTimeout, wheel, lag, active, waiters,
                     reg, ready, result>>
  BY DEF co_resume, items, kernel
<1>2. /\ callStack' \in Seq(Co) /\ Once(callStack')
      /\ ToSet(callStack') = ToSet(callStack) \cup {co}
  BY <1>1, AppendMembers DEF LoopInv, TypeOK, ControlInv
<1>3. pc # "prepare"
  BY CoAssumption DEF LoopInv, ControlInv, co_resume, Runs, Running
<1>4. TypeOK'
  BY <1>1, <1>2 DEF LoopInv, TypeOK
<1>5. ControlInv'
  BY <1>1, <1>2, <1>3 DEF LoopInv, ControlInv, OnStack
<1>6. PollInv' /\ BlockedReachable' /\ EventOrTimeout'
  BY <1>1 DEF LoopInv, PollInv, BlockedReachable, EventOrTimeout, Armed, Queued
<1>7. ResumesBlocked'
  BY <1>1, <1>2 DEF LoopInv, ResumesBlocked, Armed, Queued, Blocked
<1> QED
  BY <1>4, <1>5, <1>6, <1>7 DEF LoopInv

LEMMA PollStep ==
  ASSUME LoopInv, NEW co \in Co, NEW F \in SUBSET Fd, NEW ms \in Timeout,
         co_poll_inner(co, F, ms)
  PROVE  LoopInv'
<1>1. /\ callStack # <<>> /\ pc # "prepare" /\ result = {}
      /\ OnStack(co) /\ wait[co] = "none" /\ fds[co] = {}
      /\ ~Armed(co) /\ ~Queued(co) /\ co \notin ToSet(waiters)
      /\ Front(callStack) \in Seq(Co) /\ Once(Front(callStack))
      /\ ToSet(Front(callStack)) = ToSet(callStack) \ {co}
  BY RunsFacts DEF co_poll_inner
<1>2. /\ reg' = [fd \in Fd |-> IF fd \in F \ NoEpoll /\ reg[fd] = NULL THEN co
                               ELSE reg[fd]]
      /\ UNCHANGED <<pc, revents, bTimeout, lag, active, waiters, ready, result>>
  BY DEF co_poll_inner
<1>3. reg' \in [Fd -> Co \cup {NULL}]
  BY <1>2 DEF LoopInv, TypeOK
<1>4. CASE Refused(Cap(ms))
  <2>1. UNCHANGED <<callStack, wait, fds, wheel>>
    BY <1>4 DEF co_poll_inner
  <2>2. TypeOK'
    BY <1>2, <1>3, <2>1 DEF LoopInv, TypeOK
  <2> QED
    BY <1>1, <1>2, <2>1, <2>2, QuietStep
<1>5. CASE ~Refused(Cap(ms))
  <2>1. /\ wheel' = Arm(co, Cap(ms))
        /\ wait' = [wait EXCEPT ![co] = "poll"]
        /\ fds' = [fds EXCEPT ![co] = F]
        /\ callStack' = Front(callStack)
    BY <1>5 DEF co_poll_inner
  <2>2. Cap(ms) \in Int
    BY TimeAssumption DEF Cap
  <2>3. /\ DOMAIN wheel' = DOMAIN wheel \cup {co}
        /\ wheel' \in [DOMAIN wheel' -> 0 .. iItemSize - 1]
    BY <1>5, <2>1, <2>2, ArmFacts DEF LoopInv
  <2>4. /\ \A x \in Co : wait'[x] = IF x = co THEN "poll" ELSE wait[x]
        /\ \A x \in Co : fds'[x] = IF x = co THEN F ELSE fds[x]
        /\ wait' \in [Co -> {"none", "poll", "cond"}] /\ fds' \in [Co -> SUBSET Fd]
    BY <2>1 DEF LoopInv, TypeOK
  <2>5. TypeOK'
    BY <1>1, <1>2, <1>3, <2>1, <2>3, <2>4 DEF LoopInv, TypeOK
  <2>6. ControlInv'
    BY <1>1, <1>2, <2>1, <2>4 DEF LoopInv, ControlInv, OnStack
  <2>7. PollInv' /\ EventOrTimeout'
    BY <1>1, <1>2, <2>4 DEF LoopInv, PollInv, EventOrTimeout, Queued
  <2>8. BlockedReachable'
    BY <1>1, <1>2, <2>3, <2>4 DEF LoopInv, BlockedReachable, Armed, Queued
  <2>9. ResumesBlocked'
    BY <1>1, <1>2, <2>1, <2>3, <2>4 DEF LoopInv, ResumesBlocked, Armed, Queued, Blocked,
       OnStack
  <2> QED
    BY <2>5, <2>6, <2>7, <2>8, <2>9 DEF LoopInv
<1> QED
  BY <1>4, <1>5

LEMMA WaitStep ==
  ASSUME LoopInv, NEW co \in Co, NEW ms \in Timeout, co_cond_timedwait(co, ms)
  PROVE  LoopInv'
<1>1. /\ callStack # <<>> /\ pc # "prepare" /\ result = {}
      /\ OnStack(co) /\ wait[co] = "none" /\ fds[co] = {}
      /\ ~Armed(co) /\ ~Queued(co) /\ co \notin ToSet(waiters)
      /\ Front(callStack) \in Seq(Co) /\ Once(Front(callStack))
      /\ ToSet(Front(callStack)) = ToSet(callStack) \ {co}
  BY RunsFacts DEF co_cond_timedwait
<1>2. /\ ms > 0 => ~Refused(ms)
      /\ wheel' = IF ms > 0 THEN Arm(co, ms) ELSE wheel
      /\ waiters' = Append(waiters, co)
      /\ wait' = [wait EXCEPT ![co] = "cond"]
      /\ callStack' = Front(callStack)
      /\ UNCHANGED <<pc, fds, revents, bTimeout, lag, active, reg, ready, result>>
  BY DEF co_cond_timedwait, kernel
<1>3. /\ DOMAIN wheel' \subseteq DOMAIN wheel \cup {co}
      /\ DOMAIN wheel \subseteq DOMAIN wheel'
      /\ wheel' \in [DOMAIN wheel' -> 0 .. iItemSize - 1]
  <2>1. CASE ms > 0
    <3>1. ms \in Int /\ ~Refused(ms) /\ wheel' = Arm(co, ms)
      BY <1>2, <2>1, TimeAssumption
    <3>2. TypeOK
      BY DEF LoopInv
    <3> QED
      BY <3>1, <3>2, ArmFacts
  <2>2. CASE ~(ms > 0)
    BY <1>2, <2>2 DEF LoopInv, TypeOK
  <2> QED
    BY <2>1, <2>2
<1>4. /\ waiters' \in Seq(Co) /\ Once(waiters')
      /\ ToSet(waiters') = ToSet(waiters) \cup {co}
  BY <1>1, <1>2, AppendMembers DEF LoopInv, TypeOK, ResumesBlocked
<1>5. /\ \A x \in Co : wait'[x] = IF x = co THEN "cond" ELSE wait[x]
      /\ wait' \in [Co -> {"none", "poll", "cond"}]
  BY <1>2 DEF LoopInv, TypeOK
<1>6. TypeOK'
  BY <1>1, <1>2, <1>3, <1>4, <1>5 DEF LoopInv, TypeOK
<1>7. ControlInv'
  BY <1>1, <1>2, <1>5 DEF LoopInv, ControlInv, OnStack
<1>8. PollInv' /\ EventOrTimeout'
  BY <1>1, <1>2, <1>5 DEF LoopInv, PollInv, EventOrTimeout, Queued
<1>9. BlockedReachable'
  BY <1>1, <1>2, <1>3, <1>4, <1>5 DEF LoopInv, BlockedReachable, Armed, Queued
<1>10. ResumesBlocked'
  BY <1>1, <1>2, <1>3, <1>4, <1>5 DEF LoopInv, ResumesBlocked, Armed, Queued, Blocked,
     OnStack
<1> QED
  BY <1>6, <1>7, <1>8, <1>9, <1>10 DEF LoopInv

---------------------------------------------------------------------------
(* Waiters that move to the active list, from wherever their timer is.      *)
LEMMA WakeStep ==
  ASSUME LoopInv, NEW S \in SUBSET ToSet(waiters), pc # "prepare",
         wheel' = Disarm(S),
         active' \in Seq(Co), Once(active'),
         ToSet(active') = ToSet(active) \cup S,
         waiters' \in Seq(Co), Once(waiters'), ToSet(waiters') = ToSet(waiters) \ S,
         UNCHANGED <<pc, callStack, wait, fds, revents, bTimeout, lag, reg, ready,
                     result>>
  PROVE  LoopInv'
<1>1. /\ DOMAIN wheel' = DOMAIN wheel \ S
      /\ wheel' \in [DOMAIN wheel' -> 0 .. iItemSize - 1]
  BY DisarmFacts DEF LoopInv
<1>2. \A co \in Co : co \in S => wait[co] = "cond"
  BY DEF LoopInv, ResumesBlocked
<1>3. TypeOK'
  BY <1>1 DEF LoopInv, TypeOK
<1>4. ControlInv'
  BY DEF LoopInv, ControlInv, OnStack
<1>5. PollInv' /\ EventOrTimeout'
  BY <1>2 DEF LoopInv, PollInv, EventOrTimeout, Queued
<1>6. BlockedReachable'
  BY <1>1, <1>2 DEF LoopInv, BlockedReachable, Armed, Queued
<1>7. ResumesBlocked'
  BY <1>1, <1>2 DEF LoopInv, ControlInv, ResumesBlocked, Armed, Queued, Blocked, OnStack
<1> QED
  BY <1>3, <1>4, <1>5, <1>6, <1>7 DEF LoopInv

LEMMA NotPreparing ==
  ASSUME LoopInv, NEW r, Runs(r)
  PROVE  pc # "prepare"
BY DEF LoopInv, ControlInv, Runs, Running

LEMMA SignalStep ==
  ASSUME LoopInv, NEW r, co_cond_signal(r)
  PROVE  LoopInv'
<1> DEFINE co == Head(waiters)
<1>1. /\ waiters # <<>> /\ pc # "prepare"
      /\ wheel' = Disarm({co})
      /\ active' = Append(RemoveFirst(active, co), co)
      /\ waiters' = Tail(waiters)
      /\ UNCHANGED <<pc, callStack, wait, fds, revents, bTimeout, lag, reg, ready,
                     result>>
  BY NotPreparing DEF co_cond_signal, items, kernel
<1>2. /\ waiters \in Seq(Co) /\ Once(waiters) /\ active \in Seq(Co) /\ Once(active)
  BY DEF LoopInv, TypeOK, ResumesBlocked
<1>3. co \in Co /\ co \in ToSet(waiters) /\ Tail(waiters) \in Seq(Co)
  BY <1>1, <1>2, HeadMember
<1>4. Once(Tail(waiters)) /\ ToSet(Tail(waiters)) = ToSet(waiters) \ {co}
  BY <1>1, <1>2, TailMembers
<1> HIDE DEF co
<1>5. /\ RemoveFirst(active, co) \in Seq(Co) /\ Once(RemoveFirst(active, co))
      /\ ToSet(RemoveFirst(active, co)) = ToSet(active) \ {co}
  BY <1>2, RemoveFirstMembers
<1>6. /\ active' \in Seq(Co) /\ Once(active')
      /\ ToSet(active') = ToSet(active) \cup {co}
  <2>1. co \notin ToSet(RemoveFirst(active, co))
    BY <1>5
  <2>2. /\ ToSet(Append(RemoveFirst(active, co), co))
              = ToSet(RemoveFirst(active, co)) \cup {co}
        /\ Once(Append(RemoveFirst(active, co), co))
    BY <1>3, <1>5, <2>1, AppendMembers
  <2> QED
    BY <1>1, <1>3, <1>5, <2>2
<1>7. {co} \in SUBSET ToSet(waiters)
  BY <1>3
<1> QED
  BY <1>1, <1>3, <1>4, <1>6, <1>7, WakeStep

LEMMA BroadcastStep ==
  ASSUME LoopInv, NEW r, co_cond_broadcast(r)
  PROVE  LoopInv'
<1>1. /\ pc # "prepare"
      /\ wheel' = Disarm(ToSet(waiters))
      /\ waiters' = <<>>
      /\ UNCHANGED <<pc, callStack, wait, fds, revents, bTimeout, lag, reg, ready,
                     result>>
  BY NotPreparing DEF co_cond_broadcast, items, kernel
<1>2. /\ waiters \in Seq(Co) /\ Once(waiters) /\ active \in Seq(Co)
  BY DEF LoopInv, TypeOK, ResumesBlocked
<1>3. PICK s \in SeqOf(ToSet(active) \ ToSet(waiters), Len(active)) :
        Keeps(s, active, ToSet(waiters)) /\ active' = s \o waiters
  BY DEF co_cond_broadcast
<1>4. s \in Seq(ToSet(active) \ ToSet(waiters)) /\ Len(active) \in Nat
  BY <1>2, SeqOfSeq
<1>5. \A x \in ToSet(active) : x \in Co
  BY <1>2 DEF ToSet
<1>6. s \in Seq(Co) /\ Once(s) /\ ToSet(s) = ToSet(active) \ ToSet(waiters)
  BY <1>3, <1>4, <1>5 DEF Keeps
<1>7. /\ ToSet(s \o waiters) = ToSet(s) \cup ToSet(waiters)
      /\ ToSet(s) \cap ToSet(waiters) = {} => Once(s \o waiters)
  BY <1>2, <1>6, ConcatMembers
<1>8. active' \in Seq(Co) /\ Once(active') /\ ToSet(active') = ToSet(active) \cup ToSet(waiters)
  BY <1>2, <1>3, <1>6, <1>7
<1>9. waiters' \in Seq(Co) /\ Once(waiters') /\ ToSet(waiters') = ToSet(waiters) \ ToSet(waiters)
  BY <1>1, EmptyOnce
<1> QED
  BY <1>1, <1>8, <1>9, WakeStep

---------------------------------------------------------------------------
(* A wait that is over: the coroutine is back on the call stack, and its    *)
(* item in no list.                                                         *)
LEMMA ReturnStep ==
  ASSUME LoopInv, NEW co \in Co, pc # "prepare",
         Blocked(co), ~Armed(co)', co \notin ToSet(waiters'),
         \/ PollTail(co) /\ wait[co] = "poll"
         \/ CondTail(co) /\ wait[co] = "cond",
         active' \in Seq(Co), Once(active'), ToSet(active') = ToSet(active) \ {co},
         callStack' = Append(callStack, co),
         UNCHANGED <<pc, lag, ready, result>>
  PROVE  LoopInv'
<1>1. /\ callStack' \in Seq(Co) /\ Once(callStack')
      /\ ToSet(callStack') = ToSet(callStack) \cup {co}
  <2>1. co \notin ToSet(callStack)
    BY DEF LoopInv, ControlInv, OnStack, Blocked
  <2> QED
    BY <2>1, AppendMembers DEF LoopInv, TypeOK, ControlInv
<1>2. /\ wait' = [wait EXCEPT ![co] = "none"]
      /\ bTimeout' = [bTimeout EXCEPT ![co] = FALSE]
  BY DEF PollTail, CondTail
<1>3. /\ \A x \in Co : wait'[x] = IF x = co THEN "none" ELSE wait[x]
      /\ \A x \in Co : bTimeout'[x] = IF x = co THEN FALSE ELSE bTimeout[x]
      /\ wait' \in [Co -> {"none", "poll", "cond"}] /\ bTimeout' \in [Co -> BOOLEAN]
  BY <1>2 DEF LoopInv, TypeOK
<1>4. /\ \A x \in Co : fds'[x] = IF x = co THEN {} ELSE fds[x]
      /\ \A x \in Co : revents'[x] = IF x = co THEN {} ELSE revents[x]
      /\ fds' \in [Co -> SUBSET Fd] /\ revents' \in [Co -> SUBSET Fd]
      /\ reg' \in [Fd -> Co \cup {NULL}]
  <2>1. CASE PollTail(co)
    BY <2>1 DEF PollTail, LoopInv, TypeOK
  <2>2. CASE CondTail(co) /\ wait[co] = "cond"
    <3>1. fds[co] = {} /\ revents[co] = {}
      BY <2>2 DEF LoopInv, PollInv
    <3> QED
      BY <2>2, <3>1 DEF CondTail, LoopInv, TypeOK
  <2> QED
    BY <2>1, <2>2
<1>5. /\ waiters' \in Seq(Co) /\ Once(waiters')
      /\ ToSet(waiters') = ToSet(waiters) \ {co}
  <2>1. waiters \in Seq(Co) /\ Once(waiters)
    BY DEF LoopInv, TypeOK, ResumesBlocked
  <2>2. CASE PollTail(co) /\ wait[co] = "poll"
    BY <2>1, <2>2 DEF PollTail, LoopInv, ResumesBlocked
  <2>3. CASE CondTail(co)
    BY <2>1, <2>3, RemoveFirstMembers DEF CondTail
  <2> QED
    BY <2>2, <2>3
<1>6. /\ DOMAIN wheel' = DOMAIN wheel \ {co}
      /\ wheel' \in [DOMAIN wheel' -> 0 .. iItemSize - 1]
  <2>1. CASE PollTail(co)
    BY <2>1, DisarmFacts DEF PollTail, LoopInv
  <2>2. CASE CondTail(co)
    <3>1. wheel' = wheel
      BY <2>2 DEF CondTail
    <3>2. co \notin DOMAIN wheel
      BY <3>1 DEF Armed
    <3>3. wheel \in [DOMAIN wheel -> 0 .. iItemSize - 1]
      BY DEF LoopInv, TypeOK
    <3>4. DOMAIN wheel \ {co} = DOMAIN wheel
      BY <3>2
    <3> QED
      BY <3>1, <3>3, <3>4
  <2> QED
    BY <2>1, <2>2
<1>7. TypeOK'
  BY <1>1, <1>3, <1>4, <1>5, <1>6 DEF LoopInv, TypeOK
<1>8. ControlInv'
  <2>1. result = {}
    BY DEF LoopInv, ControlInv
  <2> QED
    BY <1>1, <1>3, <2>1 DEF LoopInv, ControlInv, OnStack
<1>9. PollInv'
  BY <1>3, <1>4 DEF LoopInv, PollInv, Queued
<1>10. EventOrTimeout'
  BY <1>3, <1>4 DEF LoopInv, EventOrTimeout, Queued
<1>11. BlockedReachable'
  BY <1>3, <1>5, <1>6 DEF LoopInv, BlockedReachable, Armed, Queued
<1>12. ResumesBlocked'
  BY <1>1, <1>3, <1>5, <1>6 DEF LoopInv, ResumesBlocked, Armed, Queued, Blocked, OnStack
<1> QED
  BY <1>7, <1>8, <1>9, <1>10, <1>11, <1>12 DEF LoopInv

LEMMA InterruptStep ==
  ASSUME LoopInv, NEW co \in Co, ResumePolling(co)
  PROVE  LoopInv'
<1>1. /\ wait[co] = "poll" /\ PollTail(co) /\ pc # "prepare"
      /\ active' = RemoveFirst(active, co)
      /\ callStack' = Append(callStack, co)
      /\ UNCHANGED <<pc, lag, ready, result>>
  BY NotPreparing DEF ResumePolling
<1>2. active' \in Seq(Co) /\ Once(active') /\ ToSet(active') = ToSet(active) \ {co}
  BY <1>1, RemoveFirstMembers DEF LoopInv, TypeOK, ResumesBlocked
<1>3. co \notin ToSet(waiters')
  BY <1>1 DEF PollTail, LoopInv, ResumesBlocked
<1>4. ~Armed(co)'
  <2>1. DOMAIN wheel' = DOMAIN wheel \ {co}
    BY <1>1, DisarmFacts DEF PollTail, LoopInv
  <2> QED
    BY <2>1 DEF Armed
<1> QED
  BY <1>1, <1>2, <1>3, <1>4, ReturnStep DEF Blocked

LEMMA ProcessStep ==
  ASSUME LoopInv, Process
  PROVE  LoopInv'
<1>1. active # <<>> /\ active \in Seq(Co) /\ Once(active) /\ pc # "prepare"
  BY DEF Process, LoopInv, TypeOK, ResumesBlocked
<1>2. PICK co \in Co : co = Head(active) /\ co \in ToSet(active)
  BY <1>1, HeadMember
<1>3. /\ active' \in Seq(Co) /\ Once(active') /\ ToSet(active') = ToSet(active) \ {co}
  BY <1>1, <1>2, TailMembers, HeadMember DEF Process
<1>4. Blocked(co) /\ ~Armed(co)
  BY <1>2 DEF LoopInv, ResumesBlocked, Queued
<1>5. \/ PollTail(co) /\ wait[co] = "poll"
      \/ CondTail(co) /\ wait[co] = "cond"
  BY <1>2 DEF Process
<1>6. ~Armed(co)' /\ co \notin ToSet(waiters')
  <2>1. CASE PollTail(co) /\ wait[co] = "poll"
    <3>1. DOMAIN wheel' = DOMAIN wheel \ {co}
      BY <2>1, DisarmFacts DEF PollTail, LoopInv
    <3> QED
      BY <2>1, <3>1 DEF PollTail, LoopInv, ResumesBlocked, Armed
  <2>2. CASE CondTail(co)
    <3>1. ToSet(waiters') = ToSet(waiters) \ {co}
      BY <2>2, RemoveFirstMembers DEF CondTail, LoopInv, TypeOK, ResumesBlocked
    <3> QED
      BY <1>4, <2>2, <3>1 DEF CondTail, Armed
  <2> QED
    BY <1>5, <2>1, <2>2
<1> QED
  BY <1>1, <1>2, <1>3, <1>4, <1>5, <1>6, ReturnStep DEF Process

---------------------------------------------------------------------------
(* Waits that end: by an event, ...                                         *)
LEMMA PrepareStep ==
  ASSUME LoopInv, NEW fd \in Fd, OnPollPreparePfn(fd)
  PROVE  LoopInv'
<1>1. reg[fd] \in Co
  BY DEF OnPollPreparePfn, LoopInv, ControlInv
<1>2. PICK co \in Co : co = reg[fd]
  BY <1>1
<1>3. /\ pc = "prepare" /\ fd \in result /\ wait[co] = "poll" /\ callStack = <<>>
      /\ revents' = [revents EXCEPT ![co] = revents[co] \cup {fd}]
      /\ result' = result \ {fd}
      /\ IF revents[co] = {}
         THEN wheel' = Disarm({co}) /\ active' = Append(RemoveFirst(active, co), co)
         ELSE UNCHANGED <<wheel, active>>
      /\ UNCHANGED <<pc, callStack, wait, fds, bTimeout, lag, waiters, reg, ready>>
  BY <1>2 DEF OnPollPreparePfn, kernel, LoopInv, ControlInv
<1>4. /\ \A x \in Co : revents'[x] = IF x = co THEN revents[co] \cup {fd} ELSE revents[x]
      /\ revents' \in [Co -> SUBSET Fd]
  BY <1>3 DEF LoopInv, TypeOK
<1>5. ~bTimeout[co]
  BY <1>3 DEF LoopInv, PollInv
<1>6. /\ DOMAIN wheel' = DOMAIN wheel \ {co}
      /\ wheel' \in [DOMAIN wheel' -> 0 .. iItemSize - 1]
  <2>1. CASE revents[co] = {}
    <3>1. wheel' = Disarm({co})
      BY <1>3, <2>1
    <3>2. TypeOK
      BY DEF LoopInv
    <3> QED
      BY <3>1, <3>2, DisarmFacts
  <2>2. CASE revents[co] # {}
    <3>1. ~Armed(co)
      BY <2>2 DEF LoopInv, PollInv, ResumesBlocked
    <3> QED
      BY <1>3, <2>2, <3>1 DEF LoopInv, TypeOK, Armed
  <2> QED
    BY <2>1, <2>2
<1>7. /\ active' \in Seq(Co) /\ Once(active')
      /\ ToSet(active') = ToSet(active) \cup {co}
  <2>1. active \in Seq(Co) /\ Once(active)
    BY DEF LoopInv, TypeOK, ResumesBlocked
  <2>2. CASE revents[co] = {}
    <3>1. /\ RemoveFirst(active, co) \in Seq(Co) /\ Once(RemoveFirst(active, co))
          /\ ToSet(RemoveFirst(active, co)) = ToSet(active) \ {co}
      BY <2>1, RemoveFirstMembers
    <3>2. co \notin ToSet(RemoveFirst(active, co))
      BY <3>1
    <3>3. /\ ToSet(Append(RemoveFirst(active, co), co))
                = ToSet(RemoveFirst(active, co)) \cup {co}
          /\ Once(Append(RemoveFirst(active, co), co))
      BY <3>1, <3>2, AppendMembers
    <3>4. active' = Append(RemoveFirst(active, co), co)
      BY <1>3, <2>2
    <3>5. active' \in Seq(Co)
      BY <3>1, <3>4
    <3> QED
      BY <3>1, <3>3, <3>4, <3>5
  <2>3. CASE revents[co] # {}
    BY <1>3, <2>1, <2>3 DEF LoopInv, PollInv, Queued
  <2> QED
    BY <2>2, <2>3
<1>8. TypeOK'
  BY <1>3, <1>4, <1>6, <1>7 DEF LoopInv, TypeOK
<1>9. ControlInv'
  BY <1>3 DEF LoopInv, ControlInv, OnStack
<1>10. PollInv' /\ EventOrTimeout'
  BY <1>3, <1>4, <1>5, <1>7 DEF LoopInv, PollInv, EventOrTimeout, Queued
<1>11. BlockedReachable'
  BY <1>3, <1>6, <1>7 DEF LoopInv, BlockedReachable, Armed, Queued
<1>12. ResumesBlocked'
  BY <1>3, <1>6, <1>7, EmptyOnce
  DEF LoopInv, ControlInv, ResumesBlocked, Armed, Queued, Blocked, OnStack
<1> QED
  BY <1>8, <1>9, <1>10, <1>11, <1>12 DEF LoopInv

(* ... or by the clock. *)
LEMMA TakeStep ==
  ASSUME LoopInv, TakeAllTimeout
  PROVE  LoopInv'
<1>1. /\ pc = "prepare" /\ result = {} /\ pc' = "drain" /\ callStack = <<>>
      /\ UNCHANGED <<callStack, wait, fds, revents, waiters, reg, ready, result>>
  BY DEF TakeAllTimeout, kernel, LoopInv, ControlInv
<1>2. ToSet(callStack) = {}
  BY <1>1, EmptyOnce
<1>3. CASE lag < 0
  <2>1. UNCHANGED <<wheel, lag, bTimeout, active>>
    BY <1>3 DEF TakeAllTimeout
  <2>2. TypeOK' /\ ControlInv' /\ PollInv'
    BY <1>1, <2>1 DEF LoopInv, TypeOK, ControlInv, PollInv, OnStack, Queued
  <2>3. ResumesBlocked' /\ BlockedReachable' /\ EventOrTimeout'
    BY <1>1, <2>1
    DEF LoopInv, ResumesBlocked, BlockedReachable, EventOrTimeout, Armed, Queued, Blocked
  <2> QED
    BY <2>2, <2>3 DEF LoopInv
<1>4. CASE ~(lag < 0)
  <2>1. PICK s \in SeqOf(Expired, Cardinality(Expired)) :
          Once(s) /\ ToSet(s) = Expired /\ active' = active \o s
    BY <1>4 DEF TakeAllTimeout, InOrder
  <2>2. /\ bTimeout' = [co \in Co |-> bTimeout[co] \/ co \in Expired]
        /\ wheel' = [co \in Later |-> wheel[co] - lag]
        /\ lag' = 0
    BY <1>4 DEF TakeAllTimeout
  <2>3. /\ Expired \subseteq Co /\ Expired \subseteq DOMAIN wheel
        /\ DOMAIN wheel' = DOMAIN wheel \ Expired
    BY <2>2 DEF LoopInv, TypeOK, Expired, Later
  <2>4. wheel' \in [DOMAIN wheel' -> 0 .. iItemSize - 1]
    <3>1. \A co \in Later : wheel[co] - lag \in 0 .. iItemSize - 1
      BY <1>4, TimeAssumption DEF LoopInv, TypeOK, Later, Expired
    <3> QED
      BY <2>2, <3>1
  <2>5. s \in Seq(Co)
    <3>1. PICK m \in 0 .. Cardinality(Expired) : s \in [1 .. m -> Expired]
      BY DEF SeqOf
    <3> QED
      BY <2>3, <3>1
  <2>6. \A co \in Co : co \in Expired => ~Queued(co) /\ Armed(co)
    BY <2>3 DEF LoopInv, ResumesBlocked, Armed
  <2>7. /\ active' \in Seq(Co) /\ Once(active')
        /\ ToSet(active') = ToSet(active) \cup Expired
    <3>1. active \in Seq(Co) /\ Once(active)
      BY DEF LoopInv, TypeOK, ResumesBlocked
    <3>2. ToSet(active) \cap ToSet(s) = {}
      BY <2>1, <2>3, <2>6 DEF Queued
    <3>3. Once(active \o s) /\ ToSet(active \o s) = ToSet(active) \cup ToSet(s)
      BY <2>1, <2>5, <3>1, <3>2, ConcatMembers
    <3> QED
      BY <2>1, <2>5, <3>1, <3>3
  <2>8. /\ bTimeout' \in [Co -> BOOLEAN]
        /\ \A co \in Co : bTimeout'[co] <=> bTimeout[co] \/ co \in Expired
    BY <2>2 DEF LoopInv, TypeOK
  <2>9. TypeOK'
    BY <1>1, <2>2, <2>3, <2>4, <2>7, <2>8 DEF LoopInv, TypeOK
  <2>10. ControlInv'
    BY <1>1 DEF LoopInv, ControlInv, OnStack
  <2>11. PollInv'
    BY <1>1, <2>6, <2>7, <2>8 DEF LoopInv, PollInv, Queued
  <2>12. EventOrTimeout'
    BY <1>1, <2>6, <2>7, <2>8 DEF LoopInv, PollInv, EventOrTimeout, Queued
  <2>13. BlockedReachable'
    BY <1>1, <2>3, <2>6, <2>7 DEF LoopInv, BlockedReachable, Armed, Queued
  <2>14. ResumesBlocked'
    BY <1>1, <1>2, <2>3, <2>6, <2>7
    DEF LoopInv, ResumesBlocked, Armed, Queued, Blocked
  <2> QED
    BY <2>9, <2>10, <2>11, <2>12, <2>13, <2>14 DEF LoopInv
<1> QED
  BY <1>3, <1>4

---------------------------------------------------------------------------
LEMMA NextStep == LoopInv /\ [Next]_vars => LoopInv'
<1> SUFFICES ASSUME LoopInv, [Next]_vars PROVE LoopInv'
  OBVIOUS
<1>1. CASE \/ Tick \/ SetBack \/ co_epoll_wait \/ Drained
           \/ \E fd \in Fd : \/ Arrive(fd)
                             \/ \E co \in Co : Consume(co, fd) \/ Close(co, fd)
  BY <1>1, KernelStep
<1>2. ASSUME NEW fd \in Fd, OnPollPreparePfn(fd) PROVE LoopInv'
  BY <1>2, PrepareStep
<1>3. ASSUME NEW co \in Co, Block(co) PROVE LoopInv'
  <2>1. ASSUME NEW F \in SUBSET Fd, NEW ms \in Timeout, co_poll_inner(co, F, ms)
        PROVE  LoopInv'
    BY <2>1, PollStep
  <2>2. ASSUME NEW ms \in Timeout, co_cond_timedwait(co, ms) PROVE LoopInv'
    BY <2>2, WaitStep
  <2>3. CASE co_yield_ct(co)
    <3>1. co = Last(callStack)
      BY <2>3, CoAssumption DEF co_yield_ct, Runs, Running
    <3> QED
      BY <2>3, <3>1, YieldStep
  <2> QED
    BY <1>3, <2>1, <2>2, <2>3 DEF Block
<1>4. ASSUME NEW co \in Co, co_resume(co) \/ ResumePolling(co) PROVE LoopInv'
  BY <1>4, ResumeStep, InterruptStep
<1>5. ASSUME NEW r \in Co \cup {Main}, co_cond_signal(r) \/ co_cond_broadcast(r)
      PROVE  LoopInv'
  BY <1>5, SignalStep, BroadcastStep
<1>6. CASE TakeAllTimeout
  BY <1>6, TakeStep
<1>7. CASE Process
  BY <1>7, ProcessStep
<1>8. CASE UNCHANGED vars
  <2>1. TypeOK'
    BY <1>8 DEF vars, items, kernel, LoopInv, TypeOK
  <2> QED
    BY <1>8, <2>1, QuietStep DEF vars, items, kernel
<1> QED
  BY <1>1, <1>2, <1>3, <1>4, <1>5, <1>6, <1>7, <1>8 DEF Next

LEMMA Invariance == Spec => []LoopInv
<1>1. Init => LoopInv
  BY InitInv
<1> QED
  BY <1>1, NextStep, PTL DEF Spec

(* The lists, tables and fields of co_eventloop and its items keep their    *)
(* types.                                                                   *)
THEOREM TypeCorrect == Spec => []TypeOK
<1>1. LoopInv => TypeOK
  BY DEF LoopInv
<1> QED
  BY <1>1, Invariance, PTL

(* The event loop and the condition variables resume only coroutines that   *)
(* wait for it, each once (OnPollProcessEvent, OnSignalProcessEvent).       *)
THEOREM ResumesCorrect == Spec => []ResumesBlocked
<1>1. LoopInv => ResumesBlocked
  BY DEF LoopInv
<1> QED
  BY <1>1, Invariance, PTL

(* No blocked coroutine drops out of every list, whatever the order of      *)
(* events, timeouts, signals and resumes.                                   *)
THEOREM NobodyForgotten == Spec => []BlockedReachable
<1>1. LoopInv => BlockedReachable
  BY DEF LoopInv
<1> QED
  BY <1>1, Invariance, PTL

(* A poll is taken by its events or by its timeout, never by both           *)
(* (OnPollPreparePfn and TakeAllTimeout).                                   *)
THEOREM EventsOrTimeout == Spec => []EventOrTimeout
<1>1. LoopInv => EventOrTimeout
  BY DEF LoopInv
<1> QED
  BY <1>1, Invariance, PTL

---------------------------------------------------------------------------
(* epoll's table, when AddTimeout refuses no poll.                          *)
LEMMA EntryQuiet ==
  ASSUME EntryInv, LagInv',
         UNCHANGED <<fds, reg>>,
         \A co \in Co : wait[co] = "poll" => wait'[co] = "poll",
         reg \in [Fd -> Co \cup {NULL}]
  PROVE  EntryInv'
BY DEF EntryInv, EntriesOwned, PollWatches

LEMMA EntryPoll ==
  ASSUME NoneRefused, LoopInv, EntryInv,
         NEW co \in Co, NEW F \in SUBSET Fd, NEW ms \in Timeout,
         co_poll_inner(co, F, ms)
  PROVE  EntryInv'
<1>1. wait[co] = "none" /\ fds[co] = {}
  BY RunsFacts DEF co_poll_inner
<1>2. CASE Refused(Cap(ms))
  <2>1. F \subseteq NoEpoll
    BY <1>2, TimeAssumption, ProgramAssumption
    DEF co_poll_inner, NoneRefused, EntryInv, LagInv, Refused, Cap
  <2>2. reg \in [Fd -> Co \cup {NULL}]
    BY DEF LoopInv, TypeOK
  <2>3. reg' = [fd \in Fd |-> reg[fd]]
    BY <2>1 DEF co_poll_inner
  <2>4. UNCHANGED <<fds, wait, reg, lag>>
    BY <1>2, <2>2, <2>3 DEF co_poll_inner
  <2> QED
    BY <2>2, <2>4, EntryQuiet DEF EntryInv, LagInv
<1> SUFFICES ASSUME ~Refused(Cap(ms)) PROVE EntryInv'
  BY <1>2
<1>3. /\ Exclusive => \A x \in Co : F \cap fds[x] = {}
      /\ reg' = [fd \in Fd |-> IF fd \in F \ NoEpoll /\ reg[fd] = NULL THEN co
                               ELSE reg[fd]]
      /\ wait' = [wait EXCEPT ![co] = "poll"] /\ fds' = [fds EXCEPT ![co] = F]
      /\ lag' = lag
  BY DEF co_poll_inner
<1>4. \A x \in Co : /\ wait'[x] = IF x = co THEN "poll" ELSE wait[x]
                    /\ fds'[x] = IF x = co THEN F ELSE fds[x]
  BY <1>3 DEF LoopInv, TypeOK
<1>5. \A fd \in Fd : reg'[fd] = IF fd \in F \ NoEpoll /\ reg[fd] = NULL THEN co
                                ELSE reg[fd]
  BY <1>3
<1>6. \A fd \in Fd : reg[fd] # NULL => /\ reg[fd] \in Co /\ reg[fd] # co
                                       /\ wait[reg[fd]] = "poll" /\ fd \in fds[reg[fd]]
  BY <1>1 DEF LoopInv, TypeOK, EntryInv, EntriesOwned
<1>7. EntriesOwned'
  <2> SUFFICES ASSUME NEW fd \in Fd, reg'[fd] # NULL
               PROVE  wait'[reg'[fd]] = "poll" /\ fd \in fds'[reg'[fd]]
    BY DEF EntriesOwned
  <2>1. CASE fd \in F \ NoEpoll /\ reg[fd] = NULL
    BY <1>4, <1>5, <2>1
  <2>2. CASE ~(fd \in F \ NoEpoll /\ reg[fd] = NULL)
    <3>1. reg'[fd] = reg[fd]
      BY <1>5, <2>2
    <3> QED
      BY <1>4, <1>6, <3>1
  <2> QED
    BY <2>1, <2>2
<1>8. PollWatches'
  <2> SUFFICES ASSUME Exclusive, NEW x \in Co, NEW fd \in fds'[x] \ NoEpoll
               PROVE  reg'[fd] = x
    BY DEF PollWatches
  <2>1. CASE x = co
    <3>1. fd \in F \ NoEpoll /\ fd \in Fd
      BY <1>4, <2>1
    <3>2. reg[fd] = NULL
      BY <1>3, <1>6, <3>1
    <3> QED
      BY <1>5, <2>1, <3>1, <3>2
  <2>2. CASE x # co
    <3>1. fd \in fds[x] \ NoEpoll /\ fd \in Fd
      BY <1>4, <2>2 DEF LoopInv, TypeOK
    <3>2. reg[fd] = x
      BY <3>1 DEF EntryInv, PollWatches
    <3> QED
      BY <1>5, <3>1, <3>2, CoAssumption
  <2> QED
    BY <2>1, <2>2
<1> QED
  BY <1>3, <1>7, <1>8 DEF EntryInv, LagInv

LEMMA EntryPollTail ==
  ASSUME LoopInv, EntryInv, NEW co \in Co, PollTail(co), lag' = lag
  PROVE  EntryInv'
<1>1. /\ reg' = [fd \in Fd |-> IF fd \in fds[co] THEN NULL ELSE reg[fd]]
      /\ fds' = [fds EXCEPT ![co] = {}] /\ wait' = [wait EXCEPT ![co] = "none"]
  BY DEF PollTail
<1>2. \A x \in Co : /\ wait'[x] = IF x = co THEN "none" ELSE wait[x]
                    /\ fds'[x] = IF x = co THEN {} ELSE fds[x]
  BY <1>1 DEF LoopInv, TypeOK
<1>3. \A fd \in Fd : reg'[fd] = IF fd \in fds[co] THEN NULL ELSE reg[fd]
  BY <1>1
<1>4. \A fd \in Fd : reg[fd] # NULL => /\ reg[fd] \in Co
                                       /\ wait[reg[fd]] = "poll" /\ fd \in fds[reg[fd]]
  BY DEF LoopInv, TypeOK, EntryInv, EntriesOwned
<1>5. EntriesOwned'
  <2> SUFFICES ASSUME NEW fd \in Fd, reg'[fd] # NULL
               PROVE  wait'[reg'[fd]] = "poll" /\ fd \in fds'[reg'[fd]]
    BY DEF EntriesOwned
  <2>1. reg'[fd] = reg[fd] /\ fd \notin fds[co]
    BY <1>3
  <2> QED
    BY <1>2, <1>4, <2>1
<1>6. PollWatches'
  <2> SUFFICES ASSUME Exclusive, NEW x \in Co, NEW fd \in fds'[x] \ NoEpoll
               PROVE  reg'[fd] = x
    BY DEF PollWatches
  <2>1. x # co /\ fd \in fds[x] \ NoEpoll /\ fd \in Fd
    BY <1>2 DEF LoopInv, TypeOK
  <2>2. reg[fd] = x /\ fd \notin fds[co]
    BY <2>1 DEF EntryInv, PollWatches
  <2> QED
    BY <1>3, <2>1, <2>2
<1> QED
  BY <1>5, <1>6 DEF EntryInv, LagInv

LEMMA EntryStep ==
  ASSUME NoneRefused, LoopInv, EntryInv, [Next]_vars
  PROVE  EntryInv'
<1>1. reg \in [Fd -> Co \cup {NULL}] /\ LagInv
  BY DEF LoopInv, TypeOK, EntryInv
<1>2. CASE Tick \/ SetBack \/ co_epoll_wait \/ TakeAllTimeout \/ Drained \/ UNCHANGED vars
  <2>1. LagInv'
    BY <1>2, TimeAssumption DEF EntryInv, Tick, SetBack, co_epoll_wait, TakeAllTimeout,
       Drained, LagInv, vars
  <2>2. UNCHANGED <<fds, wait, reg>>
    BY <1>2 DEF Tick, SetBack, co_epoll_wait, TakeAllTimeout, Drained, vars, items, kernel
  <2> QED
    BY <1>1, <2>1, <2>2, EntryQuiet
<1>3. ASSUME NEW fd \in Fd, Arrive(fd) \/ OnPollPreparePfn(fd) PROVE EntryInv'
  <2>1. UNCHANGED <<fds, wait, reg, lag>>
    BY <1>3 DEF Arrive, OnPollPreparePfn, items, kernel
  <2> QED
    BY <1>1, <2>1, EntryQuiet DEF LagInv
<1>4. ASSUME NEW co \in Co, NEW fd \in Fd, Consume(co, fd) PROVE EntryInv'
  <2>1. UNCHANGED <<fds, wait, reg, lag>>
    BY <1>4 DEF Consume, items
  <2> QED
    BY <1>1, <2>1, EntryQuiet DEF LagInv
<1>5. ASSUME NEW co \in Co, NEW fd \in Fd, Close(co, fd) PROVE EntryInv'
  <2>1. /\ UNCHANGED <<fds, wait, lag>> /\ reg' = [reg EXCEPT ![fd] = NULL]
        /\ Exclusive => \A x \in Co : fd \notin fds[x]
    BY <1>5 DEF Close, items
  <2>2. \A f \in Fd : reg'[f] = IF f = fd THEN NULL ELSE reg[f]
    BY <1>1, <2>1
  <2>3. EntriesOwned'
    BY <2>1, <2>2 DEF EntryInv, EntriesOwned
  <2>4. PollWatches'
    <3> SUFFICES ASSUME Exclusive, NEW x \in Co, NEW f \in fds[x] \ NoEpoll
                 PROVE  reg'[f] = x
      BY <2>1 DEF PollWatches
    <3>1. f # fd /\ f \in Fd /\ reg[f] = x
      BY <2>1 DEF LoopInv, TypeOK, EntryInv, PollWatches
    <3> QED
      BY <2>2, <3>1
  <2> QED
    BY <1>1, <2>1, <2>3, <2>4 DEF EntryInv, LagInv
<1>6. ASSUME NEW co \in Co, Block(co) PROVE EntryInv'
  <2>1. ASSUME NEW F \in SUBSET Fd, NEW ms \in Timeout, co_poll_inner(co, F, ms)
        PROVE  EntryInv'
    BY <2>1, EntryPoll
  <2>2. ASSUME NEW ms \in Timeout, co_cond_timedwait(co, ms) PROVE EntryInv'
    <3>1. wait[co] = "none" /\ wait' = [wait EXCEPT ![co] = "cond"]
          /\ UNCHANGED <<fds, reg, lag>>
      BY <2>2, RunsFacts DEF co_cond_timedwait, kernel
    <3>2. \A x \in Co : wait[x] = "poll" => wait'[x] = "poll"
      BY <3>1 DEF LoopInv, TypeOK
    <3> QED
      BY <1>1, <3>1, <3>2, EntryQuiet DEF LagInv
  <2>3. CASE co_yield_ct(co)
    <3>1. UNCHANGED <<fds, wait, reg, lag>>
      BY <2>3 DEF co_yield_ct, items, kernel
    <3> QED
      BY <1>1, <3>1, EntryQuiet DEF LagInv
  <2> QED
    BY <1>6, <2>1, <2>2, <2>3 DEF Block
<1>7. ASSUME NEW co \in Co, co_resume(co) PROVE EntryInv'
  <2>1. UNCHANGED <<fds, wait, reg, lag>>
    BY <1>7 DEF co_resume, items, kernel
  <2> QED
    BY <1>1, <2>1, EntryQuiet DEF LagInv
<1>8. ASSUME NEW co \in Co, ResumePolling(co) PROVE EntryInv'
  BY <1>8, EntryPollTail DEF ResumePolling
<1>9. ASSUME NEW r \in Co \cup {Main}, co_cond_signal(r) \/ co_cond_broadcast(r)
      PROVE  EntryInv'
  <2>1. UNCHANGED <<fds, wait, reg, lag>>
    BY <1>9 DEF co_cond_signal, co_cond_broadcast, items, kernel
  <2> QED
    BY <1>1, <2>1, EntryQuiet DEF LagInv
<1>10. CASE Process
  <2>1. active # <<>> /\ active \in Seq(Co) /\ lag' = lag
    BY <1>10 DEF Process, LoopInv, TypeOK
  <2>2. PICK co \in Co : co = Head(active)
    BY <2>1, HeadMember
  <2>3. CASE PollTail(co)
    BY <2>1, <2>3, EntryPollTail
  <2>4. CASE CondTail(co) /\ wait[co] = "cond"
    <3>1. wait' = [wait EXCEPT ![co] = "none"] /\ UNCHANGED <<fds, reg>>
      BY <2>4 DEF CondTail
    <3>2. \A x \in Co : wait[x] = "poll" => wait'[x] = "poll"
      BY <2>4, <3>1 DEF LoopInv, TypeOK
    <3> QED
      BY <1>1, <2>1, <3>1, <3>2, EntryQuiet DEF LagInv
  <2> QED
    BY <1>10, <2>2, <2>3, <2>4 DEF Process
<1> QED
  BY <1>2, <1>3, <1>4, <1>5, <1>6, <1>7, <1>8, <1>9, <1>10 DEF Next

LEMMA EntryInvariance ==
  ASSUME NoneRefused
  PROVE  Spec => []EntryInv
<1>1. Init => EntryInv
  BY TimeAssumption DEF Init, EntryInv, LagInv, EntriesOwned, PollWatches
<1>2. LoopInv /\ EntryInv /\ [Next]_vars => EntryInv'
  BY EntryStep
<1> QED
  BY <1>1, <1>2, Invariance, PTL DEF Spec

(* When no such poll is refused, epoll holds pointers to polls in progress  *)
(* only: the deletions at the end of co_poll_inner suffice.                 *)
THEOREM EntriesCorrect ==
  ASSUME NoneRefused
  PROVE  Spec => []EntriesOwned
<1>1. EntryInv => EntriesOwned
  BY DEF EntryInv
<1> QED
  BY <1>1, EntryInvariance, PTL

(* And if coroutines share no descriptor, every poll watches all of its own *)
(* until it returns: no other poll's deletions hit them.                    *)
THEOREM PollsWatch ==
  ASSUME NoneRefused
  PROVE  Spec => []PollWatches
<1>1. EntryInv => PollWatches
  BY DEF EntryInv
<1> QED
  BY <1>1, EntryInvariance, PTL
===========================================================================
