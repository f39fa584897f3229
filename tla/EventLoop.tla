----------------------------- MODULE EventLoop -----------------------------
(***************************************************************************)
(* The event loop of a libco thread and the coroutines that block in it:   *)
(* co_eventloop, co_poll_inner, OnPollPreparePfn, co_cond_timedwait,       *)
(* co_cond_signal and co_cond_broadcast of co_routine.cpp.                 *)
(*                                                                         *)
(* A coroutine blocks in one call at a time, so its stPoll_t or            *)
(* stCoCondItem_t is named by the coroutine.  The timer wheel is the timer *)
(* queue that TimeoutWheel is proved to implement; as the code compares    *)
(* instants only with ullStart, the clock and the expiries are kept        *)
(* relative to it.                                                         *)
(*                                                                         *)
(* The kernel's epoll is level-triggered and keeps one entry per           *)
(* descriptor.  Coroutines run until they block, so the only interleaving  *)
(* is with the kernel: data arrive and the clock moves between any two     *)
(* steps.                                                                  *)
(***************************************************************************)
EXTENDS Lists, FiniteSets, FiniteSetsExt, Functions

CONSTANTS Co,           \* coroutines
          Main,         \* the thread's own code: before the loop, and its pfn
          NULL,
          Fd,           \* descriptors
          NoEpoll,      \* those that epoll_ctl refuses with EPERM
          Timeout,      \* milliseconds the callers ask for
          eMaxTimeout,  \* longest timeout of a poll (40 * 1000)
          iItemSize,    \* span of the timer wheel (60 * 1000)
          EpollSize,    \* events one co_epoll_wait returns (_EPOLL_SIZE)
          MaxLag,       \* how late a turn of the loop may be, in milliseconds
          ClockSteps,   \* whether the wall clock may be set back
          PollsRefused, \* whether descriptors are polled while AddTimeout refuses
          Signallers,   \* who signals the condition variable
          Interrupt,    \* whether coroutines resume others blocked in co_poll
          Exclusive     \* whether a descriptor belongs to one coroutine at a time

ASSUME CoAssumption == Main \notin Co /\ NULL \notin Co
ASSUME TimeAssumption == /\ Timeout \subseteq Int
                         /\ eMaxTimeout \in Nat /\ iItemSize \in Nat \ {0}
                         /\ MaxLag \in Nat
ASSUME KernelAssumption == NoEpoll \subseteq Fd /\ EpollSize \in Nat \ {0}
ASSUME ProgramAssumption == /\ Signallers \subseteq Co \cup {Main}
                            /\ ClockSteps \in BOOLEAN /\ PollsRefused \in BOOLEAN
                            /\ Interrupt \in BOOLEAN /\ Exclusive \in BOOLEAN

VARIABLES pc,         \* of co_eventloop: "main" (outside, or in pfn), "prepare", "drain"
          callStack,  \* coroutines resumed and not yet suspended
          wait,       \* [Co -> the call it is blocked in]
          fds,        \* [Co -> descriptors of its co_poll]
          revents,    \* [Co -> those reported to it]
          bTimeout,   \* [Co -> BOOLEAN]
          wheel,      \* armed timer items: [their owners -> expiry - ullStart]
          lag,        \* clock - ullStart
          active,     \* pstActiveList
          waiters,    \* list of the stCoCond_t
          reg,        \* epoll's entries: [Fd -> the coroutine in data.ptr, or NULL]
          ready,      \* descriptors with something to report
          result      \* events of the last co_epoll_wait not yet prepared

items  == <<wait, fds, revents, bTimeout>>
kernel == <<reg, ready>>
vars   == <<pc, callStack, items, wheel, lag, active, waiters, kernel, result>>

(* The types; in particular every armed item expires within one turn of the *)
(* wheel.                                                                   *)
TypeOK ==
  /\ pc \in {"main", "prepare", "drain"}
  /\ callStack \in Seq(Co)
  /\ wait \in [Co -> {"none", "poll", "cond"}]
  /\ fds \in [Co -> SUBSET Fd] /\ revents \in [Co -> SUBSET Fd]
  /\ bTimeout \in [Co -> BOOLEAN]
  /\ DOMAIN wheel \subseteq Co /\ wheel \in [DOMAIN wheel -> 0 .. iItemSize - 1]
  /\ lag \in Int
  /\ active \in Seq(Co) /\ waiters \in Seq(Co)
  /\ reg \in [Fd -> Co \cup {NULL}]
  /\ ready \subseteq Fd /\ result \subseteq Fd

Init == /\ pc = "main"
        /\ callStack = <<>>
        /\ wait = [co \in Co |-> "none"]
        /\ fds = [co \in Co |-> {}] /\ revents = [co \in Co |-> {}]
        /\ bTimeout = [co \in Co |-> FALSE]
        /\ wheel = [co \in {} |-> 0]
        /\ lag = 0
        /\ active = <<>> /\ waiters = <<>>
        /\ reg = [fd \in Fd |-> NULL]
        /\ ready = {} /\ result = {}

---------------------------------------------------------------------------
(* The kernel. *)
Tick == /\ lag < MaxLag
        /\ lag' = lag + 1
        /\ UNCHANGED <<pc, callStack, items, wheel, active, waiters, kernel, result>>

SetBack == /\ ClockSteps
           /\ lag' = -1
           /\ UNCHANGED <<pc, callStack, items, wheel, active, waiters, kernel, result>>

Arrive(fd) == /\ ready' = ready \cup {fd}
              /\ UNCHANGED <<pc, callStack, items, wheel, lag, active, waiters, reg,
                             result>>

(* Who runs: the last coroutine resumed, or the thread's own code. *)
Running == IF callStack = <<>> THEN Main ELSE Last(callStack)
Runs(r) == r = Running /\ (r = Main => pc = "main")

(* A running coroutine reads everything a descriptor had, or closes it.     *)
Consume(co, fd) ==
  /\ Runs(co) /\ fd \in ready
  /\ ready' = ready \ {fd}
  /\ UNCHANGED <<pc, callStack, items, wheel, lag, active, waiters, reg, result>>

Close(co, fd) ==
  /\ Runs(co)
  /\ Exclusive => \A x \in Co : fd \notin fds[x]
  /\ ready' = ready \ {fd}
  /\ reg' = [reg EXCEPT ![fd] = NULL]
  /\ UNCHANGED <<pc, callStack, items, wheel, lag, active, waiters, result>>

---------------------------------------------------------------------------
(* AddTimeout and RemoveFromLink, on the timer queue the wheel implements. *)
Refused(ms)  == lag < 0 \/ ms < 0 \/ lag + ms >= iItemSize
Arm(co, ms)  == [x \in DOMAIN wheel \cup {co} |-> IF x = co THEN lag + ms ELSE wheel[x]]
Disarm(S)    == Restrict(wheel, DOMAIN wheel \ S)

Cap(ms) == IF ms > eMaxTimeout THEN eMaxTimeout ELSE ms

(* co_poll_inner up to its yield.  EPOLL_CTL_ADD fails for a descriptor     *)
(* that is already in epoll's table, and the code goes on: "if fail, the    *)
(* timeout would work".  When AddTimeout refuses, the stPoll_t is freed.    *)
(* The entries it had added stay, so PollsRefused says whether the program  *)
(* has such polls.  A descriptor that epoll refuses makes no entry; a poll  *)
(* of it alone waits for its timeout if pollfunc is NULL, as in co_poll,    *)
(* and is else the system's poll, which changes nothing here.               *)
co_poll_inner(co, F, ms) ==
  /\ Runs(co)
  /\ Exclusive => \A x \in Co : F \cap fds[x] = {}
  /\ Refused(Cap(ms)) => PollsRefused \/ F \subseteq NoEpoll
  /\ reg' = [fd \in Fd |-> IF fd \in F \ NoEpoll /\ reg[fd] = NULL THEN co ELSE reg[fd]]
  /\ IF Refused(Cap(ms))
     THEN UNCHANGED <<callStack, wait, fds, wheel>>
     ELSE /\ wheel' = Arm(co, Cap(ms))
          /\ wait' = [wait EXCEPT ![co] = "poll"]
          /\ fds' = [fds EXCEPT ![co] = F]
          /\ callStack' = Front(callStack)
  /\ UNCHANGED <<pc, revents, bTimeout, lag, active, waiters, ready, result>>

(* Fault: only the entries that reported are deleted from epoll. *)
PollTailReported(co) ==
  /\ wheel' = Disarm({co})
  /\ reg' = [fd \in Fd |-> IF fd \in revents[co] THEN NULL ELSE reg[fd]]
  /\ fds' = [fds EXCEPT ![co] = {}]
  /\ revents' = [revents EXCEPT ![co] = {}]
  /\ bTimeout' = [bTimeout EXCEPT ![co] = FALSE]
  /\ wait' = [wait EXCEPT ![co] = "none"]
  /\ UNCHANGED waiters

(* The rest of co_poll_inner: every trace of the poll goes.  The entry is   *)
(* deleted by descriptor, whoever added it.                                 *)
PollTail(co) ==
  /\ wheel' = Disarm({co})
  /\ reg' = [fd \in Fd |-> IF fd \in fds[co] THEN NULL ELSE reg[fd]]
  /\ fds' = [fds EXCEPT ![co] = {}]
  /\ revents' = [revents EXCEPT ![co] = {}]
  /\ bTimeout' = [bTimeout EXCEPT ![co] = FALSE]
  /\ wait' = [wait EXCEPT ![co] = "none"]
  /\ UNCHANGED waiters

(* co_cond_timedwait: a timeout of 0 or less is none at all.  A refused     *)
(* AddTimeout makes it return at once.                                      *)
co_cond_timedwait(co, ms) ==
  /\ Runs(co)
  /\ ms > 0 => ~Refused(ms)
  /\ wheel' = IF ms > 0 THEN Arm(co, ms) ELSE wheel
  /\ waiters' = Append(waiters, co)
  /\ wait' = [wait EXCEPT ![co] = "cond"]
  /\ callStack' = Front(callStack)
  /\ UNCHANGED <<pc, fds, revents, bTimeout, lag, active, kernel, result>>

(* Fault: it takes the first waiter off the condition, itself or not. *)
CondTailPops(co) ==
  /\ waiters' = IF waiters = <<>> THEN <<>> ELSE Tail(waiters)
  /\ bTimeout' = [bTimeout EXCEPT ![co] = FALSE]
  /\ wait' = [wait EXCEPT ![co] = "none"]
  /\ UNCHANGED <<wheel, reg, fds, revents>>

(* Its rest unlinks the waiter from the condition only. *)
CondTail(co) ==
  /\ waiters' = RemoveFirst(waiters, co)
  /\ bTimeout' = [bTimeout EXCEPT ![co] = FALSE]
  /\ wait' = [wait EXCEPT ![co] = "none"]
  /\ UNCHANGED <<wheel, reg, fds, revents>>

(* Fault: the waiter stays where its timeout has put it in the active list. *)
co_cond_signal_twice(r) ==
  /\ r \in Signallers /\ Runs(r)
  /\ waiters # <<>>
  /\ wheel' = Disarm({Head(waiters)})
  /\ active' = Append(active, Head(waiters))
  /\ waiters' = Tail(waiters)
  /\ UNCHANGED <<pc, callStack, items, lag, kernel, result>>

(* co_cond_signal: the first waiter leaves the wheel, or the place it has   *)
(* in the active list, for the end of the active list.                      *)
co_cond_signal(r) ==
  /\ r \in Signallers /\ Runs(r)
  /\ waiters # <<>>
  /\ LET co == Head(waiters) IN
       /\ wheel' = Disarm({co})
       /\ active' = Append(RemoveFirst(active, co), co)
  /\ waiters' = Tail(waiters)
  /\ UNCHANGED <<pc, callStack, items, lag, kernel, result>>

(* co_cond_broadcast does so with every waiter in turn. *)
co_cond_broadcast(r) ==
  /\ r \in Signallers /\ Runs(r)
  /\ waiters # <<>>
  /\ wheel' = Disarm(ToSet(waiters))
  /\ \E s \in SeqOf(ToSet(active) \ ToSet(waiters), Len(active)) :
       /\ Keeps(s, active, ToSet(waiters))
       /\ active' = s \o waiters
  /\ waiters' = <<>>
  /\ UNCHANGED <<pc, callStack, items, lag, kernel, result>>

---------------------------------------------------------------------------
(* co_resume of a coroutine that is new or has called co_yield_ct. *)
co_resume(co) ==
  /\ \E r \in Co \cup {Main} : Runs(r)
  /\ wait[co] = "none" /\ co \notin ToSet(callStack)
  /\ callStack' = Append(callStack, co)
  /\ UNCHANGED <<pc, items, wheel, lag, active, waiters, kernel, result>>

(* The same of one that is blocked in co_poll: RemoveFromLink takes its     *)
(* item from whichever list it is in.                                       *)
ResumePolling(co) ==
  /\ Interrupt
  /\ \E r \in Co \cup {Main} : Runs(r)
  /\ wait[co] = "poll"
  /\ PollTail(co)
  /\ active' = RemoveFirst(active, co)
  /\ callStack' = Append(callStack, co)
  /\ UNCHANGED <<pc, lag, ready, result>>

co_yield_ct(co) ==
  /\ Runs(co)
  /\ callStack' = Front(callStack)
  /\ UNCHANGED <<pc, items, wheel, lag, active, waiters, kernel, result>>

---------------------------------------------------------------------------
(* One turn of co_eventloop. *)
Reportable == {fd \in ready : reg[fd] # NULL}

co_epoll_wait ==
  /\ pc = "main" /\ callStack = <<>>
  /\ IF Cardinality(Reportable) <= EpollSize
     THEN result' = Reportable
     ELSE result' \in kSubset(EpollSize, Reportable)
  /\ pc' = "prepare"
  /\ UNCHANGED <<callStack, items, wheel, lag, active, waiters, kernel>>

(* Fault: the poll leaves the wheel but is not queued. *)
OnPollPreparePfnUnqueued(fd) ==
  LET co == reg[fd] IN
  /\ pc = "prepare" /\ fd \in result
  /\ wait[co] = "poll"
  /\ revents' = [revents EXCEPT ![co] = @ \cup {fd}]
  /\ wheel' = Disarm({co})
  /\ result' = result \ {fd}
  /\ UNCHANGED <<pc, callStack, wait, fds, bTimeout, active, lag, waiters, kernel>>

(* Fault: the entry is deleted at its first event, as if it were one-shot. *)
OnPollPreparePfnOneShot(fd) ==
  LET co == reg[fd] IN
  /\ pc = "prepare" /\ fd \in result
  /\ wait[co] = "poll"
  /\ revents' = [revents EXCEPT ![co] = @ \cup {fd}]
  /\ IF revents[co] = {}
     THEN wheel' = Disarm({co}) /\ active' = Append(RemoveFirst(active, co), co)
     ELSE UNCHANGED <<wheel, active>>
  /\ reg' = [reg EXCEPT ![fd] = NULL]
  /\ result' = result \ {fd}
  /\ UNCHANGED <<pc, callStack, wait, fds, bTimeout, lag, waiters, ready>>

(* The first event of a poll moves it from the wheel to the active list.    *)
(* (data.ptr must point to a poll: what the code reads through a pointer to *)
(* a freed one is undefined, and no step of the model.)                     *)
OnPollPreparePfn(fd) ==
  LET co == reg[fd] IN
  /\ pc = "prepare" /\ fd \in result
  /\ wait[co] = "poll"
  /\ revents' = [revents EXCEPT ![co] = @ \cup {fd}]
  /\ IF revents[co] = {}
     THEN wheel' = Disarm({co}) /\ active' = Append(RemoveFirst(active, co), co)
     ELSE UNCHANGED <<wheel, active>>
  /\ result' = result \ {fd}
  /\ UNCHANGED <<pc, callStack, wait, fds, bTimeout, lag, waiters, kernel>>

(* TakeAllTimeout, and the marking of what it took. *)
Expired == {co \in DOMAIN wheel : wheel[co] <= lag}
Later   == DOMAIN wheel \ Expired
ByExpiry(s) == \A m, n \in DOMAIN s : m < n => wheel[s[m]] <= wheel[s[n]]

InOrder(s)  == Once(s) /\ ToSet(s) = Expired /\ ByExpiry(s)

(* Fault: the lists are joined before the items are marked, so all of the   *)
(* active list is.                                                          *)
TakeAllTimeoutJoined ==
  /\ pc = "prepare" /\ result = {} /\ lag >= 0
  /\ \E s \in SeqOf(Expired, Cardinality(Expired)) :
       InOrder(s) /\ active' = active \o s
  /\ bTimeout' = [co \in Co |-> bTimeout[co] \/ co \in Expired \cup ToSet(active)]
  /\ wheel' = [co \in Later |-> wheel[co] - lag]
  /\ lag' = 0 /\ pc' = "drain"
  /\ UNCHANGED <<callStack, wait, fds, revents, waiters, kernel, result>>

(* Fault: ullStart moves on and the index does not, so what is left on the  *)
(* wheel has as far to go as before.                                        *)
TakeAllTimeoutUnmoved ==
  /\ pc = "prepare" /\ result = {} /\ lag >= 0
  /\ \E s \in SeqOf(Expired, Cardinality(Expired)) :
       InOrder(s) /\ active' = active \o s
  /\ bTimeout' = [co \in Co |-> bTimeout[co] \/ co \in Expired]
  /\ wheel' = Restrict(wheel, Later)
  /\ lag' = 0 /\ pc' = "drain"
  /\ UNCHANGED <<callStack, wait, fds, revents, waiters, kernel, result>>

TakeAllTimeout ==
  /\ pc = "prepare" /\ result = {}
  /\ IF lag < 0
     THEN UNCHANGED <<wheel, lag, bTimeout, active>>
     ELSE /\ \E s \in SeqOf(Expired, Cardinality(Expired)) :
               /\ InOrder(s)
               /\ active' = active \o s
          /\ bTimeout' = [co \in Co |-> bTimeout[co] \/ co \in Expired]
          /\ wheel' = [co \in Later |-> wheel[co] - lag]
          /\ lag' = 0
  /\ pc' = "drain"
  /\ UNCHANGED <<callStack, wait, fds, revents, waiters, kernel, result>>

(* pfnProcess of the head of the active list resumes its coroutine. *)
Process ==
  /\ pc = "drain" /\ callStack = <<>> /\ active # <<>>
  /\ active' = Tail(active)
  /\ callStack' = Append(callStack, Head(active))
  /\ \/ wait[Head(active)] = "poll" /\ PollTail(Head(active))
     \/ wait[Head(active)] = "cond" /\ CondTail(Head(active))
  /\ UNCHANGED <<pc, lag, ready, result>>

(* The turn ends when the list is empty; then pfn runs. *)
Drained ==
  /\ pc = "drain" /\ callStack = <<>> /\ active = <<>>
  /\ pc' = "main"
  /\ UNCHANGED <<callStack, items, wheel, lag, active, waiters, kernel, result>>

---------------------------------------------------------------------------
Block(co) == \/ \E F \in SUBSET Fd, ms \in Timeout : co_poll_inner(co, F, ms)
             \/ \E ms \in Timeout : co_cond_timedwait(co, ms)
             \/ co_yield_ct(co)

Next == \/ Tick \/ SetBack
        \/ \E fd \in Fd : Arrive(fd) \/ OnPollPreparePfn(fd)
        \/ \E co \in Co, fd \in Fd : Consume(co, fd) \/ Close(co, fd)
        \/ \E co \in Co : Block(co) \/ co_resume(co) \/ ResumePolling(co)
        \/ \E r \in Co \cup {Main} : co_cond_signal(r) \/ co_cond_broadcast(r)
        \/ co_epoll_wait \/ TakeAllTimeout \/ Process \/ Drained

Spec == Init /\ [][Next]_vars

(* The loop never stops between two steps and time passes.  Of the program  *)
(* it is assumed that a coroutine that runs again and again blocks again    *)
(* and again, and that pfn returns.                                         *)
FairSpec ==
  /\ Spec
  /\ WF_vars(Tick)
  /\ SF_vars(co_epoll_wait) /\ WF_vars(\E fd \in Fd : OnPollPreparePfn(fd))
  /\ WF_vars(TakeAllTimeout) /\ WF_vars(Process) /\ WF_vars(Drained)
  /\ \A co \in Co : SF_vars(Block(co))

---------------------------------------------------------------------------
Blocked(co) == wait[co] # "none"
Armed(co)   == co \in DOMAIN wheel
Queued(co)  == co \in ToSet(active)

(* No resume is a mistaken one (the fear of the comment at                  *)
(* co_routine.cpp:1265): whatever the wheel, the active list or the         *)
(* condition hold belongs to a coroutine that is blocked in the matching    *)
(* call, is in one place only and in it once.                               *)
ResumesBlocked ==
  /\ Once(active) /\ Once(waiters)
  /\ \A co \in Co : /\ Armed(co) => Blocked(co) /\ ~Queued(co)
                    /\ Queued(co) => Blocked(co) /\ co \notin ToSet(callStack)
                    /\ co \in ToSet(waiters) => wait[co] = "cond"

(* Nobody is forgotten: a blocked coroutine is still where somebody will    *)
(* find it, a poll with its timer armed until an event or a timeout queues  *)
(* it.                                                                      *)
BlockedReachable ==
  \A co \in Co : /\ wait[co] = "poll" => Armed(co) \/ Queued(co)
                 /\ wait[co] = "cond" => co \in ToSet(waiters) \/ Queued(co)

(* epoll's entries point to polls in progress (co_routine.cpp:1264-1265).   *)
EntriesOwned ==
  \A fd \in Fd : reg[fd] # NULL => wait[reg[fd]] = "poll" /\ fd \in fds[reg[fd]]

(* A poll returns 0 if and only if it timed out: event and timeout never    *)
(* both take it (OnPollPreparePfn unlinks it from the wheel, "it can time   *)
(* out no more").                                                           *)
EventOrTimeout ==
  \A co \in Co : wait[co] = "poll" /\ Queued(co)
                   => (bTimeout[co] <=> revents[co] = {})

(* While descriptors are not shared, a poll that waits watches all of its   *)
(* own.                                                                     *)
PollWatches ==
  Exclusive => \A co \in Co : \A fd \in fds[co] \ NoEpoll : reg[fd] = co

(* Every poll returns: at the latest, its timeout is raised and reached.    *)
PollReturns == \A co \in Co : wait[co] = "poll" ~> wait[co] # "poll"

(* A wait with a timeout ends without any signal. *)
TimedWaitReturns ==
  \A co \in Co : wait[co] = "cond" /\ Armed(co) ~> wait[co] # "cond"
===========================================================================
