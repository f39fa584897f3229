# Verification of libco and the other programs of this repository

This directory holds TLA+ specifications of the programs in `src/`, the TLC
configurations that check them on small instances, and theorems about them that
TLAPS checks for every instance. Source lines are cited as `file:line`; files
without a directory are in `src/libco/`.

## 1. The system

`src/` is a study repository. Its programs are an annotated copy of Tencent's
libco (`libco/`), the small ucontext library `coroutine/`, two consistent-hash
implementations (`分布式/hash_alogarithm/`), an unfinished re-typing of libco
(`libco_l/`), and assembly exercises; the rest is notes.

libco gives every thread a scheduler (`stCoRoutineEnv_t`) with stackful
coroutines, an event loop on epoll with a timer wheel, condition variables, and
replacements for the blocking system calls that suspend the calling coroutine.

| Component | State | Operations | Hard behaviour |
|---|---|---|---|
| Coroutines (`co_routine.cpp`) | `pCallStack`, `cStart/cEnd`, `env->pending_co/occupy_co` | `co_create`, `co_resume`, `co_yield*`, `co_free`, `CoRoutineFunc` | arbitrary chains of resumes; a coroutine ends, is freed, its address is reused |
| Shared stacks | `stack_mem->occupy_co`, `save_buffer`, `alloc_idx` | `co_swap`, `save_stack_buffer` | the two halves of a swap run on different stacks; who must be saved or restored depends on the history |
| Lists | `head/tail/pPrev/pNext/pLink` | `AddTail`, `PopHead`, `Join`, `RemoveFromLink` | `pLink` is kept by hand by each of them |
| Timer wheel (`stTimeout_t`) | `pItems`, `ullStart`, `llStartIdx` | `AddTimeout`, `TakeAllTimeout` | wrap-around, late sweeps, a wall clock that jumps, `int` overflow |
| Event loop and poll | epoll's entries, active list, `bTimeout`, `iRaiseCnt`, `iAllEventDetach` | `co_eventloop`, `co_poll_inner`, `OnPollPreparePfn` | event against timeout, shared descriptors, errors half way, starvation |
| Condition variable | list of `stCoCondItem_t` | `co_cond_timedwait`, `co_cond_signal`, `co_cond_broadcast` | signal against timeout |
| System call hooks (`co_hook_sys_call.cpp`) | `g_rpchook_socket_fd`, `user_flag`, kernel flags | `socket`, `connect`, `close`, `read`, `write`, `send`, `recv`, `fcntl`, ... | stale descriptor contexts, partial writes, connect results |
| Environment variables | `g_co_sysenv`, `pvEnv` | `co_set_env_list`, `setenv`, `getenv`, `unsetenv` | which variables are private to a coroutine |
| epoll on kqueue (`co_epoll.cpp`) | `clsFdMap`, `fire_idx` | `co_epoll_ctl`, `co_epoll_wait` | two filters for one descriptor, a full result array |
| `coroutine/coroutine.c` | `co[]`, `nco`, `cap`, `running`, one stack | `coroutine_new/resume/yield/close` | growing table, reused ids |
| Echo server and client (`example_echosvr.cpp`, `example_echocli.cpp`) | `g_readwrite`, each worker's `fd`, the thread's `errno` | `accept_routine`, `readwrite_routine` | workers run out, the backlog fills, a read times out while its answer travels, `errno` is shared by the coroutines |
| Consistent hashing | `circle`, `hashSortNodes`, `nodes` | `Add`, `Remove`, `Get` | colliding virtual nodes, ring and table out of step |

How they interact: a hooked call polls (`co_poll_inner`); a poll adds epoll
entries and arms a timer (`AddTimeout`), then yields (`co_swap`); the loop's
`co_epoll_wait` and `TakeAllTimeout` move items to the active list, whose drain
resumes coroutines (`co_swap` again). A condition's signal puts items on the
same active list. All of it happens in one thread; the environment that
interleaves with it is the kernel: data arrive and the clock moves between any
two steps. The echo server is a program over all of this: its acceptor resumes
idle workers by `co_resume`, and they poll their connection until it is closed.

### What makes each component correct

- **Coroutines and shared stacks.** The code that runs finds its own frames on
  its stack; the frames of every suspended coroutine are where `co_swap` will
  look for them; nothing that the next swap reads was freed. In short: sharing a
  stack cannot be noticed.
- **Timer wheel.** An armed item leaves the wheel with the first sweep at or
  after its expiry, never before, in the order of the expiries, once; an item's
  `pLink` names the list it is in.
- **Event loop, polls and conditions.** A coroutine is resumed only by what it
  waits for, once; a blocked coroutine is always where somebody will find it;
  an event and a timeout never both take a poll; epoll's `data.ptr` points to
  polls in progress; every poll and every timed wait returns.
- **Socket hooks.** A context fits the descriptor it belongs to; a descriptor whose
  flags were set through libco never blocks the thread; the value of a write is what the kernel took, in
  order; the loops of `write` and `connect` end.
- **Environment.** Listed variables are private to a coroutine and all others
  belong to the process.
- **epoll on kqueue.** The filters that point to a pair are those it names, and no
  filter loses its pair but by a call that fails half way; two filters
  that fire for one descriptor give one entry.
- **`coroutine.c`.** Ids keep their coroutine while the table grows; the count
  is right, so the two `assert(0)` cannot fail; a saved stack is complete.
- **Echo server and client.** The stack of idle workers holds those that are
  suspended in `co_yield_ct`, once each; every open connection has one worker and
  one descriptor; a live connection is never closed by the server; nobody waits
  in the backlog for ever while workers become idle; an answer is to the last
  request.
- **Consistent hashing.** `Get` finds the clockwise successor of the key; a new
  node takes keys for itself and moves none between the others.

## 2. The modules

| Module | Models | How state and actions correspond |
|---|---|---|
| `Lists` | intrusive lists | a list is the sequence of its items; `AddTail` is `Append`, `PopHead` is `Tail`, `Join` is `\o`, `RemoveFromLink` removes one element |
| `LinkedLists` | the same functions, pointer by pointer (`head`, `tail`, `pPrev`, `pNext`, `pLink`) | a heap is a record of the fields; every template function is an operator from heaps to heaps |
| `TimerQueue` | (abstract) what a timer manager promises | a set of armed items with deadlines, and a list of due ones |
| `TimeoutWheel` | `stTimeout_t`, `AllocTimeout`, `AddTimeout`, `TakeAllTimeout` | one variable per field; the sweep is one step per slot (`TakeAllTimeout`, `JoinSlot`, `TakeDone`); `int` conversions are `CInt` and C's remainder is `CRem` |
| `TimeoutWheelRefinement` | | invariants, and the refinement `QueueSpec` |
| `Coroutines` | (abstract) coroutines with private state | the chain of resumes and each body's own frames |
| `ShareStack` | `co_create`, `co_resume`, `co_yield_env`, `CoRoutineFunc`, `co_swap`, `save_stack_buffer`, `co_free` | one action per function; `co_swap` is the operator `BeforeSwap` up to `coctx_swap` and the action `AfterSwap` after it, on the other stack |
| `ShareStackRefinement` | | invariants, and the refinement `PrivateSpec` |
| `EventLoop` | `co_eventloop`, `co_poll_inner`, `OnPollPreparePfn`, `co_cond_timedwait`, `co_cond_signal`, `co_cond_broadcast` | a blocking function is the action up to its yield (`co_poll_inner`, `co_cond_timedwait`) and an operator for its rest (`PollTail`, `CondTail`), which runs in the step that resumes it; the loop is `co_epoll_wait`, `OnPollPreparePfn` per event, `TakeAllTimeout`, `Process` per item, `Drained` |
| `EventLoopInvariants` | | the inductive invariant |
| `EventLoopLists` | which list functions each step of `EventLoop` calls | the heap that the active list and the waiters stand for, before and after |
| `Schedule` | `coroutine/coroutine.c` | one action per function; the two forms of `coroutine_resume` are two actions |
| `ScheduleRefinement` | | the refinement of `Schedule` to `Coroutines` |
| `SocketHooks` | `socket`, `co_accept`, `connect`, `close`, `read`, `write`, `send`, `sendto`, `recv`, `recvfrom`, `fcntl` | `f` is the call up to its first wait and `f_again` what follows a wait |
| `Sorting` | (external) `sort.Slice`, `sort.Search`, `qsort`, `bsearch` | a sort is defined by what it returns, a binary search by its halving |
| `PrivateEnv` | (abstract) private variables | |
| `SysEnv` | `co_set_env_list`, `setenv`, `unsetenv`, `getenv` | arrays are sequences; the two loops of `co_set_env_list` are the recursive functions `Named` and `Distinct` |
| `Kqueue` | `co_epoll.cpp` on BSD and macOS | `co_epoll_ctl`'s three operations and `co_epoll_wait` as actions; the merging loop is the recursive function `WaitLoop` |
| `ConsistentHash` | `consistent_hash_code.go` | `Add` and `Remove` as the actions `AddNode` and `RemoveNode`, `Get` as an operator |
| `EchoNet` | (external) the TCP connections: backlog, request, reply, reset | an owner at the client's end, a state of the server's end |
| `EchoServer` | `example_echosvr.cpp`, one process | a run of `accept_routine` from one wait to the next is an action per outcome; so is a run of a worker's `readwrite_routine` from the end of its poll to the next one |
| `EchoClient` | `example_echocli.cpp` | `readwrite_routine` from one hooked call to the next; a failed call closes and starts again |
| `Echo` | the server with its clients | composition, properties, fairness |
| `ListLemmas`, `TimeoutWheelProofs`, `ShareStackProofs`, `EventLoopProofs`, `ScheduleProofs`, `EchoProofs`, `SocketHooksProofs`, `TableProofs` | | the theorems (section 5) |
| `MC*` | | instances for TLC |

The detailed modules stack up as the code does. `TimeoutWheel` is proved to
implement `TimerQueue`, and `EventLoop` uses a timer queue in place of the wheel
(the map `wheel` from owners to expiries relative to `ullStart`); `SocketHooks`
and `EchoServer` use, in place of the loop, what `EventLoop` shows of a poll: it
returns because of an event or at its timeout. `EventLoop`'s sequences are shown
to be what the pointer operations of `LinkedLists` make of the lists
(`EventLoopLists`). `ShareStack` justifies that `EventLoop` and
`SocketHooks` treat a suspended coroutine as one that keeps its local variables.
`Coroutines` is implemented twice, by libco's shared stacks and by
`coroutine.c`.

Two abstractions are common to all of them. The coroutines of a thread do not
run in parallel, so a step is what one coroutine does between two points where
control may leave it or where the kernel may have changed something it reads.
And data are abstracted to what decides control: frames are a value that names
the coroutine that wrote them and how often; a buffer is a count of bytes; a
variable name is a number in `strcmp`'s order.

An operator or action whose comment begins with "Fault:" belongs to no
specification: it is the form the one after it would have with a plausible
mistake in the code. Each property is known to be violated when one of them
takes the place of the definition it varies; PROJECT.json lists which.

## 3. The runs

Run one with `tlc -config <cfg> <module>`; PROJECT.json lists them with their
properties.

| Run | Checks | Instance |
|---|---|---|
| `timeout_wheel` | `LinkInv`, `SlotInv`, `SweepCoversDue`, `QueueSpec`, `DueIsTaken` | 2 items, 3 slots, 5-bit int, delays -1 to 2, clock 1 to 7, at most 6 ahead of `ullStart` |
| `share_stack` | `FramesInPlace`, `FramesKept`, `PrivateSpec` | main and 3 coroutines, 2 shared stacks, `alloc_idx` wraps at 3, call stack of 3; programs that free no occupant of a shared stack |
| `share_stack_free` | `OccupantAllocated` is violated (section 6) | main and 2 coroutines, 1 shared stack, programs that free any coroutine that is not on the call stack |
| `event_loop` | `ResumesBlocked`, `BlockedReachable`, `EntriesOwned`, `EventOrTimeout` | 3 coroutines, 2 descriptors that may be shared, timeouts 0, 1, 3, cap 2, wheel of 5, 2 events a turn, everybody signals, a clock that is set back, no poll of a descriptor that `AddTimeout` refuses |
| `event_loop_live` | `PollWatches`, `ListsKept`, `PollReturns`, `TimedWaitReturns` | 3 coroutines, 1 descriptor, only the main code signals |
| `event_loop_refused` | `EntriesOwned` is violated (section 6) | 2 coroutines, 2 descriptors of which epoll refuses one, a clock that is set back, refused polls |
| `schedule` | `AssertsHold`, `SavedComplete`, `IdsKept`, `PrivateSpec` | 3 bodies, capacity 1 growing to 4, frames of 0 to 2 bytes |
| `consistent_hash` | `GetIsSuccessor`, `MembersServed`, `Monotone` | 3 nodes of 2 points on 6 hash values, every hash function |
| `socket_hooks` | `SetNeverBlocks`, `WriteTruth`, `CallsReturn` | 2 hooking coroutines, 1 descriptor number, writes of up to 3 bytes, a kernel buffer of 2 |
| `sysenv` | `EnvTypeOK`, `PrivateSpec` | 2 coroutines, 3 names, lists of up to 4 with repetitions and empty names |
| `echo` | `PoolIsIdle`, `ServedByOne`, `AnswerIsToLast`, `ClosesOnlyDead`, `Accepted`, `ResetIsSeen` | 2 clients, 2 workers, a backlog of 2 |
| `kqueue` | `FiltersHavePairs`, `CountedOnce`, `EntriesMerged` | 2 descriptors, 2 data values, room for 3 of the 4 events, additions refused at any point |

Types: `TypeOK` is a property of `timeout_wheel` and `share_stack`; it is
the first conjunct of `AssertsHold`, `GetIsSuccessor` (`RingTypeOK`),
`SetNeverBlocks`, `FiltersHavePairs` and `PoolIsIdle`; that of `EventLoop` is proved (`TypeCorrect`).

`ListsKept` is the refinement of lists: after every step of the loop the pointers
that the functions of `LinkedLists` leave are those of the sequences `EventLoop`
goes on with.

**Why the bounds are enough.**
*Wheel:* two items meet in one slot, precede each other and are armed on
different turns; three slots and a clock up to 6 ahead make a sweep late by two
turns, and the delays cover a past expiry, the current millisecond, the last slot
and one turn (refused). `MaxStall`, `MaxTime` and `IntHalf` are arbitrary in the
proofs, within the assumptions of section 5.
*Stacks:* with two shared stacks and three coroutines two must share one and the
third can resume both, at the full depth of the chain; displacing one coroutine
twice needs no more. `MaxVersion` is 1 because one change tells an old copy from a
new one. *Loop:* three coroutines let one run and signal while another waits and
a third is already queued; two descriptors let one poll have two events and two
polls share one; the timeouts lie below, at and above `eMaxTimeout`, and
`EpollSize` is reached. `MaxLag` bounds how late a turn may be.
*Schedule:* the table grows twice, with and without a coroutine running.
*Hash:* three nodes are needed to move a key "between the others", two points to
lose one and keep one; the six values include every pattern of collision and of
the wrap. *Hooks:* three bytes into a buffer of two make a write that needs
several attempts; one number reused is the aliasing case. *Environment:* four
names out of three plus the empty one give a triple repetition at the start, in
the middle and at the end. *Kqueue:* three events are both filters of one
descriptor and one of the other, in all orders, so that merging moves the entries
after it. *Echo:* connections of clients that have gone keep a worker each until
their end is seen, so two clients keep both workers busy and fill the backlog; with
two workers one can be idle while the other is busy and a connection waits.

**Where deadlock is checked:** everywhere; no configuration turns it off.
Symmetry is used in runs without liveness properties only.

## 4. Fairness

- `TimeoutWheel!FairSpec`: weak fairness of the sweep's steps. `co_eventloop`
  calls `TakeAllTimeout` in every turn (co_routine.cpp:1020) and nothing in it
  blocks. The clock has no fairness: `DueIsTaken` speaks of items that are due
  already.
- `EventLoop!FairSpec`: weak fairness of the clock's tick and of the loop's own
  steps, which follow each other in straight-line code, and strong fairness of
  `co_epoll_wait`, which the program disables again and again by running
  coroutines. Of the program it assumes that a coroutine which runs again and
  again blocks or yields again and again (`SF_vars(Block(co))`), and, in
  `event_loop_live`, that only the thread's own code signals: with two coroutines that
  signal each other `PollReturns` does not hold (section 6).
- `SocketHooks!FairSpec`: weak fairness of `PollReturns` and of what follows it.
  Both are what `PollReturns` of `EventLoop` says of `co_poll`: every poll has a
  timeout (1 s for reads and writes, 25 s for connect, unless `setsockopt` changed
  it), so it returns. The peer has no fairness; a call that blocks the thread is
  excepted in `CallsReturn`.

- `Echo!FairSpec`: weak fairness of the acceptor, whose polls end within a second,
  and strong fairness of a worker's `read` that finds a request, nothing, or a
  reset: every poll ends within a second, and a turn of the loop handles all that
  have ended. `EndOfFile` has none, since whether the worker leaves depends on what
  `errno` is when it reads (section 6). Clients have none.

`Next` of every other module is checked for safety alone.

## 5. What is proved

TLAPS checks the following for every value of the constants that meets the named
assumptions. Each rests on an inductive invariant, which is stronger than what
it is for because the property alone does not say why the next step keeps it.

**Timer wheel** (`TimeoutWheelProofs`). `WheelInv` is `TypeOK`, `LinkInv`,
`SlotInv`, `SweepInv` and `StallInv`. The heart is `SlotInv`: an armed item is in
slot `(llStartIdx + expiry - ullStart) % iItemSize` and expires less than one turn
after `ullStart` and not before the sweep's horizon. That is why a slot never
mixes two turns, and why joining a slot joins exactly one instant's items
(`SlotInstant`) or, in a sweep that is more than a turn late, why all slots may
be taken. From it follow `TypeCorrect` (no item outside the wheel),
`LinksCorrect`, `SlotsCorrect`, `SweepsCoverDue`, and `Refinement`: `Spec` implements
`TimerQueue!Spec`, step by step (`AddTimeoutArms`, `RemovesCancel`, `PopHeadPops`,
`JoinSlotHandsOver`, `TakeDoneEnds`). Assumed: the wheel is smaller than `int`
(`IntAssumption`), and stall plus delay fit in one (`NoOverflowAssumption`,
`StallAssumption`); section 6 says what happens beyond.

**Shared stacks** (`ShareStackProofs`). `ShareStackInv` is `TypeOK`, `ChainInv` (the
call stack holds live coroutines, once each, the main one first), `OccupantInv` (a
stack's occupant runs on it and has started), `SwapInv` (between the two halves of
a swap the env names what to restore) and `FramesKept`. `Place(co)` says where
a coroutine's frames are; each lemma shows that one action moves the place of
some coroutine and the frames of none. Theorems: `TypeCorrect`,
`RunningFramesInPlace`, `SuspendedFramesKept`, and `Refinement` to `Coroutines`.
Assumed: the callers' discipline in `Resumable`, and `DisciplineAssumption`, that the
program frees no coroutine which still occupies a shared stack. The code checks
neither; without the second the next swap onto the stack reads and writes freed
memory (section 6, item 1), of which nothing can be said.

**Event loop** (`EventLoopProofs`). `LoopInv` adds to the checked properties
`ControlInv` (no coroutine runs between `co_epoll_wait` and `TakeAllTimeout`, so a
reported entry is still there) and `PollInv` (a poll has events or a timeout only
while it is queued, and is marked as timed out only after all events of the turn
were prepared). Theorems for any number of coroutines, descriptors and any
timeouts, with shared descriptors and a clock that is set back: `TypeCorrect`,
`ResumesCorrect`, `NobodyForgotten`, `EventsOrTimeout`. With `NoneRefused` (the
program polls no descriptor while `AddTimeout` refuses, which `PollsRefused` says; or
the clock is not set back, no timeout is negative, and a late turn and the longest
poll fit into the wheel) also `EntriesCorrect` and, for descriptors that are not
shared, `PollsWatch`.

**`coroutine.c`** (`ScheduleProofs`). `ScheduleInv` adds to `AssertsHold` and
`SavedComplete` that a body is at one place of the table, that a closed schedule is
empty (`NamesInv`), and that what is on `S->stack` is the running coroutine's
(`StackInv`), without which what `_save_stack` copies could be anybody's. The count
`nco` equals the cardinality of the living ids, so a table with `nco < cap` has a
free place (`Places`) and the search of `coroutine_new` finds one (`NewPlace`);
every other operation changes one place (`SamePlace`, `OneChanges`). Theorems:
`AssertsCorrect`, `SavedCorrect`, `IdsCorrect`, and `Refinement` to `Coroutines`, for
any first capacity, any growth and any size of the stack.

**Echo** (`EchoProofs`). `EchoInv` is `PoolIsIdle`, `ServedByOne`, `AnswerIsToLast`,
`ClientInv` (a client has the connections it owns, one or none) and `NetInv` (a
connection whose server end is free carries nothing and has no client). The last
is what makes a connection's number safe to use again, and with it `AnswerIsToLast`
survives a new connection. Theorems for any number of clients and workers and any
backlog: `PoolCorrect`, `ServiceCorrect`, `AnswersCorrect`, `ClosesCorrect`.
Assumed: finitely many workers (`SizeAssumption`), and that `NULL` is nobody
(`NullAssumption`).

**Socket hooks** (`SocketHooksProofs`). `HooksInv` is `WriteTruth`, `CallsInv`
(the descriptor of a suspended call is open, and a `sendto` that waits has sent
nothing, so its second attempt may start over), `SetsHold` (a socket whose flags
were last set through libco's `fcntl` is non-blocking in the kernel, whatever was
passed) and `SetNeverBlocks`. `TypeCorrect`, `WriteCorrect` and `SetCorrect` hold for any
mixture of coroutines that hook and that do not. What `SetNeverBlocks` says of the
contexts, that exactly the open descriptors of `socket` and `co_accept` have one, is
said of programs whose coroutines all hook (section 6, item 8). `write`, `send` and
`sendto` share the lemmas about a first attempt (`FirstTryKeeps`) and a later one
(`NextTryKeeps`), for any length and any way the kernel cuts it.

**Tables** (`TableProofs`): three components whose heart is a loop or a search over
a table.
*kqueue.* `KqueueInv` is `FiltersHavePairs` and `CountedOnce`; `PairsCorrect` and
`CountCorrect` follow. `Agree` says it of one descriptor, with two histories: whether
the descriptor was closed since its pair was made, and whether a call failed on it
since; a step that touches one descriptor keeps it for the others (`FdStep`). `EntriesCorrect` needs an invariant of the loop of
`co_epoll_wait`, `RoundInv`: after `n` events each descriptor so far was counted
once and has one entry, with all its filters, at the number of its first event.
*Environment.* `EnvTypeOK` is inductive: it says that the kept names are strictly
ascending, which is what `bsearch` relies on, and that a coroutine's array has their
length. `ListCorrect` says which names `co_set_env_list` keeps, `EnvTypeCorrect` is the
invariant, and `PrivateCorrect` is the refinement to `PrivateEnv`: a name is listed
if and only if `bsearch` finds its place (`PlaceFacts`), and to store at that place
changes one private variable (`StoredPriv`).
*Hash ring.* `RingInv`: the index holds the points of the circle in order, perhaps
some of them more than once, and without collisions a node of the ring has all its
points. `Successor` says without an algorithm where a key belongs; `sort.Search` with
the wrap of `searchByIndex` finds it (`SearchFacts`), which gives `SuccessorCorrect` and
`MembersCorrect`, and among more points it is a new one or the one it was
(`MorePoints`), which gives `MonotoneCorrect`. Any number of nodes, any number of points
and any hash function, with collisions.

`TableProofs` extends all three modules, which is why the definitions of `SysEnv` and
`ConsistentHash` have names of their own (`EnvSpec`, `RingSpec`). Assumed: the names and
the list are bounded by numbers (`NameAssumption`), a node has at least one point
(`SizeAssumption`), a wait has room for an event (`EventsAssumption`), and what stands
for a null pointer is no pair and no array (`NullAssumption`, `UnsetAssumption`).

**Lists, sorts and searches** (`ListLemmas`): what appending, joining, removing and
taking the head of a list do to its members and to its being free of repetitions;
that `Sorted` and `Ascending` return what they should (`SortedFacts`, `AscendingFacts`);
that `sort.Search` and `bsearch` find what they should in a sequence in order
(`SortSearchFacts`, `BsearchFacts`). Loops and binary searches are recursive functions.
That such a function exists at all, and what it computes, is proved by the smallest
counterexample: `SmallestNat` for a loop's rounds (`LoopExists`), `RankInduction` with the
length of the interval for the halvings (`HalvingExists`).

**Only model-checked.** Liveness (`DueIsTaken`, `PollReturns`, `TimedWaitReturns`,
`CallsReturn`, `Accepted`, `ResetIsSeen`) is beyond TLAPS. `ListsKept`, which relates the
pointers of `LinkedLists` to sequences, has no proof yet (section 8).

## 6. Divergences seen while modelling

With a run that shows them:

1. **`co_free` and `occupy_co`** (co_routine.cpp:656). `co_free` frees a coroutine
   that the shared stack still names. The next `co_swap` onto the stack saves the
   stack into the freed object (786-797). `share_stack_free` finds it:
   `OccupantAllocated` fails as soon as an ended coroutine is freed. The examples
   never free one.
2. **A refused poll leaves its epoll entries** (co_routine.cpp:1231). When
   `AddTimeout` returns an error, `co_poll_inner` frees the `stPoll_t` and returns
   without the `EPOLL_CTL_DEL` its tail insists on (1265); epoll keeps a pointer to
   freed memory. `event_loop_refused` finds it with a clock set back; a negative
   timeout does the same.

Without a run, found in reading the code for the models:

3. **Overflow in `AddTimeout`** (co_routine.cpp:471, against 397: the longest
   timeout is `iItemSize`). `diff` is an `int`: an expiry more than 2^31 ms after
   `ullStart` wraps, passes the range check and gives a negative slot. The model
   keeps such an item at `Stray`; `NoOverflowAssumption` excludes it.
   `co_cond_timedwait` passes any `int` of milliseconds on.
4. **Overflow in `TakeAllTimeout`** (co_routine.cpp:514, against 492). If the clock
   jumps ahead more than 2^31 ms, `cnt` is negative and the function returns
   without moving `ullStart`, so for as long as the difference reads negative
   nothing times out. `StallAssumption` excludes it.
5. **Starvation** (co_routine.cpp:1035). The drain goes on until the active list is
   empty, and a resumed coroutine can append to it by `co_cond_signal`. Two that
   signal each other keep epoll and the timers waiting for ever.
6. **A refused `connect` returns 0** (co_hook_sys_call.cpp:312). A refusal makes
   the socket writable, so `POLLOUT` is set together with `POLLERR` and `connect`
   takes it for success; `getsockopt(SO_ERROR)` is reached only without `POLLOUT`.
7. **`F_GETFL` shows libco's `O_NONBLOCK`** (co_hook_sys_call.cpp:690, against the
   comment at 706-707). A program that reads the flags, changes one and sets them
   puts libco's bit into `user_flag`; from then on the descriptor counts as
   non-blocking by the user's wish and no call on it waits.
8. **A context outlives its descriptor** (co_hook_sys_call.cpp:333, against the
   comment at 356) when it is closed by a coroutine that does not hook. The next
   descriptor with its number inherits it. `SetNeverBlocks` therefore speaks of the
   contexts only where all coroutines hook.
9. **Merged kqueue entries** (co_epoll.cpp:141, against co_epoll.h:31). When both
   filters of a descriptor fire, the next descriptor's entry keeps the number of
   its event. The function returns the number of descriptors, so a caller that
   reads that many entries can read a stale one and miss the last.
10. **kqueue's timeout** (co_epoll.cpp:129). A timeout in milliseconds, as the
    epoll branch takes it, is put into `tv_sec`.
11. **`Remove` is inverted** (consistent_hash_code.go:52-53). It returns "not
    exists" for the nodes that exist and goes on for those that do not.
12. **A stale `EAGAIN` at the end of file** (example_echosvr.cpp:107). `read` returns 0
   and leaves `errno` alone. The acceptor's failed `accept` sets `EAGAIN` about once a
   second, so the worker usually finds it, polls a connection that is readable at
   its end for ever, and does not go back to `g_readwrite`. `EndOfFile` models it;
   no property promises that the end of file is seen.
13. **A short write loses bytes** (example_echosvr.cpp:102, against the comment at 99,
   "读多少就写多少", write as much as was read). The descriptor is non-blocking, so a
   `write` may take fewer bytes than were read; the value is tested for `<= 0` only,
   and after an `EAGAIN` nothing is written at all. `EchoServer` models requests of
   8 bytes, which fit.
14. **The client's own wait for `connect`** (example_echocli.cpp:120) is never reached:
   the hooked `connect` waits itself and leaves neither `EALREADY` nor `EINPROGRESS`.
15. **A `co_epoll_ctl` that fails half way** (co_epoll.cpp:236-249). `EVFILT_READ` was
   added when `EVFILT_WRITE` is refused; the pair is freed and the filter goes on
   pointing to it. `co_poll_inner` ignores the failure, and its `EPOLL_CTL_DEL` is no
   help: `co_epoll_del` finds no pair and returns (164). `AddFilters` models it, and
   `FiltersHavePairs` says that no other filter is left behind.
16. **A descriptor of `co_accept` is blocking** (co_hook_sys_call.cpp:261-269) until the
   program calls `fcntl(F_SETFL)`: a `read` on it whose poll times out blocks the
   thread, and so does a `write` that does not fit. The echo server calls
   `SetNonBlock`; descriptors of `accept`, `open` and `pipe` are in the program's hands
   altogether.
17. **`Get` of an empty index** (consistent_hash_code.go:104) divides by zero. With
   colliding names `Remove` can delete all points of a node that stays in the
   ring; `CanGet` excludes such calls.
18. **`AddSuccCnt` and `AddFailCnt`** (example_echocli.cpp:70-97) do not count the
   event on which they print.

## 7. What is not modelled, and why

- `coctx.cpp`, `coctx_swap.S`: register and stack-pointer assembly. Its effect is
  that control moves to another stack, the step between the halves of `co_swap`.
- `gethostbyname` and `__res_state`, the sizes of timeouts set by `setsockopt`
  (a poll may time out at any moment in `SocketHooks`), descriptors beyond the
  context table's 102400.
- `co_getspecific`/`co_setspecific`: an array access per coroutine.
- The other examples: they create coroutines that print. Of the echo programs:
  starting processes, signals, counters, and how TCP cuts bytes into segments.
- `ketama.go`: the same ring without `Remove`. `libco_l/`: an unfinished re-typing of
  libco without an event loop. `NASM/`, `coroutineDemo/` and the notes: exercises.
- Several threads: libco keeps everything in a per-thread env, except
  `g_rpchook_socket_fd` and `g_co_sysenv`; `SocketHooks` and `SysEnv` model one thread.
- Undefined behaviour (resuming an ended coroutine, a call stack deeper than 128,
  reading a freed `stPoll_t` or a freed kqueue pair) is no step of a model; guards named in comments
  exclude it.

## 8. The plan

What is left, in this order:

1. Proofs of `LinkedLists`: that each function keeps a heap well-formed and does to
   the sequences what `Lists` says, for lists of any length; from it `ListsKept`.
2. A waiter of a condition that is resumed explicitly (co_routine.cpp:1468), the
   producer and consumer of `example_cond.cpp`, and `SocketHooks` with coroutines
   that do not hook.
3. Several threads over `g_rpchook_socket_fd`.
