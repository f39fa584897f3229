-------------------------- MODULE EventLoopLists --------------------------
(***************************************************************************)
(* EventLoop keeps the active list and the waiters of a condition as       *)
(* sequences; the code calls the list functions on stTimeoutItem_t and     *)
(* stCoCondItem_t.  Here is what each step calls, on the heap that the     *)
(* sequences stand for.  (The slots of the wheel are lists of the same     *)
(* kind, but EventLoop has no sequences for them.)                         *)
(***************************************************************************)
EXTENDS EventLoop

INSTANCE LinkedLists

Timer(co) == <<"stTimeoutItem_t", co>>
Cond(co)  == <<"stCoCondItem_t", co>>
ListItem  == {Timer(co) : co \in Co} \cup {Cond(co) : co \in Co}

Timers(s) == [n \in DOMAIN s |-> Timer(s[n])]
Conds(s)  == [n \in DOMAIN s |-> Cond(s[n])]

(* The lists, with the one that TakeAllTimeout has filled. *)
List == {"active", "timeout", "waiters"}

HeapWith(timeout) ==
  HeapOf([l \in List |-> CASE l = "active"  -> Timers(active)
                           [] l = "timeout" -> timeout
                           [] l = "waiters" -> Conds(waiters)], List, ListItem)
Heap == HeapWith(<<>>)

(* co_cond_signal: co_cond_pop and the move to the active list. *)
Signalled(h) ==
  LET t == Timer(h.head["waiters"][2])
  IN  AddTail(RemoveFromLink(PopHead(h, "waiters"), t), "active", t)

(* co_cond_broadcast, after n of its turns. *)
Broadcast[n \in 0 .. Cardinality(Co)] == IF n = 0 THEN Heap ELSE Signalled(Broadcast[n - 1])

(* The item of a wait that is over is unlinked from what it may still be in. *)
Returned(h, co) ==
  IF wait[co] = "poll" THEN RemoveFromLink(h, Timer(co)) ELSE RemoveFromLink(h, Cond(co))

(* The list functions keep the lists: what the calls of each step make of   *)
(* the pointers of the lists before it is what the lists after it say.  In  *)
(* particular no item is lost or linked twice when a waiter is unlinked     *)
(* between two others, when the last one goes, when the list to join is     *)
(* empty or not, and when an item is unlinked that is in no list            *)
(* (RemoveFromLink, AddTail, PopHead and Join, co_routine.cpp:161-285).     *)
CallsKeepLists ==
  /\ \A co \in Co, ms \in Timeout :
       co_cond_timedwait(co, ms) => Heap' = AddTail(Heap, "waiters", Cond(co))
  /\ \A r \in Signallers :
       /\ co_cond_signal(r) => Heap' = Signalled(Heap)
       /\ co_cond_broadcast(r) =>
            Heap' = Broadcast[Len(waiters)]
  /\ \A co \in Co : ResumePolling(co) => Heap' = Returned(Heap, co)
  /\ \A fd \in Fd :
       OnPollPreparePfn(fd) /\ active' # active =>
         LET t == Timer(reg[fd])
         IN  Heap' = AddTail(RemoveFromLink(Heap, t), "active", t)
  /\ TakeAllTimeout =>
       Heap' = Join(HeapWith(Timers(SubSeq(active', Len(active) + 1, Len(active')))),
                    "active", "timeout")
  /\ Process => Heap' = Returned(PopHead(Heap, "active"), Head(active))

ListsKept == [][CallsKeepLists]_vars
===========================================================================
