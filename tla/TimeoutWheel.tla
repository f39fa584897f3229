--------------------------- MODULE TimeoutWheel ---------------------------
(***************************************************************************)
(* stTimeout_t of co_routine.cpp: the timer wheel of a thread's event      *)
(* loop.  One slot stands for one millisecond; slot llStartIdx % iItemSize *)
(* stands for the instant ullStart.  Items are linked into a slot by       *)
(* AddTimeout, moved to the loop's list by TakeAllTimeout (one step per    *)
(* iteration of its loop) and unlinked by RemoveFromLink or PopHead.       *)
(*                                                                         *)
(* The clock is gettimeofday: it may jump in both directions.  MaxStall    *)
(* bounds how far it gets ahead of ullStart, which only a sweep moves.     *)
(***************************************************************************)
EXTENDS Lists

CONSTANTS Item,       \* stTimeoutItem_t objects
          iItemSize,  \* slots of the wheel (60 * 1000)
          IntHalf,    \* 2^(w-1) for the w bits of an int
          Delay,      \* timeouts the callers ask for, in milliseconds
          MaxStall,   \* how far the clock may run ahead of ullStart
          MaxTime     \* bound on the clock

ASSUME SizeAssumption == iItemSize \in Nat \ {0}
ASSUME IntAssumption == IntHalf \in Nat /\ iItemSize < IntHalf
ASSUME DelayAssumption == Delay \subseteq Int
ASSUME BoundAssumption == MaxStall \in Nat /\ MaxTime \in Nat \ {0}

VARIABLES clock,          \* what GetTickMS would return
          pItems,         \* [slot -> sequence of items]
          ullStart, llStartIdx,
          ullExpireTime,  \* [Item -> time]
          pLink,          \* [Item -> the list it is linked in]
          active,         \* the list TakeAllTimeout fills and the loop drains
          pc, allNow, cnt, i   \* TakeAllTimeout: control, argument and locals

wheel  == <<pItems, ullStart, llStartIdx>>
sweep  == <<pc, allNow, cnt, i>>
vars   == <<clock, wheel, ullExpireTime, pLink, active, sweep>>

Slots      == 0 .. iItemSize - 1
ActiveList == iItemSize
NoLink     == iItemSize + 1
Stray      == iItemSize + 2   \* linked to memory that is no slot
Links      == Slots \cup {ActiveList, NoLink, Stray}

(* The types; in particular no item is ever linked outside the wheel, which *)
(* a negative remainder in AddTimeout would do.                             *)
TypeOK ==
  /\ clock \in Nat \ {0}
  /\ pItems \in [Slots -> Seq(Item)]
  /\ ullStart \in Nat \ {0} /\ llStartIdx \in Nat
  /\ ullExpireTime \in [Item -> Int]
  /\ pLink \in [Item -> Slots \cup {ActiveList, NoLink}]
  /\ active \in Seq(Item)
  /\ pc \in {"idle", "joining"} /\ allNow \in Nat
  /\ cnt \in Int /\ i \in Nat

---------------------------------------------------------------------------
(* C arithmetic: the value an int keeps of x, and the sign of a remainder. *)
CInt(x) == LET m == x % (2 * IntHalf)
           IN  IF m < IntHalf THEN m ELSE m - 2 * IntHalf
CRem(a, b) == IF a >= 0 THEN a % b ELSE -((-a) % b)

(* AllocTimeout: the wheel starts empty, at the current instant. *)
AllocTimeout == /\ pItems = [k \in Slots |-> <<>>]
                /\ ullStart = clock
                /\ llStartIdx = 0

Init == /\ clock \in 1 .. MaxTime
        /\ AllocTimeout
        /\ ullExpireTime = [x \in Item |-> 0]
        /\ pLink = [x \in Item |-> NoLink]
        /\ active = <<>>
        /\ pc = "idle" /\ allNow = 0 /\ cnt = 0 /\ i = 0

SetClock == /\ \E t \in 1 .. MaxTime : t <= ullStart + MaxStall /\ clock' = t
            /\ UNCHANGED <<wheel, ullExpireTime, pLink, active, sweep>>

(* Both entry points adopt the current instant if none was adopted yet. *)
Start(now)    == IF ullStart = 0 THEN now ELSE ullStart
StartIdx(now) == IF ullStart = 0 THEN 0 ELSE llStartIdx

Diff(expire, now) == CInt(expire - Start(now))

(* Fault: an expiry that is already past is let through. *)
RefusedButPast(expire, now) == \/ now < Start(now)
                               \/ Diff(expire, now) >= iItemSize

(* The three refusals of AddTimeout. *)
Refused(expire, now) == \/ now < Start(now)
                        \/ expire < now
                        \/ Diff(expire, now) >= iItemSize
SlotOf(expire, now)  == CRem(StartIdx(now) + Diff(expire, now), iItemSize)

(* A caller (co_poll_inner, co_cond_timedwait) arms a new item ms           *)
(* milliseconds ahead.  A refused item is freed at once.                    *)
AddTimeout(x, ms) ==
  LET expire == clock + ms
      slot   == SlotOf(expire, clock)
  IN  /\ pc = "idle"
      /\ pLink[x] = NoLink
      /\ ullStart' = Start(clock) /\ llStartIdx' = StartIdx(clock)
      /\ IF Refused(expire, clock)
         THEN UNCHANGED <<pItems, pLink, ullExpireTime>>
         ELSE /\ ullExpireTime' = [ullExpireTime EXCEPT ![x] = expire]
              /\ IF slot \in Slots
                 THEN /\ pItems' = [pItems EXCEPT ![slot] = Append(@, x)]
                      /\ pLink' = [pLink EXCEPT ![x] = slot]
                 ELSE /\ pLink' = [pLink EXCEPT ![x] = Stray]
                      /\ UNCHANGED pItems
      /\ UNCHANGED <<clock, active, sweep>>

(* RemoveFromLink, of an item in a slot or in the loop's list. *)
RemoveFromSlot(x) ==
  /\ pc = "idle"
  /\ pLink[x] \in Slots
  /\ \E n \in DOMAIN pItems[pLink[x]] :
       /\ pItems[pLink[x]][n] = x
       /\ pItems' = [pItems EXCEPT ![pLink[x]] = RemoveAt(@, n)]
  /\ pLink' = [pLink EXCEPT ![x] = NoLink]
  /\ UNCHANGED <<clock, ullStart, llStartIdx, ullExpireTime, active, sweep>>

RemoveFromActive(x) ==
  /\ pc = "idle"
  /\ pLink[x] = ActiveList
  /\ \E n \in DOMAIN active : active[n] = x /\ active' = RemoveAt(active, n)
  /\ pLink' = [pLink EXCEPT ![x] = NoLink]
  /\ UNCHANGED <<clock, wheel, ullExpireTime, sweep>>

(* The loop takes the head of its list. *)
PopHead ==
  /\ pc = "idle"
  /\ active # <<>>
  /\ active' = Tail(active)
  /\ pLink' = [pLink EXCEPT ![Head(active)] = NoLink]
  /\ UNCHANGED <<clock, wheel, ullExpireTime, sweep>>

(* Fault: the slot of the current millisecond is not counted. *)
ElapsedBefore(now) == CInt(now - Start(now))

(* TakeAllTimeout, up to its loop.  cnt slots have come, at most all. *)
Elapsed(now) == CInt(now - Start(now) + 1)

(* Fault: a late sweep leaves one slot of the wheel out. *)
CountButOne(now) == IF Elapsed(now) >= iItemSize THEN iItemSize - 1 ELSE Elapsed(now)

Count(now)   == IF Elapsed(now) > iItemSize THEN iItemSize ELSE Elapsed(now)

TakeAllTimeout ==
  /\ pc = "idle"
  /\ clock >= Start(clock)
  /\ Count(clock) >= 0
  /\ ullStart' = Start(clock) /\ llStartIdx' = StartIdx(clock)
  /\ cnt' = Count(clock) /\ i' = 0 /\ allNow' = clock
  /\ pc' = "joining"
  /\ UNCHANGED <<clock, pItems, ullExpireTime, pLink, active>>

(* Fault: Join does not tell the items which list they are in now. *)
JoinSlotUnlabelled ==
  LET idx == (llStartIdx + i) % iItemSize
  IN  /\ pc = "joining" /\ i < cnt
      /\ active' = active \o pItems[idx]
      /\ pItems' = [pItems EXCEPT ![idx] = <<>>]
      /\ i' = i + 1
      /\ UNCHANGED <<clock, ullStart, llStartIdx, ullExpireTime, pLink, pc, allNow, cnt>>

(* Fault: Join puts the slot in front of what was taken before. *)
JoinSlotInFront ==
  LET idx == (llStartIdx + i) % iItemSize
  IN  /\ pc = "joining" /\ i < cnt
      /\ active' = pItems[idx] \o active
      /\ pItems' = [pItems EXCEPT ![idx] = <<>>]
      /\ pLink' = [x \in Item |-> IF x \in ToSet(pItems[idx])
                                  THEN ActiveList ELSE pLink[x]]
      /\ i' = i + 1
      /\ UNCHANGED <<clock, ullStart, llStartIdx, ullExpireTime, pc, allNow, cnt>>

(* One iteration: the slot's list is appended to the result. *)
JoinSlot ==
  LET idx == (llStartIdx + i) % iItemSize
  IN  /\ pc = "joining"
      /\ i < cnt
      /\ active' = active \o pItems[idx]
      /\ pItems' = [pItems EXCEPT ![idx] = <<>>]
      /\ pLink' = [x \in Item |-> IF x \in ToSet(pItems[idx])
                                  THEN ActiveList ELSE pLink[x]]
      /\ i' = i + 1
      /\ UNCHANGED <<clock, ullStart, llStartIdx, ullExpireTime, pc, allNow, cnt>>

(* Fault: the index moves on by the slots taken, past the one of allNow. *)
TakeDoneTooFar ==
  /\ pc = "joining" /\ i >= cnt
  /\ ullStart' = allNow
  /\ llStartIdx' = llStartIdx + cnt
  /\ pc' = "idle" /\ allNow' = 0 /\ cnt' = 0 /\ i' = 0
  /\ UNCHANGED <<clock, pItems, ullExpireTime, pLink, active>>

(* After the loop the wheel starts at allNow; the locals are gone. *)
TakeDone ==
  /\ pc = "joining"
  /\ i >= cnt
  /\ ullStart' = allNow
  /\ llStartIdx' = llStartIdx + cnt - 1
  /\ pc' = "idle" /\ allNow' = 0 /\ cnt' = 0 /\ i' = 0
  /\ UNCHANGED <<clock, pItems, ullExpireTime, pLink, active>>

Next == \/ SetClock
        \/ \E x \in Item : \/ \E ms \in Delay : AddTimeout(x, ms)
                           \/ RemoveFromSlot(x)
                           \/ RemoveFromActive(x)
        \/ PopHead
        \/ TakeAllTimeout \/ JoinSlot \/ TakeDone

Spec == Init /\ [][Next]_vars

(* co_eventloop calls TakeAllTimeout once a turn, for ever, and nothing     *)
(* blocks inside it.                                                        *)
FairSpec == /\ Spec
            /\ WF_vars(TakeAllTimeout) /\ WF_vars(JoinSlot) /\ WF_vars(TakeDone)

---------------------------------------------------------------------------
(* TakeAllTimeout takes out every item that has timed out                   *)
(* (co_routine.cpp:492): a call made now reaches the slot of every item     *)
(* whose expiry has come.                                                   *)
Expired(x) == pLink[x] \in Slots /\ ullExpireTime[x] <= clock
SweepCoversDue ==
  pc = "idle" => \A x \in Item :
    Expired(x) => /\ clock >= Start(clock)
                  /\ Count(clock) > ullExpireTime[x] - ullStart

(* And so an item whose expiry has come does not stay on the wheel for ever *)
(* while the loop keeps sweeping.                                           *)
DueIsTaken == \A x \in Item : Expired(x) ~> ~Expired(x)
===========================================================================
