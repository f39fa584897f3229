------------------------ MODULE TimeoutWheelProofs ------------------------
(***************************************************************************)
(* Proofs about the timer wheel, for every size of the wheel, every width  *)
(* of an int and every set of timers.                                      *)
(***************************************************************************)
EXTENDS TimeoutWheelRefinement, ListLemmas

---------------------------------------------------------------------------
(* Arithmetic of the slots. *)
LEMMA ModRange ==
  ASSUME NEW a \in Int, NEW n \in Nat \ {0}
  PROVE  a % n \in 0 .. n - 1
  OBVIOUS

LEMMA ModSmall ==
  ASSUME NEW n \in Nat \ {0}, NEW a \in 0 .. n - 1
  PROVE  a % n = a
  OBVIOUS

LEMMA ModInjective ==
  ASSUME NEW n \in Nat \ {0}, NEW s \in Nat,
         NEW d \in 0 .. n - 1, NEW e \in 0 .. n - 1,
         (s + d) % n = (s + e) % n
  PROVE  d = e
<1> DEFINE a == (s + d) \div n
           b == (s + e) \div n
           r == (s + d) % n
<1>1. a \in Int /\ b \in Int /\ r \in Int /\ s + d = n * a + r /\ s + e = n * b + r
  OBVIOUS
<1> HIDE DEF a, b, r
<1>2. d - e = n * (a - b)
  BY <1>1
<1>3. ~(a - b >= 1)
  BY <1>1, <1>2, Z3
<1>4. ~(b - a >= 1)
  BY <1>1, <1>2, Z3
<1>5. a = b
  BY <1>1, <1>3, <1>4
<1> QED
  BY <1>1, <1>5

LEMMA CIntSmall ==
  ASSUME NEW x \in Nat, x < IntHalf
  PROVE  CInt(x) = x
  BY ModSmall, IntAssumption DEF CInt

---------------------------------------------------------------------------
(* Within the bounds on stalls and delays, the ints of AddTimeout and      *)
(* TakeAllTimeout hold the values they stand for.                          *)
LEMMA AcceptedSlot ==
  ASSUME TypeOK, StallInv, NEW ms \in Delay, ~Refused(clock + ms, clock)
  PROVE  /\ clock >= ullStart /\ ms >= 0
         /\ clock + ms < ullStart + iItemSize
         /\ SlotOf(clock + ms, clock)
              = (llStartIdx + ((clock + ms) - ullStart)) % iItemSize
         /\ SlotOf(clock + ms, clock) \in Slots
<1> DEFINE d == (clock + ms) - ullStart
<1>1. /\ clock \in Nat /\ ullStart \in Nat /\ llStartIdx \in Nat /\ ms \in Int
      /\ Start(clock) = ullStart /\ StartIdx(clock) = llStartIdx
  BY DelayAssumption DEF TypeOK, Start, StartIdx
<1>2. clock >= ullStart /\ ms >= 0
  BY <1>1 DEF Refused
<1>3. d \in Nat /\ d < IntHalf
  BY <1>1, <1>2, NoOverflowAssumption, BoundAssumption, IntAssumption DEF StallInv
<1>4. Diff(clock + ms, clock) = d
  BY <1>1, <1>3, CIntSmall DEF Diff
<1>5. d < iItemSize
  BY <1>1, <1>3, <1>4, SizeAssumption DEF Refused
<1>6. SlotOf(clock + ms, clock) = (llStartIdx + d) % iItemSize
  BY <1>1, <1>3, <1>4 DEF SlotOf, CRem
<1>7. (llStartIdx + d) % iItemSize \in Slots
  BY <1>1, <1>3, SizeAssumption, ModRange DEF Slots
<1> QED
  BY <1>1, <1>2, <1>3, <1>5, <1>6, <1>7, SizeAssumption

LEMMA SweepLength ==
  ASSUME TypeOK, StallInv, clock >= Start(clock)
  PROVE  /\ clock >= ullStart
         /\ Elapsed(clock) = clock - ullStart + 1
         /\ Count(clock) \in 1 .. iItemSize
         /\ \/ Count(clock) = clock - ullStart + 1
            \/ Count(clock) = iItemSize /\ Count(clock) < clock - ullStart + 1
<1>1. /\ clock \in Nat /\ ullStart \in Nat /\ Start(clock) = ullStart
  BY DEF TypeOK, Start
<1>2. clock - ullStart + 1 \in Nat /\ clock - ullStart + 1 < IntHalf
  BY <1>1, StallAssumption, BoundAssumption, IntAssumption DEF StallInv
<1>3. Elapsed(clock) = clock - ullStart + 1
  BY <1>1, <1>2, CIntSmall DEF Elapsed
<1> QED
  BY <1>1, <1>2, <1>3, SizeAssumption DEF Count

(* The items of the slot a sweep has reached are those that expire at the  *)
(* instant the slot stands for.                                            *)
LEMMA SlotInstant ==
  ASSUME TypeOK, LinkInv, SlotInv, SweepInv, pc = "joining", i < cnt
  PROVE  /\ (llStartIdx + i) % iItemSize \in Slots
         /\ \A x \in Item : x \in ToSet(pItems[(llStartIdx + i) % iItemSize])
                <=> x \in Armed /\ ullExpireTime[x] = ullStart + i
<1> DEFINE idx == (llStartIdx + i) % iItemSize
<1>1. /\ llStartIdx \in Nat /\ ullStart \in Nat /\ i \in Nat
      /\ i \in 0 .. iItemSize - 1
  BY SizeAssumption DEF TypeOK, SweepInv
<1>2. idx \in Slots
  BY <1>1, SizeAssumption, ModRange DEF Slots
<1>3. ASSUME NEW x \in Item, x \in ToSet(pItems[idx])
      PROVE  x \in Armed /\ ullExpireTime[x] = ullStart + i
  <2>1. pLink[x] = idx /\ x \in Armed
    BY <1>2, <1>3 DEF LinkInv, Armed
  <2> DEFINE d == ullExpireTime[x] - ullStart
  <2>2. /\ d \in 0 .. iItemSize - 1
        /\ idx = (llStartIdx + d) % iItemSize
        /\ ullExpireTime[x] \in Int
    BY <1>1, <2>1, SizeAssumption DEF SlotInv, Horizon, TypeOK
  <2> HIDE DEF d
  <2>3. d = i
    BY <1>1, <2>2, SizeAssumption, ModInjective
  <2>4. ullExpireTime[x] = ullStart + i
    BY <1>1, <2>2, <2>3 DEF d
  <2> QED
    BY <2>1, <2>4
<1>4. ASSUME NEW x \in Item, x \in Armed, ullExpireTime[x] = ullStart + i
      PROVE  x \in ToSet(pItems[idx])
  <2>1. pLink[x] = (llStartIdx + (ullExpireTime[x] - ullStart)) % iItemSize
    BY <1>4 DEF SlotInv
  <2>2. ullExpireTime[x] - ullStart = i
    BY <1>1, <1>4
  <2>3. pLink[x] = idx
    BY <2>1, <2>2
  <2> QED
    BY <1>2, <2>3 DEF LinkInv
<1> QED
  BY <1>2, <1>3, <1>4

---------------------------------------------------------------------------
LEMMA InitInv == Init => WheelInv
<1> SUFFICES ASSUME Init PROVE WheelInv
  OBVIOUS
<1> USE SizeAssumption, BoundAssumption DEF Init, AllocTimeout, Slots
<1>1. TypeOK
  BY DEF TypeOK, NoLink, ActiveList
<1>2. LinkInv
  BY DEF LinkInv, ToSet, Once, NoLink, ActiveList
<1>3. SlotInv
  BY DEF SlotInv, Armed, NoLink
<1> QED
  BY <1>1, <1>2, <1>3 DEF WheelInv, SweepInv, StallInv

LEMMA SetClockStep ==
  ASSUME WheelInv, SetClock PROVE WheelInv'
<1> USE DEF WheelInv, SetClock, wheel, sweep
<1>1. TypeOK'
  BY BoundAssumption DEF TypeOK
<1>2. LinkInv'
  BY DEF LinkInv
<1>3. SlotInv'
  BY DEF SlotInv, Armed, Horizon
<1>4. StallInv'
  BY BoundAssumption DEF StallInv, TypeOK
<1> QED
  BY <1>1, <1>2, <1>3, <1>4 DEF SweepInv

LEMMA AddTimeoutStep ==
  ASSUME WheelInv, NEW x \in Item, NEW ms \in Delay, AddTimeout(x, ms)
  PROVE  WheelInv'
<1> DEFINE e == clock + ms
           slot == SlotOf(e, clock)
<1>1. /\ pc = "idle" /\ pLink[x] = NoLink
      /\ ullStart' = ullStart /\ llStartIdx' = llStartIdx
      /\ UNCHANGED <<clock, active, sweep>>
  BY DEF AddTimeout, WheelInv, TypeOK, Start, StartIdx
<1>2. CASE Refused(e, clock)
  <2>1. UNCHANGED vars
    BY <1>1, <1>2 DEF AddTimeout, vars, wheel
  <2> QED
    BY <2>1 DEF vars, wheel, sweep, WheelInv, TypeOK, LinkInv, SlotInv,
                SweepInv, StallInv, Armed, Horizon
<1>3. CASE ~Refused(e, clock)
  <2>1. /\ clock >= ullStart /\ ms >= 0
        /\ e < ullStart + iItemSize
        /\ slot = (llStartIdx + (e - ullStart)) % iItemSize
        /\ slot \in Slots
    <3>1. TypeOK /\ StallInv /\ ~Refused(clock + ms, clock)
      BY <1>3 DEF WheelInv
    <3> HIDE DEF e, slot
    <3>2. /\ clock >= ullStart /\ ms >= 0
          /\ clock + ms < ullStart + iItemSize
          /\ SlotOf(clock + ms, clock)
               = (llStartIdx + ((clock + ms) - ullStart)) % iItemSize
          /\ SlotOf(clock + ms, clock) \in Slots
      BY <3>1, AcceptedSlot
    <3> QED
      BY <3>2 DEF e, slot
  <2>2. /\ ullExpireTime' = [ullExpireTime EXCEPT ![x] = e]
        /\ pItems' = [pItems EXCEPT ![slot] = Append(@, x)]
        /\ pLink' = [pLink EXCEPT ![x] = slot]
    BY <1>3, <2>1 DEF AddTimeout
  <2>3. e \in Int /\ e >= ullStart
    BY <2>1, DelayAssumption DEF WheelInv, TypeOK
  <2> HIDE DEF e, slot
  <2>4. TypeOK'
    BY <1>1, <2>1, <2>2, <2>3 DEF WheelInv, TypeOK, sweep
  <2>5. LinkInv'
    <3>1. x \notin ToSet(pItems[slot])
      BY <1>1, <2>1, SizeAssumption DEF WheelInv, LinkInv, Slots, NoLink
    <3>2. /\ ToSet(Append(pItems[slot], x)) = ToSet(pItems[slot]) \cup {x}
          /\ Once(Append(pItems[slot], x))
      BY <2>1, <3>1, AppendMembers DEF WheelInv, TypeOK, LinkInv
    <3>3. \A k \in Slots : /\ ToSet(pItems'[k]) = {y \in Item : pLink'[y] = k}
                          /\ Once(pItems'[k])
      BY <1>1, <2>1, <2>2, <3>2, SizeAssumption
      DEF WheelInv, TypeOK, LinkInv, Slots, NoLink
    <3>4. ToSet(active') = {y \in Item : pLink'[y] = ActiveList} /\ Once(active')
      BY <1>1, <2>1, <2>2, SizeAssumption
      DEF WheelInv, TypeOK, LinkInv, Slots, NoLink, ActiveList
    <3> QED
      BY <3>3, <3>4 DEF LinkInv
  <2>6. SlotInv'
    <3>1. ASSUME NEW y \in Item, pLink'[y] \in Slots, y # x
          PROVE  y \in Armed /\ ullExpireTime'[y] = ullExpireTime[y] /\ pLink'[y] = pLink[y]
      BY <2>2, <3>1 DEF WheelInv, TypeOK, Armed
    <3>2. Horizon' = ullStart
      BY <1>1 DEF Horizon, sweep
    <3>3. Horizon = ullStart
      BY <1>1 DEF Horizon
    <3>4. pLink'[x] = slot /\ ullExpireTime'[x] = e
      BY <2>2 DEF WheelInv, TypeOK
    <3> QED
      BY <1>1, <2>1, <2>3, <3>1, <3>2, <3>3, <3>4 DEF WheelInv, SlotInv, Armed, e
  <2> QED
    BY <1>1, <2>4, <2>5, <2>6 DEF WheelInv, SweepInv, StallInv, sweep
<1> QED
  BY <1>2, <1>3

LEMMA RemoveFromSlotStep ==
  ASSUME WheelInv, NEW x \in Item, RemoveFromSlot(x) PROVE WheelInv'
<1> DEFINE k == pLink[x]
<1>1. PICK n \in DOMAIN pItems[k] :
        pItems[k][n] = x /\ pItems' = [pItems EXCEPT ![k] = RemoveAt(@, n)]
  BY DEF RemoveFromSlot
<1>2. /\ pc = "idle" /\ k \in Slots
      /\ pLink' = [pLink EXCEPT ![x] = NoLink]
      /\ UNCHANGED <<clock, ullStart, llStartIdx, ullExpireTime, active, sweep>>
  BY DEF RemoveFromSlot
<1>3. /\ RemoveAt(pItems[k], n) \in Seq(Item)
      /\ ToSet(RemoveAt(pItems[k], n)) = ToSet(pItems[k]) \ {x}
      /\ Once(RemoveAt(pItems[k], n))
  <2>1. pItems[k] \in Seq(Item) /\ n \in 1 .. Len(pItems[k]) /\ Once(pItems[k])
    BY <1>1, <1>2 DEF WheelInv, TypeOK, LinkInv
  <2> QED
    BY <1>1, <2>1, RemoveAtIndices, RemoveMembers
<1> HIDE DEF k
<1>4. TypeOK'
  BY <1>1, <1>2, <1>3 DEF WheelInv, TypeOK, sweep
<1>5. LinkInv'
  BY <1>1, <1>2, <1>3, SizeAssumption
  DEF WheelInv, TypeOK, LinkInv, Slots, NoLink, ActiveList, k
<1>6. SlotInv'
  BY <1>2, SizeAssumption
  DEF WheelInv, TypeOK, SlotInv, Armed, Slots, NoLink, Horizon, sweep
<1> QED
  BY <1>2, <1>4, <1>5, <1>6 DEF WheelInv, SweepInv, StallInv, sweep

LEMMA RemoveFromActiveStep ==
  ASSUME WheelInv, NEW x \in Item, RemoveFromActive(x) PROVE WheelInv'
<1>1. PICK n \in DOMAIN active : active[n] = x /\ active' = RemoveAt(active, n)
  BY DEF RemoveFromActive
<1>2. /\ pc = "idle" /\ pLink[x] = ActiveList
      /\ pLink' = [pLink EXCEPT ![x] = NoLink]
      /\ UNCHANGED <<clock, pItems, ullStart, llStartIdx, ullExpireTime, sweep>>
  BY DEF RemoveFromActive, wheel
<1>3. /\ active' \in Seq(Item)
      /\ ToSet(active') = ToSet(active) \ {x}
      /\ Once(active')
  <2>1. active \in Seq(Item) /\ n \in 1 .. Len(active) /\ Once(active)
    BY <1>1 DEF WheelInv, TypeOK, LinkInv
  <2> QED
    BY <1>1, <2>1, RemoveAtIndices, RemoveMembers
<1>4. TypeOK'
  BY <1>2, <1>3 DEF WheelInv, TypeOK, sweep
<1>5. LinkInv'
  BY <1>2, <1>3, SizeAssumption
  DEF WheelInv, TypeOK, LinkInv, Slots, NoLink, ActiveList
<1>6. SlotInv'
  BY <1>2, SizeAssumption
  DEF WheelInv, TypeOK, SlotInv, Armed, Slots, NoLink, Horizon, sweep
<1> QED
  BY <1>2, <1>4, <1>5, <1>6 DEF WheelInv, SweepInv, StallInv, sweep

LEMMA PopHeadStep ==
  ASSUME WheelInv, PopHead PROVE WheelInv'
<1> DEFINE x == Head(active)
<1>1. /\ pc = "idle" /\ active # <<>> /\ active' = Tail(active)
      /\ pLink' = [pLink EXCEPT ![x] = NoLink]
      /\ UNCHANGED <<clock, pItems, ullStart, llStartIdx, ullExpireTime, sweep>>
  BY DEF PopHead, wheel
<1>2. /\ x \in Item /\ active' \in Seq(Item)
      /\ ToSet(active') = ToSet(active) \ {x}
      /\ Once(active')
  BY <1>1, HeadTailProperties, TailMembers DEF WheelInv, TypeOK, LinkInv
<1>3. pLink[x] = ActiveList
  <2>1. x \in ToSet(active)
    BY <1>1, <1>2, EmptySeq DEF WheelInv, TypeOK, ToSet
  <2> QED
    BY <2>1 DEF WheelInv, LinkInv
<1> HIDE DEF x
<1>4. TypeOK'
  BY <1>1, <1>2 DEF WheelInv, TypeOK, sweep
<1>5. LinkInv'
  BY <1>1, <1>2, <1>3, SizeAssumption
  DEF WheelInv, TypeOK, LinkInv, Slots, NoLink, ActiveList
<1>6. SlotInv'
  BY <1>1, <1>2, SizeAssumption
  DEF WheelInv, TypeOK, SlotInv, Armed, Slots, NoLink, Horizon, sweep
<1> QED
  BY <1>1, <1>4, <1>5, <1>6 DEF WheelInv, SweepInv, StallInv, sweep

LEMMA TakeAllTimeoutStep ==
  ASSUME WheelInv, TakeAllTimeout PROVE WheelInv'
<1>1. /\ pc = "idle" /\ clock >= Start(clock)
      /\ ullStart' = ullStart /\ llStartIdx' = llStartIdx
      /\ cnt' = Count(clock) /\ i' = 0 /\ allNow' = clock /\ pc' = "joining"
      /\ UNCHANGED <<clock, pItems, ullExpireTime, pLink, active>>
  BY DEF TakeAllTimeout, WheelInv, TypeOK, Start, StartIdx
<1>2. /\ clock >= ullStart
      /\ Count(clock) \in 1 .. iItemSize
      /\ \/ Count(clock) = clock - ullStart + 1
         \/ Count(clock) = iItemSize /\ Count(clock) < clock - ullStart + 1
  BY <1>1, SweepLength DEF WheelInv
<1>3. TypeOK'
  BY <1>1, <1>2 DEF WheelInv, TypeOK
<1>4. LinkInv'
  BY <1>1 DEF WheelInv, LinkInv
<1>5. SlotInv'
  BY <1>1 DEF WheelInv, TypeOK, SlotInv, Armed, Horizon
<1>6. SweepInv'
  BY <1>1, <1>2, SizeAssumption DEF WheelInv, SweepInv, TypeOK
<1> QED
  BY <1>1, <1>3, <1>4, <1>5, <1>6 DEF WheelInv, StallInv

LEMMA JoinSlotStep ==
  ASSUME WheelInv, JoinSlot PROVE WheelInv'
<1> DEFINE idx == (llStartIdx + i) % iItemSize
           batch == ToSet(pItems[idx])
<1>1. /\ pc = "joining" /\ i < cnt
      /\ active' = active \o pItems[idx]
      /\ pItems' = [pItems EXCEPT ![idx] = <<>>]
      /\ pLink' = [x \in Item |-> IF x \in batch THEN ActiveList ELSE pLink[x]]
      /\ i' = i + 1
      /\ UNCHANGED <<clock, ullStart, llStartIdx, ullExpireTime, pc, allNow, cnt>>
  BY DEF JoinSlot
<1>2. /\ idx \in Slots
      /\ \A x \in Item : x \in batch <=> x \in Armed /\ ullExpireTime[x] = ullStart + i
  BY <1>1, SlotInstant DEF WheelInv
<1>3. /\ pItems[idx] \in Seq(Item) /\ Once(pItems[idx])
      /\ active \in Seq(Item) /\ Once(active)
      /\ batch = {x \in Item : pLink[x] = idx}
      /\ ToSet(active) = {x \in Item : pLink[x] = ActiveList}
  BY <1>2 DEF WheelInv, TypeOK, LinkInv
<1> HIDE DEF idx, batch
<1>4. /\ active' \in Seq(Item) /\ Once(active')
      /\ ToSet(active') = ToSet(active) \cup batch
  <2>1. ToSet(active) \cap ToSet(pItems[idx]) = {}
    BY <1>2, <1>3, SizeAssumption DEF Slots, ActiveList, batch
  <2>2. active \o pItems[idx] \in Seq(Item)
    BY <1>3, ConcatProperties
  <2>3. /\ ToSet(active \o pItems[idx]) = ToSet(active) \cup ToSet(pItems[idx])
        /\ Once(active \o pItems[idx])
    BY <1>3, <2>1, ConcatMembers
  <2> QED
    BY <1>1, <2>2, <2>3 DEF batch
<1>5. TypeOK'
  <2>1. pItems' \in [Slots -> Seq(Item)]
    BY <1>1, <1>2, EmptySeq DEF WheelInv, TypeOK
  <2>2. pLink' \in [Item -> Slots \cup {ActiveList, NoLink}]
    BY <1>1 DEF WheelInv, TypeOK
  <2> QED
    BY <1>1, <1>4, <2>1, <2>2 DEF WheelInv, TypeOK
<1>6. LinkInv'
  <2>1. ToSet(<<>>) = {} /\ Once(<<>>)
    BY DEF ToSet, Once
  <2>2. ASSUME NEW k \in Slots
        PROVE  ToSet(pItems'[k]) = {x \in Item : pLink'[x] = k} /\ Once(pItems'[k])
    <3>1. CASE k = idx
      <4>1. {x \in Item : pLink'[x] = k} = {}
        BY <1>1, <1>3, <3>1, <2>2, SizeAssumption DEF Slots, ActiveList
      <4> QED
        BY <1>1, <1>2, <2>1, <3>1, <4>1 DEF WheelInv, TypeOK
    <3>2. CASE k # idx
      <4>1. {x \in Item : pLink'[x] = k} = {x \in Item : pLink[x] = k}
        BY <1>1, <1>2, <1>3, <2>2, <3>2, SizeAssumption DEF Slots, ActiveList
      <4>2. pItems'[k] = pItems[k]
        BY <1>1, <2>2, <3>2 DEF WheelInv, TypeOK
      <4> QED
        BY <2>2, <4>1, <4>2 DEF WheelInv, LinkInv
    <3> QED
      BY <3>1, <3>2
  <2>3. ToSet(active') = {x \in Item : pLink'[x] = ActiveList}
    BY <1>1, <1>3, <1>4
  <2> QED
    BY <1>4, <2>2, <2>3 DEF LinkInv
<1>7. SlotInv'
  <2>1. ASSUME NEW x \in Item, pLink'[x] \in Slots
        PROVE  x \in Armed /\ x \notin batch /\ pLink'[x] = pLink[x]
    BY <1>1, <2>1, SizeAssumption DEF Armed, Slots, ActiveList
  <2>2. ASSUME NEW x \in Item, pLink'[x] \in Slots
        PROVE  ullExpireTime[x] >= ullStart + i /\ ullExpireTime[x] # ullStart + i
    BY <1>1, <1>2, <2>1, <2>2 DEF WheelInv, SlotInv, Horizon
  <2>3. Horizon' = ullStart + i + 1
    BY <1>1 DEF Horizon, WheelInv, TypeOK
  <2>4. \A x \in Item : ullExpireTime[x] \in Int /\ ullStart + i \in Int
    BY DEF WheelInv, TypeOK
  <2> QED
    BY <1>1, <2>1, <2>2, <2>3, <2>4 DEF WheelInv, SlotInv, Armed
<1>8. SweepInv'
  BY <1>1 DEF WheelInv, SweepInv, TypeOK
<1> QED
  BY <1>1, <1>5, <1>6, <1>7, <1>8 DEF WheelInv, StallInv

(* When the loop of a sweep is over, whatever is left on the wheel is in    *)
(* the future, and the new origin of the wheel moves no item.               *)
LEMMA SweptPast ==
  ASSUME WheelInv, pc = "joining", i >= cnt, NEW x \in Armed
  PROVE  /\ allNow < ullExpireTime[x] /\ ullExpireTime[x] < allNow + iItemSize
         /\ (llStartIdx + cnt - 1) + (ullExpireTime[x] - allNow)
              = llStartIdx + (ullExpireTime[x] - ullStart)
<1>1. /\ i = cnt /\ cnt \in 1 .. iItemSize /\ ullStart <= allNow
      /\ \/ cnt = allNow - ullStart + 1
         \/ cnt = iItemSize /\ cnt < allNow - ullStart + 1
      /\ {ullStart, allNow, llStartIdx} \subseteq Nat
  BY SizeAssumption DEF WheelInv, SweepInv, TypeOK
<1>2. /\ ullStart + cnt <= ullExpireTime[x]
      /\ ullExpireTime[x] < ullStart + iItemSize
      /\ ullExpireTime[x] \in Int
  BY <1>1 DEF WheelInv, TypeOK, SlotInv, Armed, Horizon
<1>3. cnt = allNow - ullStart + 1
  BY <1>1, <1>2, SizeAssumption
<1> QED
  BY <1>1, <1>2, <1>3, SizeAssumption

LEMMA TakeDoneStep ==
  ASSUME WheelInv, TakeDone PROVE WheelInv'
<1>1. /\ pc = "joining" /\ i >= cnt
      /\ ullStart' = allNow /\ llStartIdx' = llStartIdx + cnt - 1
      /\ pc' = "idle" /\ allNow' = 0 /\ cnt' = 0 /\ i' = 0
      /\ UNCHANGED <<clock, pItems, ullExpireTime, pLink, active>>
  BY DEF TakeDone
<1>2. /\ i = cnt /\ cnt \in 1 .. iItemSize /\ ullStart <= allNow
      /\ \/ cnt = allNow - ullStart + 1
         \/ cnt = iItemSize /\ cnt < allNow - ullStart + 1
      /\ {ullStart, allNow, llStartIdx, clock} \subseteq Nat /\ ullStart > 0
  BY <1>1, SizeAssumption DEF WheelInv, SweepInv, TypeOK
<1>3. TypeOK'
  BY <1>1, <1>2 DEF WheelInv, TypeOK
<1>4. LinkInv'
  BY <1>1 DEF WheelInv, LinkInv
<1>5. ASSUME NEW x \in Armed
      PROVE  /\ allNow < ullExpireTime[x] /\ ullExpireTime[x] < allNow + iItemSize
             /\ llStartIdx' + (ullExpireTime[x] - allNow)
                  = llStartIdx + (ullExpireTime[x] - ullStart)
  BY <1>1, SweptPast
<1>6. SlotInv'
  <2>1. Armed' = Armed /\ Horizon' = allNow
    BY <1>1 DEF Armed, Horizon
  <2>2. ASSUME NEW x \in Armed
        PROVE  pLink[x] = (llStartIdx' + (ullExpireTime[x] - allNow)) % iItemSize
    BY <1>5 DEF WheelInv, SlotInv
  <2> QED
    BY <1>1, <1>5, <2>1, <2>2, <1>2 DEF SlotInv, Armed, WheelInv, TypeOK
<1>7. StallInv'
  BY <1>1, <1>2, BoundAssumption DEF WheelInv, StallInv
<1> QED
  BY <1>1, <1>3, <1>4, <1>6, <1>7 DEF WheelInv, SweepInv

---------------------------------------------------------------------------
THEOREM Invariance == Spec => []WheelInv
<1>1. WheelInv /\ [Next]_vars => WheelInv'
  <2> SUFFICES ASSUME WheelInv, [Next]_vars PROVE WheelInv'
    OBVIOUS
  <2>1. CASE UNCHANGED vars
    BY <2>1 DEF vars, wheel, sweep, WheelInv, TypeOK, LinkInv, SlotInv,
                SweepInv, StallInv, Armed, Horizon
  <2>2. CASE SetClock
    BY <2>2, SetClockStep
  <2>3. ASSUME NEW x \in Item, NEW ms \in Delay, AddTimeout(x, ms) PROVE WheelInv'
    BY <2>3, AddTimeoutStep
  <2>4. ASSUME NEW x \in Item, RemoveFromSlot(x) PROVE WheelInv'
    BY <2>4, RemoveFromSlotStep
  <2>5. ASSUME NEW x \in Item, RemoveFromActive(x) PROVE WheelInv'
    BY <2>5, RemoveFromActiveStep
  <2>6. CASE PopHead
    BY <2>6, PopHeadStep
  <2>7. CASE TakeAllTimeout
    BY <2>7, TakeAllTimeoutStep
  <2>8. CASE JoinSlot
    BY <2>8, JoinSlotStep
  <2>9. CASE TakeDone
    BY <2>9, TakeDoneStep
  <2> QED
    BY <2>1, <2>2, <2>3, <2>4, <2>5, <2>6, <2>7, <2>8, <2>9 DEF Next
<1> QED
  BY InitInv, <1>1, PTL DEF Spec

(* The wheel's state always has its type. *)
THEOREM TypeCorrect == Spec => []TypeOK
<1>1. WheelInv => TypeOK
  BY DEF WheelInv
<1> QED
  BY Invariance, <1>1, PTL

(* Every item's pLink names the one list it is in (co_routine.cpp:162-280). *)
THEOREM LinksCorrect == Spec => []LinkInv
<1>1. WheelInv => LinkInv
  BY DEF WheelInv
<1> QED
  BY Invariance, <1>1, PTL

(* Every armed item is in the slot of its expiry, whatever the size of the  *)
(* wheel and however late the sweeps (co_routine.cpp:442-534).              *)
THEOREM SlotsCorrect == Spec => []SlotInv
<1>1. WheelInv => SlotInv
  BY DEF WheelInv
<1> QED
  BY Invariance, <1>1, PTL

(* A sweep made at any moment reaches every item that is due               *)
(* (co_routine.cpp:498-534).                                                *)
THEOREM SweepsCoverDue == Spec => []SweepCoversDue
<1>1. WheelInv => SweepCoversDue
  <2> SUFFICES ASSUME WheelInv, pc = "idle", NEW x \in Item, Expired(x)
               PROVE  /\ clock >= Start(clock)
                      /\ Count(clock) > ullExpireTime[x] - ullStart
    BY DEF SweepCoversDue
  <2>1. /\ ullStart <= ullExpireTime[x] /\ ullExpireTime[x] < ullStart + iItemSize
        /\ ullExpireTime[x] <= clock
    BY DEF WheelInv, SlotInv, Armed, Horizon, Expired
  <2>2. /\ {clock, ullStart, ullExpireTime[x]} \subseteq Int /\ Start(clock) = ullStart
    BY DEF WheelInv, TypeOK, Start
  <2>3. clock >= Start(clock)
    BY <2>1, <2>2
  <2> QED
    BY <2>1, <2>2, <2>3, SweepLength, SizeAssumption DEF WheelInv
<1> QED
  BY Invariance, <1>1, PTL

---------------------------------------------------------------------------
(* Each step of the wheel is a step of the ideal timer queue, or none.      *)
LEMMA AddTimeoutArms ==
  ASSUME WheelInv, NEW x \in Item, NEW ms \in Delay, AddTimeout(x, ms)
  PROVE  Queue!Arm(x) \/ UNCHANGED Queue!vars
<1>1. /\ pc = "idle" /\ pLink[x] = NoLink
      /\ UNCHANGED <<clock, active, sweep>>
  BY DEF AddTimeout
<1>2. CASE Refused(clock + ms, clock)
  <2>1. UNCHANGED <<pLink, ullExpireTime>>
    BY <1>2 DEF AddTimeout
  <2> QED
    BY <1>1, <2>1 DEF Queue!vars, Armed, sweep
<1>3. CASE ~Refused(clock + ms, clock)
  <2>1. ms >= 0 /\ SlotOf(clock + ms, clock) \in Slots
    BY <1>3, AcceptedSlot DEF WheelInv
  <2>2. /\ ullExpireTime' = [ullExpireTime EXCEPT ![x] = clock + ms]
        /\ pLink' = [pLink EXCEPT ![x] = SlotOf(clock + ms, clock)]
    BY <1>3, <2>1 DEF AddTimeout
  <2>3. x \notin Armed /\ Armed' = Armed \cup {x}
    BY <1>1, <2>1, <2>2, SizeAssumption DEF WheelInv, TypeOK, Armed, Slots, NoLink
  <2>4. x \notin ToSet(active)
    BY <1>1, SizeAssumption DEF WheelInv, LinkInv, NoLink, ActiveList
  <2>5. ullExpireTime'[x] >= clock
    BY <2>1, <2>2, DelayAssumption DEF WheelInv, TypeOK
  <2>6. ullExpireTime' = [ullExpireTime EXCEPT ![x] = ullExpireTime'[x]]
    BY <2>2 DEF WheelInv, TypeOK
  <2> QED
    BY <1>1, <2>3, <2>4, <2>5, <2>6 DEF Queue!Arm, Queue!ToSet, ToSet, sweep
<1> QED
  BY <1>2, <1>3

LEMMA RemovesCancel ==
  ASSUME WheelInv, NEW x \in Item
  PROVE  /\ RemoveFromSlot(x) => Queue!CancelArmed(x)
         /\ RemoveFromActive(x) => \E n \in 1 .. Len(active) : Queue!CancelDue(n)
<1>1. ASSUME RemoveFromSlot(x) PROVE Queue!CancelArmed(x)
  <2>1. Armed' = Armed \ {x} /\ x \in Armed
    BY <1>1, SizeAssumption DEF RemoveFromSlot, WheelInv, TypeOK, Armed, Slots, NoLink
  <2> QED
    BY <1>1, <2>1 DEF RemoveFromSlot, Queue!CancelArmed, sweep
<1>2. ASSUME RemoveFromActive(x)
      PROVE  \E n \in 1 .. Len(active) : Queue!CancelDue(n)
  <2>1. PICK n \in DOMAIN active : active' = RemoveAt(active, n)
    BY <1>2 DEF RemoveFromActive
  <2>2. n \in 1 .. Len(active)
    BY DEF WheelInv, TypeOK
  <2>3. Armed' = Armed
    BY <1>2, SizeAssumption
    DEF RemoveFromActive, WheelInv, TypeOK, Armed, Slots, NoLink, ActiveList
  <2> QED
    BY <1>2, <2>1, <2>2, <2>3 DEF RemoveFromActive, Queue!CancelDue, Queue!RemoveAt, RemoveAt, sweep
<1> QED
  BY <1>1, <1>2

LEMMA PopHeadPops == ASSUME WheelInv, PopHead PROVE Queue!Pop
<1>1. Head(active) \in Item /\ pLink[Head(active)] = ActiveList
  <2>1. Head(active) \in Item /\ Head(active) \in ToSet(active)
    BY HeadTailProperties, EmptySeq DEF PopHead, WheelInv, TypeOK, ToSet
  <2> QED
    BY <2>1 DEF WheelInv, LinkInv
<1>2. Armed' = Armed
  BY <1>1, SizeAssumption
  DEF PopHead, WheelInv, TypeOK, Armed, Slots, NoLink, ActiveList
<1> QED
  BY <1>2 DEF PopHead, Queue!Pop, sweep

LEMMA JoinSlotHandsOver ==
  ASSUME WheelInv, JoinSlot
  PROVE  (\E x \in Armed : Queue!HandOver(x)) \/ UNCHANGED Queue!vars
<1> DEFINE idx == (llStartIdx + i) % iItemSize
           batch == ToSet(pItems[idx])
<1>1. /\ pc = "joining" /\ pc' = "joining" /\ i < cnt
      /\ active' = active \o pItems[idx]
      /\ pLink' = [x \in Item |-> IF x \in batch THEN ActiveList ELSE pLink[x]]
      /\ UNCHANGED <<clock, ullExpireTime, allNow>>
  BY DEF JoinSlot
<1>2. /\ idx \in Slots
      /\ \A x \in Item : x \in batch <=> x \in Armed /\ ullExpireTime[x] = ullStart + i
  BY <1>1, SlotInstant DEF WheelInv
<1>3. WheelInv'
  BY JoinSlotStep
<1>4. /\ active \in Seq(Item) /\ pItems[idx] \in Seq(Item)
      /\ batch \subseteq Item
  BY <1>2 DEF WheelInv, TypeOK, LinkInv
<1> HIDE DEF idx
<1>5. CASE batch = {}
  <2>1. pItems[idx] = <<>>
    BY <1>4, <1>5, EmptyMembers
  <2>2. active' = active
    BY <1>1, <1>4, <2>1, ConcatEmptySeq
  <2>3. pLink' = pLink
    BY <1>1, <1>5 DEF WheelInv, TypeOK
  <2> QED
    BY <1>1, <2>2, <2>3 DEF Queue!vars, Armed
<1>6. CASE batch # {}
  <2>1. PICK x \in Armed : x \in batch
    BY <1>2, <1>4, <1>6
  <2>2. ullExpireTime[x] = ullStart + i
    BY <1>2, <2>1 DEF Armed
  <2>3. batch = {y \in Armed : ullExpireTime[y] = ullExpireTime[x]}
    BY <1>2, <1>4, <2>2 DEF Armed
  <2>4. ullExpireTime[x] <= allNow
    BY <1>1, <2>2 DEF WheelInv, TypeOK, SweepInv
  <2>5. \A y \in Armed : ullExpireTime[x] <= ullExpireTime[y]
    BY <1>1, <2>2 DEF WheelInv, SlotInv, Horizon
  <2>6. Armed' = Armed \ batch
    BY <1>1, <1>4, SizeAssumption DEF WheelInv, TypeOK, Armed, Slots, ActiveList
  <2>7. active' \in Seq(Item) /\ Extends(active, active', batch)
    <3>1. Once(active \o pItems[idx])
      BY <1>1, <1>3 DEF WheelInv, LinkInv
    <3>2. Extends(active, active \o pItems[idx], ToSet(pItems[idx]))
      BY <1>4, <3>1, ConcatExtends
    <3> QED
      BY <1>1, <1>3, <3>2 DEF WheelInv, TypeOK
  <2> HIDE DEF batch
  <2>8. Queue!HandOver(x)
    BY <1>1, <2>3, <2>4, <2>5, <2>6, <2>7 DEF Queue!HandOver, Queue!Extends, Extends
  <2> QED
    BY <2>8
<1> QED
  BY <1>5, <1>6

LEMMA TakeDoneEnds == ASSUME WheelInv, TakeDone PROVE Queue!EndSweep
<1>1. Armed' = Armed
  BY DEF TakeDone, Armed
<1>2. \A x \in Armed : ullExpireTime[x] > allNow
  BY SweptPast DEF TakeDone
<1> QED
  BY <1>1, <1>2 DEF TakeDone, Queue!EndSweep

(* The timer wheel implements the ideal timer queue (co_routine.cpp:418-534). *)
THEOREM Refinement == Spec => QueueSpec
<1>1. Init => Queue!Init
  BY BoundAssumption, SizeAssumption
  DEF Init, AllocTimeout, Queue!Init, Armed, Slots, NoLink
<1>2. WheelInv /\ [Next]_vars => [Queue!Next]_Queue!vars
  <2> SUFFICES ASSUME WheelInv, [Next]_vars PROVE [Queue!Next]_Queue!vars
    OBVIOUS
  <2>1. CASE UNCHANGED vars
    BY <2>1 DEF vars, wheel, sweep, Queue!vars, Armed
  <2>2. CASE SetClock
    <3>1. Queue!SetClock
      BY <2>2 DEF SetClock, Queue!SetClock, wheel, sweep, Armed
    <3> QED
      BY <3>1 DEF Queue!Next
  <2>3. ASSUME NEW x \in Item, NEW ms \in Delay, AddTimeout(x, ms)
        PROVE  [Queue!Next]_Queue!vars
    BY <2>3, AddTimeoutArms DEF Queue!Next
  <2>4. ASSUME NEW x \in Item, RemoveFromSlot(x) \/ RemoveFromActive(x)
        PROVE  [Queue!Next]_Queue!vars
    BY <2>4, RemovesCancel DEF Queue!Next
  <2>5. CASE PopHead
    BY <2>5, PopHeadPops DEF Queue!Next
  <2>6. CASE TakeAllTimeout
    <3>1. Queue!BeginSweep
      BY <2>6 DEF TakeAllTimeout, Queue!BeginSweep, Armed
    <3> QED
      BY <3>1 DEF Queue!Next
  <2>7. CASE JoinSlot
    BY <2>7, JoinSlotHandsOver DEF Queue!Next
  <2>8. CASE TakeDone
    BY <2>8, TakeDoneEnds DEF Queue!Next
  <2> QED
    BY <2>1, <2>2, <2>3, <2>4, <2>5, <2>6, <2>7, <2>8 DEF Next
<1> QED
  BY <1>1, <1>2, Invariance, PTL DEF Spec, QueueSpec, Queue!Spec
===========================================================================
