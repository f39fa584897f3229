---------------------- MODULE TimeoutWheelRefinement ----------------------
(***************************************************************************)
(* Why the wheel of TimeoutWheel keeps time: the invariants that relate a  *)
(* slot to the instant it stands for, and the refinement to TimerQueue.    *)
(***************************************************************************)
EXTENDS TimeoutWheel

(* No int overflows: what the callers ask for, on top of the worst stall,  *)
(* fits in one.                                                            *)
ASSUME NoOverflowAssumption ==
  \A ms \in Delay : MaxStall + ms + 1 < IntHalf
ASSUME StallAssumption == MaxStall + 1 < IntHalf

Armed == {x \in Item : pLink[x] \in Slots}

(* The pLink an item carries is the list it is in, and it is in it once.   *)
(* co_routine.cpp keeps both by hand in AddTail, Join, PopHead and         *)
(* RemoveFromLink.                                                         *)
LinkInv ==
  /\ \A k \in Slots : ToSet(pItems[k]) = {x \in Item : pLink[x] = k}
  /\ \A k \in Slots : Once(pItems[k])
  /\ ToSet(active) = {x \in Item : pLink[x] = ActiveList}
  /\ Once(active)

(* The first instant that TakeAllTimeout has not swept. *)
Horizon == IF pc = "joining" THEN ullStart + i ELSE ullStart

(* An armed item is in the slot that stands for its expiry, and expires    *)
(* within one turn of the wheel that the sweep has not passed yet: a slot  *)
(* never mixes the items of two turns.                                     *)
SlotInv ==
  \A x \in Armed :
    /\ Horizon <= ullExpireTime[x] /\ ullExpireTime[x] < ullStart + iItemSize
    /\ pLink[x] = (llStartIdx + (ullExpireTime[x] - ullStart)) % iItemSize

(* A sweep covers what elapsed, or the whole wheel, and no slot twice. *)
SweepInv ==
  pc = "joining" => /\ i <= cnt /\ 1 <= cnt /\ cnt <= iItemSize
                    /\ ullStart <= allNow
                    /\ \/ cnt = allNow - ullStart + 1
                       \/ cnt = iItemSize /\ cnt < allNow - ullStart + 1

(* The environment's promise about the clock, as the sweeps keep it. *)
StallInv == clock <= ullStart + MaxStall

WheelInv == TypeOK /\ LinkInv /\ SlotInv /\ SweepInv /\ StallInv

(* The wheel behaves as the ideal timer queue: an armed item is handed to  *)
(* the loop by the first sweep at or after its expiry, never before, and   *)
(* in the order of the expiries, whatever the clock does and however many  *)
(* turns of the wheel a sweep is late.                                     *)
Queue == INSTANCE TimerQueue WITH
           armed <- Armed, deadline <- ullExpireTime, due <- active,
           sweeping <- (pc = "joining"), asOf <- allNow

QueueSpec == Queue!Spec
===========================================================================
