---------------------------- MODULE TimerQueue ----------------------------
(***************************************************************************)
(* What libco's timer manager promises its callers, with no wheel in it:   *)
(* a set of armed items with their deadlines, and a list of the items      *)
(* that are due.  A sweep reads the clock once and then hands over, in the *)
(* order of their deadlines, exactly the armed items whose deadline has    *)
(* come.  TimeoutWheelRefinement shows that stTimeout_t implements it.     *)
(***************************************************************************)
EXTENDS Lists

CONSTANTS Item

VARIABLES clock,     \* the millisecond clock the callers read
          armed,     \* items waiting for their deadline
          deadline,  \* [Item -> time], meaningful for armed items
          due,       \* items handed over, oldest first
          sweeping,  \* a sweep is under way ...
          asOf       \* ... for this reading of the clock

vars == <<clock, armed, deadline, due, sweeping, asOf>>

Init == /\ clock \in Int
        /\ armed = {} /\ deadline \in [Item -> Int]
        /\ due = <<>>
        /\ sweeping = FALSE /\ asOf \in Int

(* The wall clock moves, in either direction. *)
SetClock == /\ clock' \in Int
            /\ UNCHANGED <<armed, deadline, due, sweeping, asOf>>

(* An item that is in no list is armed, never for a moment already past. *)
Arm(i) == /\ ~sweeping
          /\ i \notin armed /\ i \notin ToSet(due)
          /\ deadline'[i] >= clock
          /\ deadline' = [deadline EXCEPT ![i] = deadline'[i]]
          /\ armed' = armed \cup {i}
          /\ UNCHANGED <<clock, due, sweeping, asOf>>

(* Its owner withdraws an item, armed or due. *)
CancelArmed(i) == /\ ~sweeping
                  /\ i \in armed
                  /\ armed' = armed \ {i}
                  /\ UNCHANGED <<clock, deadline, due, sweeping, asOf>>

CancelDue(n) == /\ ~sweeping
                /\ due' = RemoveAt(due, n)
                /\ UNCHANGED <<clock, armed, deadline, sweeping, asOf>>

BeginSweep == /\ ~sweeping
              /\ sweeping' = TRUE /\ asOf' = clock
              /\ UNCHANGED <<clock, armed, deadline, due>>

(* The items that share i's deadline leave together; it has come, and      *)
(* nothing is due earlier.                                                 *)
HandOver(i) ==
  LET batch == {x \in armed : deadline[x] = deadline[i]} IN
  /\ sweeping
  /\ deadline[i] <= asOf
  /\ \A x \in armed : deadline[i] <= deadline[x]
  /\ due' \in Seq(Item) /\ Extends(due, due', batch)
  /\ armed' = armed \ batch
  /\ UNCHANGED <<clock, deadline, sweeping, asOf>>

(* The sweep is over only when nothing that was due is left behind. *)
EndSweep == /\ sweeping
            /\ \A i \in armed : deadline[i] > asOf
            /\ sweeping' = FALSE /\ asOf' \in Int
            /\ UNCHANGED <<clock, armed, deadline, due>>

Pop == /\ ~sweeping
       /\ due # <<>>
       /\ due' = Tail(due)
       /\ UNCHANGED <<clock, armed, deadline, sweeping, asOf>>

Next == \/ SetClock
        \/ \E i \in Item : Arm(i) \/ CancelArmed(i)
        \/ \E n \in 1 .. Len(due) : CancelDue(n)
        \/ BeginSweep
        \/ \E i \in armed : HandOver(i)
        \/ EndSweep
        \/ Pop

Spec == Init /\ [][Next]_vars
===========================================================================
