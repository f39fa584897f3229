----------------------- MODULE ShareStackRefinement -----------------------
(***************************************************************************)
(* Why a coroutine that shares its stack does not notice: where the frames *)
(* of every coroutine are at every moment, and the refinement to           *)
(* Coroutines, whose coroutines have nothing to share.                     *)
(***************************************************************************)
EXTENDS ShareStack

CONSTANT NoFrames

ASSUME NoFramesAssumption == NoFrames \notin Frames

(* The programs that keep to the discipline co_free needs: a coroutine is   *)
(* freed only after another has taken its shared stack.                     *)
ASSUME DisciplineAssumption == FreeOccupant = FALSE

Live(co)   == co \in allocated /\ cStart[co] /\ ~cEnd[co]
Shares(co) == cIsShareStack[co]
Occupant(co) == occupy[stack_mem[co]]

(* coctx_swap has switched to co, but its frames are still in save_buffer. *)
ToRestore(co) == pc = "swapped" /\ pending_co = co /\ occupy_co # co

(* Where a live coroutine's frames are: on its stack, unless another        *)
(* coroutine has used the stack since.                                      *)
Displaced(co) == Shares(co) /\ (Occupant(co) # co \/ ToRestore(co))
Place(co)  == IF Displaced(co) THEN save_buffer[co] ELSE stack[stack_mem[co]]
Locals(co) == IF Live(co) THEN Place(co) ELSE NoFrames
AllLocals  == [co \in Co |-> Locals(co)]

(* The code that runs finds its own frames on its stack, also when others   *)
(* used the stack while it was suspended (co_swap, co_routine.cpp:763-824). *)
FramesInPlace == pc = "run" => ~Displaced(Curr) /\ stack[stack_mem[Curr]].owner = Curr

(* Nothing that is needed is lost: the frames of every live coroutine,      *)
(* suspended or waiting for the one it resumed, are in one of the two       *)
(* places co_swap will look.                                                *)
FramesKept == \A co \in Co : Live(co) => Place(co) # NULL /\ Place(co).owner = co

(* The chain of resumes, as the callers keep it.                            *)
ChainInv ==
  /\ Len(pCallStack) >= 1 /\ pCallStack[1] = MainCo
  /\ \A m, n \in DOMAIN pCallStack : pCallStack[m] = pCallStack[n] => m = n
  /\ \A n \in DOMAIN pCallStack : Live(pCallStack[n])
  /\ ~Shares(MainCo)

(* A stack's occupant runs on it and has run; once somebody has run on a    *)
(* shared stack it has an occupant.                                         *)
OccupantInv ==
  /\ \A co \in allocated : IF Shares(co) THEN stack_mem[co] \in SharedMem
                                         ELSE stack_mem[co] = co
  /\ \A m \in SharedMem : occupy[m] # NULL =>
       LET co == occupy[m]
       IN  co \in allocated /\ Shares(co) /\ stack_mem[co] = m /\ cStart[co]
  /\ \A co \in Co : Live(co) /\ Shares(co) => Occupant(co) # NULL

(* Between the two halves of co_swap the env tells the second half what to  *)
(* restore.                                                                 *)
SwapInv ==
  /\ Shares(Curr) => Occupant(Curr) = Curr
  /\ pc = "swapped" => IF Shares(Curr) THEN pending_co = Curr /\ occupy_co # NULL
                                       ELSE pending_co = NULL /\ occupy_co = NULL

ShareStackInv == TypeOK /\ ChainInv /\ OccupantInv /\ SwapInv /\ FramesKept

(* Coroutines that share stacks are as good as coroutines with stacks of    *)
(* their own: what one does changes no other's frames, and a resumed one    *)
(* continues with the frames it was suspended with.                         *)
Private == INSTANCE Coroutines WITH
             created <- allocated, callStack <- pCallStack,
             locals <- AllLocals

PrivateSpec == Private!Spec
===========================================================================
