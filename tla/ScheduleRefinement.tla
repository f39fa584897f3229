------------------------ MODULE ScheduleRefinement ------------------------
(***************************************************************************)
(* The coroutines of coroutine.c are coroutines with private state, in     *)
(* chains of one resume.                                                   *)
(***************************************************************************)
EXTENDS Schedule, Sequences

CONSTANTS Main, NoFrames

ASSUME MainAssumption == Main \notin Body /\ Main # NULL
ASSUME NoFramesAssumption == NoFrames \notin [owner : Body, version : Nat]

Id(b) == CHOOSE id \in Ids : co[id].body = b

(* What a body would call its local state: nothing before its first resume. *)
View(f) == [owner |-> f.owner, version |-> f.version]
Locals(b) ==
  IF b = Main THEN [owner |-> Main, version |-> 0]
  ELSE IF b \notin Alive THEN NoFrames
  ELSE CASE co[Id(b)].status = "READY"   -> NoFrames
         [] co[Id(b)].status = "RUNNING" -> View(stack)
         [] co[Id(b)].status = "SUSPEND" -> View(co[Id(b)].stack)

AllLocals == [b \in Body \cup {Main} |-> Locals(b)]

(* The main program resumes one coroutine at a time. *)
Chain == IF running = -1 THEN <<Main>> ELSE <<Main, co[running].body>>

(* All the switching and copying is invisible to the bodies: what one does  *)
(* changes no other's frames, and a resumed one continues with the frames   *)
(* it was suspended with (coroutine_resume, coroutine_yield).               *)
Private == INSTANCE Coroutines WITH
             Co <- Body \cup {Main}, MainCo <- Main,
             created <- Alive \cup {Main},
             callStack <- Chain, locals <- AllLocals

PrivateSpec == Private!Spec
===========================================================================
