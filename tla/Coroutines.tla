---------------------------- MODULE Coroutines ----------------------------
(***************************************************************************)
(* What libco promises about coroutines, with no stacks in it: each has    *)
(* local state of its own, only the running one changes its own, and       *)
(* control moves along a chain of resumes.  ShareStackRefinement shows     *)
(* that co_swap implements it for coroutines that share stacks, and         *)
(* ScheduleRefinement that the ucontext library does.                      *)
(***************************************************************************)
EXTENDS Integers, Sequences, SequencesExt

CONSTANTS Co, MainCo, NoFrames

VARIABLES created,    \* coroutines that exist
          callStack,  \* the chain of resumes, the running coroutine last
          locals      \* [Co -> the frames of its suspended or running body]

vars == <<created, callStack, locals>>

(* The frames of co's body at its entry, and after the body changed them. *)
Fresh(co)   == [owner |-> co, version |-> 0]
Changed(f)  == [f EXCEPT !.version = @ + 1]
Running     == callStack[Len(callStack)]

Init == /\ created = {MainCo}
        /\ callStack = <<MainCo>>
        /\ locals = [co \in Co |-> IF co = MainCo THEN Fresh(co) ELSE NoFrames]

Create(co) == /\ co \notin created
              /\ created' = created \cup {co}
              /\ UNCHANGED <<callStack, locals>>

(* A coroutine resumed for the first time enters its body. *)
Resume(co) == /\ co \in created
              /\ co \notin ToSet(callStack)
              /\ callStack' = Append(callStack, co)
              /\ \/ locals[co] = NoFrames /\ locals' = [locals EXCEPT ![co] = Fresh(co)]
                 \/ locals[co] # NoFrames /\ UNCHANGED locals
              /\ UNCHANGED created

Yield == /\ Len(callStack) > 1
         /\ callStack' = Front(callStack)
         /\ UNCHANGED <<created, locals>>

Finish == /\ Len(callStack) > 1
          /\ callStack' = Front(callStack)
          /\ locals' = [locals EXCEPT ![Running] = NoFrames]
          /\ UNCHANGED created

Work == /\ locals' = [locals EXCEPT ![Running] = Changed(@)]
        /\ UNCHANGED <<created, callStack>>

(* A coroutine that ends may be gone at once ... *)
Exit == /\ Len(callStack) > 1
        /\ callStack' = Front(callStack)
        /\ locals' = [locals EXCEPT ![Running] = NoFrames]
        /\ created' = created \ {Running}

(* ... and those that are not in the chain can be freed, several at a time. *)
Free(S) == /\ S \subseteq created /\ S \cap ToSet(callStack) = {}
           /\ created' = created \ S
           /\ locals' = [co \in Co |-> IF co \in S THEN NoFrames ELSE locals[co]]
           /\ UNCHANGED callStack

Next == \/ \E co \in Co : Create(co) \/ Resume(co)
        \/ \E S \in SUBSET Co : Free(S)
        \/ Yield \/ Finish \/ Exit \/ Work

Spec == Init /\ [][Next]_vars
===========================================================================
