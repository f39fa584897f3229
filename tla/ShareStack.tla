---------------------------- MODULE ShareStack ----------------------------
(***************************************************************************)
(* Coroutines of one thread (stCoRoutineEnv_t, stCoRoutine_t) and the      *)
(* stacks they run on: co_create, co_resume, co_yield_env, CoRoutineFunc,  *)
(* co_swap, save_stack_buffer, co_free of co_routine.cpp.                  *)
(*                                                                         *)
(* The bytes between a coroutine's stack_sp and the base of its stack are  *)
(* one value, its frames: the coroutine that wrote them and how often it   *)
(* changed them (nobody's on a new stack).  co_swap is two steps, before   *)
(* and after coctx_swap; the second runs on the stack that was switched to.*)
(***************************************************************************)
EXTENDS Integers, Sequences, SequencesExt

CONSTANTS Co,             \* addresses a stCoRoutine_t may have
          MainCo,         \* the thread's own coroutine
          NULL,
          count,          \* stacks of the stShareStack_t
          UIntSize,       \* 2^w for the w bits of alloc_idx
          CallStackSize,  \* entries of pCallStack (128)
          FreeOccupant,   \* whether the program frees a coroutine that
                          \* still occupies a shared stack
          MaxVersion      \* bound on the changes a body makes

ASSUME CoAssumption == MainCo \in Co /\ NULL \notin Co
ASSUME CountAssumption == count \in Nat \ {0} /\ Co \cap Nat = {}
ASSUME SizeAssumption == /\ UIntSize \in Nat \ {0}
                         /\ CallStackSize \in Nat \ {0}
ASSUME FreeAssumption == FreeOccupant \in BOOLEAN
ASSUME BoundAssumption == MaxVersion \in Nat

VARIABLES allocated,                     \* coroutines between co_create and co_free
          cStart, cEnd, cIsShareStack,   \* [Co -> BOOLEAN]
          stack_mem,                     \* [Co -> the stack it runs on]
          save_buffer,                   \* [Co -> saved frames or NULL]
          alloc_idx,
          stack,                         \* [StackMem -> the frames it holds]
          occupy,                        \* [shared stack -> stack_mem->occupy_co]
          pCallStack,
          pending_co, occupy_co,         \* of the thread's stCoRoutineEnv_t
          pc                             \* "run", or "swapped": before co_swap's tail

coroutine == <<allocated, cStart, cEnd, cIsShareStack, stack_mem>>
env       == <<pending_co, occupy_co>>
vars      == <<coroutine, save_buffer, alloc_idx, stack, occupy, pCallStack, env, pc>>

(* A private stack is named after its coroutine. *)
SharedMem == 0 .. count - 1
StackMem  == SharedMem \cup Co
Frames    == [owner : Co \cup {NULL}, version : Nat]

ASSUME NullAssumption == NULL \notin Frames

(* The types; in particular a coroutine runs on a stack that exists. *)
TypeOK ==
  /\ allocated \subseteq Co
  /\ cStart \in [Co -> BOOLEAN] /\ cEnd \in [Co -> BOOLEAN]
  /\ cIsShareStack \in [Co -> BOOLEAN]
  /\ stack_mem \in [Co -> StackMem]
  /\ save_buffer \in [Co -> Frames \cup {NULL}]
  /\ alloc_idx \in 0 .. UIntSize - 1
  /\ stack \in [StackMem -> Frames]
  /\ occupy \in [SharedMem -> Co \cup {NULL}]
  /\ pCallStack \in Seq(Co)
  /\ pending_co \in Co \cup {NULL} /\ occupy_co \in Co \cup {NULL}
  /\ pc \in {"run", "swapped"}

---------------------------------------------------------------------------
Fresh(co)  == [owner |-> co, version |-> 0]
Changed(f) == [f EXCEPT !.version = @ + 1]
Curr       == pCallStack[Len(pCallStack)]
OnStack    == ToSet(pCallStack)

(* co_init_curr_thread_env and co_alloc_sharestack. *)
Init == /\ allocated = {MainCo}
        /\ cStart = [co \in Co |-> co = MainCo]
        /\ cEnd = [co \in Co |-> FALSE]
        /\ cIsShareStack = [co \in Co |-> FALSE]
        /\ stack_mem = [co \in Co |-> co]
        /\ save_buffer = [co \in Co |-> NULL]
        /\ alloc_idx = 0
        /\ stack = [m \in StackMem |-> Fresh(IF m = MainCo THEN MainCo ELSE NULL)]
        /\ occupy = [m \in SharedMem |-> NULL]
        /\ pCallStack = <<MainCo>>
        /\ pending_co = NULL /\ occupy_co = NULL
        /\ pc = "run"

(* The running coroutine calls, returns, assigns: its frames change. *)
Work == /\ pc = "run"
        /\ stack[stack_mem[Curr]].version < MaxVersion
        /\ stack' = [stack EXCEPT ![stack_mem[Curr]] = Changed(@)]
        /\ UNCHANGED <<coroutine, save_buffer, alloc_idx, occupy, pCallStack, env, pc>>

(* Fault: the turn is not taken modulo the number of stacks. *)
co_create_unwrapped(co, share) ==
  /\ pc = "run"
  /\ co \notin allocated
  /\ allocated' = allocated \cup {co}
  /\ cStart' = [cStart EXCEPT ![co] = FALSE]
  /\ cEnd' = [cEnd EXCEPT ![co] = FALSE]
  /\ cIsShareStack' = [cIsShareStack EXCEPT ![co] = share]
  /\ save_buffer' = [save_buffer EXCEPT ![co] = NULL]
  /\ stack_mem' = [stack_mem EXCEPT ![co] = IF share THEN alloc_idx ELSE co]
  /\ alloc_idx' = IF share THEN (alloc_idx + 1) % UIntSize ELSE alloc_idx
  /\ UNCHANGED <<stack, occupy, pCallStack, env, pc>>

(* co_create: shared stacks are dealt out in turn (co_get_stackmem). *)
co_create(co, share) ==
  /\ pc = "run"
  /\ co \notin allocated
  /\ allocated' = allocated \cup {co}
  /\ cStart' = [cStart EXCEPT ![co] = FALSE]
  /\ cEnd' = [cEnd EXCEPT ![co] = FALSE]
  /\ cIsShareStack' = [cIsShareStack EXCEPT ![co] = share]
  /\ save_buffer' = [save_buffer EXCEPT ![co] = NULL]
  /\ IF share
     THEN /\ stack_mem' = [stack_mem EXCEPT ![co] = alloc_idx % count]
          /\ alloc_idx' = (alloc_idx + 1) % UIntSize
     ELSE /\ stack_mem' = [stack_mem EXCEPT ![co] = co]
          /\ UNCHANGED alloc_idx
  /\ UNCHANGED <<stack, occupy, pCallStack, env, pc>>

(* Fault: nothing is copied, or only what was not copied before. *)
SaveStackBufferNot(co)  == UNCHANGED save_buffer
SaveStackBufferOnce(co) ==
  save_buffer' = [save_buffer EXCEPT ![co] = IF @ = NULL THEN stack[stack_mem[co]]
                                                         ELSE @]

(* save_stack_buffer copies what is on the occupant's stack. *)
SaveStackBuffer(co) ==
  save_buffer' = [save_buffer EXCEPT ![co] = stack[stack_mem[co]]]

(* co_swap up to coctx_swap: who occupies the stack that pending runs on. *)
BeforeSwap(pending) ==
  IF ~cIsShareStack[pending]
  THEN /\ pending_co' = NULL /\ occupy_co' = NULL
       /\ UNCHANGED <<occupy, save_buffer>>
  ELSE LET mem == stack_mem[pending] IN
       /\ pending_co' = pending
       /\ occupy_co' = occupy[mem]
       /\ occupy' = [occupy EXCEPT ![mem] = pending]
       /\ IF occupy[mem] # NULL /\ occupy[mem] # pending
          THEN SaveStackBuffer(occupy[mem])
          ELSE UNCHANGED save_buffer

(* co_resume.  The code checks nothing: that the target is suspended or    *)
(* new, and the call stack not full, is the caller's obligation.           *)
Resumable(co) == /\ co \in allocated /\ ~cEnd[co] /\ co \notin OnStack
                 /\ Len(pCallStack) < CallStackSize

co_resume(co) ==
  /\ pc = "run"
  /\ Resumable(co)
  /\ pCallStack' = Append(pCallStack, co)
  /\ cStart' = [cStart EXCEPT ![co] = TRUE]
  /\ BeforeSwap(co)
  /\ IF cStart[co]
     THEN /\ pc' = "swapped" /\ UNCHANGED stack
     ELSE /\ stack' = [stack EXCEPT ![stack_mem[co]] = Fresh(co)]
          /\ UNCHANGED pc
  /\ UNCHANGED <<allocated, cEnd, cIsShareStack, stack_mem, alloc_idx>>

(* co_yield_env: back to the coroutine that resumed the running one.  Only *)
(* a resumed coroutine may yield.                                          *)
YieldEnv ==
  /\ pc = "run"
  /\ Len(pCallStack) > 1
  /\ pCallStack' = Front(pCallStack)
  /\ BeforeSwap(pCallStack[Len(pCallStack) - 1])
  /\ pc' = "swapped"
  /\ UNCHANGED <<allocated, cStart, cIsShareStack, stack_mem, alloc_idx, stack>>

co_yield_env == YieldEnv /\ UNCHANGED cEnd

(* CoRoutineFunc, when the body returns. *)
CoRoutineFunc == YieldEnv /\ cEnd' = [cEnd EXCEPT ![Curr] = TRUE]

(* Fault: the tail asks the stack, not the env, who occupied it: by then it *)
(* is always the coroutine that was switched to.                           *)
AfterSwapByStack ==
  /\ pc = "swapped"
  /\ IF /\ pending_co # NULL /\ occupy[stack_mem[pending_co]] # pending_co
        /\ save_buffer[pending_co] # NULL
     THEN stack' = [stack EXCEPT ![stack_mem[pending_co]] = save_buffer[pending_co]]
     ELSE UNCHANGED stack
  /\ pc' = "run"
  /\ UNCHANGED <<coroutine, save_buffer, alloc_idx, occupy, pCallStack, env>>

(* The tail of co_swap, on the stack that was switched to. *)
AfterSwap ==
  /\ pc = "swapped"
  /\ IF /\ occupy_co # NULL /\ pending_co # NULL /\ occupy_co # pending_co
        /\ save_buffer[pending_co] # NULL
     THEN stack' = [stack EXCEPT ![stack_mem[pending_co]] = save_buffer[pending_co]]
     ELSE UNCHANGED stack
  /\ pc' = "run"
  /\ UNCHANGED <<coroutine, save_buffer, alloc_idx, occupy, pCallStack, env>>

Occupies(co) == \E m \in SharedMem : occupy[m] = co

(* co_free, which looks neither at cEnd nor at occupy_co: the shared stack  *)
(* keeps its occupy_co.  The third conjunct is none of the code's: with     *)
(* FreeOccupant = FALSE the programs are those that free a coroutine only   *)
(* once another has its stack.                                              *)
co_free(co) ==
  /\ pc = "run"
  /\ co \in allocated /\ co \notin OnStack
  /\ FreeOccupant \/ ~Occupies(co)
  /\ allocated' = allocated \ {co}
  /\ UNCHANGED <<cStart, cEnd, cIsShareStack, stack_mem, save_buffer, alloc_idx,
                 stack, occupy, pCallStack, env, pc>>

Next == \/ \E co \in Co : \/ \E share \in BOOLEAN : co_create(co, share)
                          \/ co_resume(co)
                          \/ co_free(co)
        \/ Work \/ co_yield_env \/ CoRoutineFunc \/ AfterSwap

Spec == Init /\ [][Next]_vars

---------------------------------------------------------------------------
(* occupy_co is "the coroutine that is using this shared stack"            *)
(* (co_routine_inner.h:36): it names a coroutine that exists, because the  *)
(* next co_swap onto the stack reads and writes it.                        *)
OccupantAllocated == \A m \in SharedMem : occupy[m] \in allocated \cup {NULL}
===========================================================================
