--------------------------- MODULE ScheduleProofs ---------------------------
(***************************************************************************)
(* Proofs about coroutine.c, for any number of coroutines, any capacity    *)
(* and any size of the stack.                                              *)
(***************************************************************************)
EXTENDS ScheduleRefinement, FiniteSetTheorems, SequenceTheorems, TLAPS

(* A body is at one place of the table, and none are there once the         *)
(* schedule is closed.                                                      *)
NamesInv == /\ \A id, other \in Ids : co[id].body = co[other].body => id = other
            /\ ~open => Ids = {}

(* What is on the stack is the running coroutine's. *)
StackInv == running # -1 => stack.owner = co[running].body

ScheduleInv == AssertsHold /\ SavedComplete /\ NamesInv /\ StackInv

LEMMA InitInv == Init => ScheduleInv
<1> SUFFICES ASSUME Init PROVE ScheduleInv
  OBVIOUS
<1> USE DEF Init
<1>1. Ids = {}
  BY DEF Ids
<1>2. TypeOK
  BY SizeAssumption DEF TypeOK, Frames
<1>3. AssertsHold
  BY <1>1, <1>2, FS_EmptySet, SizeAssumption DEF AssertsHold
<1> QED
  BY <1>1, <1>3 DEF ScheduleInv, SavedComplete, NamesInv, StackInv

(* The search of coroutine_new finds a place: fewer coroutines than places  *)
(* leave one free, and there are never more.                                *)
LEMMA Places ==
  ASSUME NEW n \in Nat, NEW S \in SUBSET (0 .. n - 1)
  PROVE  /\ IsFiniteSet(S) /\ Cardinality(S) \in 0 .. n
         /\ Cardinality(S) < n => \E id \in 0 .. n - 1 : id \notin S
<1>1. IsFiniteSet(0 .. n - 1) /\ Cardinality(0 .. n - 1) = n
  BY FS_Interval
<1>2. IsFiniteSet(S) /\ Cardinality(S) <= n /\ Cardinality(S) \in Nat
  BY <1>1, FS_Subset, FS_CardinalityType
<1>3. (\A id \in 0 .. n - 1 : id \in S) => S = 0 .. n - 1
  OBVIOUS
<1> QED
  BY <1>1, <1>2, <1>3

LEMMA IdsFinite == ASSUME TypeOK PROVE IsFiniteSet(Ids)
<1>1. Ids \in SUBSET (0 .. cap - 1) /\ cap \in Nat
  BY DEF TypeOK, Ids
<1> QED
  BY <1>1, Places

---------------------------------------------------------------------------
(* coroutine_new fills the place id, in the table or behind its end. *)
LEMMA NewPlace ==
  ASSUME ScheduleInv, NEW b \in Body, coroutine_new(b)
  PROVE  /\ cap' \in Nat \ {0} /\ DOMAIN co' = 0 .. cap' - 1
         /\ co' = [i \in DOMAIN co' |-> co'[i]]
         /\ \E id \in DOMAIN co' \ Ids :
              /\ co'[id] = New(b)
              /\ \A i \in Ids : i \in DOMAIN co' /\ co'[i] = co[i]
              /\ \A i \in DOMAIN co' \ (Ids \cup {id}) : co'[i] = NULL
<1> USE DEF ScheduleInv, AssertsHold, TypeOK, Ids
<1>1. DOMAIN co = 0 .. cap - 1 /\ cap \in Nat \ {0}
  OBVIOUS
<1>2. CASE nco >= cap
  <2> DEFINE f == [i \in 0 .. 2 * cap - 1 |->
                     IF i < cap THEN co[i] ELSE IF i = cap THEN New(b) ELSE NULL]
  <2>1. cap' = 2 * cap /\ co' = f
    BY <1>2 DEF coroutine_new
  <2>2. DOMAIN f = 0 .. 2 * cap - 1 /\ cap \in DOMAIN f /\ cap \notin Ids
    BY <1>1
  <2>5. f = [i \in DOMAIN f |-> f[i]]
    OBVIOUS
  <2>3. f[cap] = New(b) /\ \A i \in Ids : i \in DOMAIN f /\ f[i] = co[i]
    BY <1>1
  <2>4. \A i \in DOMAIN f : i \notin Ids /\ i # cap => f[i] = NULL
    BY <1>1
  <2> HIDE DEF f
  <2> QED
    BY <1>1, <2>1, <2>2, <2>3, <2>4, <2>5
<1>3. CASE nco < cap
  <2>1. PICK id \in DOMAIN co : co[id] = NULL /\ co' = [co EXCEPT ![id] = New(b)]
    BY <1>3 DEF coroutine_new, FreeId
  <2>2. cap' = cap /\ id \notin Ids
    BY <1>3, <2>1 DEF coroutine_new
  <2>3. co' = [i \in DOMAIN co' |-> co'[i]]
    BY <2>1
  <2> QED
    BY <1>1, <2>1, <2>2, <2>3
<1> QED
  BY <1>2, <1>3

LEMMA NewStep ==
  ASSUME ScheduleInv, NEW b \in Body, coroutine_new(b)
  PROVE  ScheduleInv' /\ IdKept
<1>1. PICK id \in DOMAIN co' \ Ids :
        /\ co'[id] = New(b)
        /\ \A i \in Ids : i \in DOMAIN co' /\ co'[i] = co[i]
        /\ \A i \in DOMAIN co' \ (Ids \cup {id}) : co'[i] = NULL
  BY NewPlace
<1>2. TypeOK /\ b \notin Alive /\ UNCHANGED <<open, running, stack>> /\ nco' = nco + 1
  BY DEF ScheduleInv, AssertsHold, coroutine_new
<1>3. New(b) \in Coroutine /\ New(b) # NULL
  BY NullAssumption DEF New, Coroutine, Status
<1>4. Ids' = Ids \cup {id}
  BY <1>1, <1>3 DEF Ids
<1>5. Cardinality(Ids') = nco'
  BY <1>1, <1>2, <1>4, IdsFinite, FS_AddElement DEF ScheduleInv, AssertsHold
<1>6. cap' \in Nat \ {0} /\ DOMAIN co' = 0 .. cap' - 1
  BY NewPlace
<1>7. /\ Ids' \in SUBSET (0 .. cap' - 1) /\ nco' \in 0 .. cap'
      /\ nco' < cap' => \E i \in DOMAIN co' : co'[i] = NULL
  <2>1. Ids' \in SUBSET (0 .. cap' - 1)
    BY <1>6 DEF Ids
  <2> QED
    BY <1>5, <1>6, <2>1, Places DEF Ids
<1>8. TypeOK'
  <2>1. \A i \in DOMAIN co' : co'[i] \in Coroutine \cup {NULL}
    BY <1>1, <1>2, <1>3 DEF TypeOK, Ids
  <2>2. co' \in [0 .. cap' - 1 -> Coroutine \cup {NULL}]
    <3>1. co' = [i \in DOMAIN co' |-> co'[i]]
      BY NewPlace
    <3> QED
      BY <1>6, <2>1, <3>1
  <2>3. running' \in {-1} \cup Ids'
    BY <1>2, <1>4 DEF TypeOK, Ids
  <2> QED
    BY <1>2, <1>6, <1>7, <2>2, <2>3 DEF TypeOK, Ids
<1>9. AssertsHold'
  <2>1. \A i \in Ids' : co'[i].status = "RUNNING" <=> i = running'
    <3>1. co'[id].status = "READY" /\ id # running
      BY <1>1, <1>2, <1>6 DEF TypeOK, Ids, New
    <3>2. \A i \in Ids : co'[i].status = "RUNNING" <=> i = running'
      BY <1>1, <1>2 DEF ScheduleInv, AssertsHold
    <3> QED
      BY <1>2, <1>4, <3>1, <3>2
  <2> QED
    BY <1>5, <1>7, <1>8, <2>1 DEF AssertsHold
<1>10. SavedComplete'
  BY <1>1, <1>4 DEF ScheduleInv, SavedComplete, New
<1>11. NamesInv'
  BY <1>1, <1>2, <1>4 DEF ScheduleInv, NamesInv, Alive, New, coroutine_new
<1>12. StackInv' /\ IdKept
  BY <1>1, <1>2, <1>4 DEF ScheduleInv, StackInv, IdKept, TypeOK, Ids
<1> QED
  BY <1>9, <1>10, <1>11, <1>12 DEF ScheduleInv

---------------------------------------------------------------------------
(* The other operations leave the table its size and change one place: a    *)
(* coroutine becomes C, the same coroutine in another state.                *)
LEMMA SamePlace ==
  ASSUME ScheduleInv, NEW id \in Ids, NEW C \in Coroutine, C.body = co[id].body,
         co' = [co EXCEPT ![id] = C], UNCHANGED <<open, nco, cap>>,
         running' \in {-1} \cup Ids, stack' \in Frames,
         C.status = "RUNNING" <=> id = running',
         \A i \in Ids \ {id} : co[i].status = "RUNNING" <=> i = running'
  PROVE  Ids' = Ids /\ AssertsHold' /\ NamesInv' /\ IdKept
<1>1. C # NULL /\ TypeOK /\ id \in DOMAIN co
  BY NullAssumption DEF ScheduleInv, AssertsHold, Ids
<1>2. DOMAIN co' = DOMAIN co /\ co'[id] = C /\ \A i \in DOMAIN co \ {id} : co'[i] = co[i]
  BY <1>1
<1>3. Ids' = Ids
  BY <1>1, <1>2 DEF Ids
<1>4. TypeOK'
  <2>1. co' \in [0 .. cap' - 1 -> Coroutine \cup {NULL}]
    BY <1>1 DEF TypeOK
  <2> QED
    BY <1>1, <1>3, <2>1 DEF TypeOK, Ids
<1>5. \A i \in Ids' : co'[i].status = "RUNNING" <=> i = running'
  BY <1>2, <1>3 DEF Ids
<1>6. AssertsHold'
  <2>1. nco' < cap' => \E i \in DOMAIN co' : co'[i] = NULL
    BY <1>2, <1>3 DEF ScheduleInv, AssertsHold, Ids
  <2> QED
    BY <1>3, <1>4, <1>5, <2>1 DEF ScheduleInv, AssertsHold
<1>7. NamesInv'
  BY <1>2, <1>3 DEF ScheduleInv, NamesInv, Ids
<1>8. IdKept
  BY <1>2, <1>3 DEF IdKept, Ids
<1> QED
  BY <1>3, <1>6, <1>7, <1>8

LEMMA ResumeStep ==
  ASSUME ScheduleInv, NEW id \in Ids, ResumeReady(id) \/ ResumeSuspend(id)
  PROVE  ScheduleInv' /\ IdKept
<1> DEFINE C == [co[id] EXCEPT !.status = "RUNNING"]
<1>1. co[id] \in Coroutine /\ TypeOK /\ id \in DOMAIN co
  BY DEF ScheduleInv, AssertsHold, TypeOK, Ids
<1>2. C \in Coroutine /\ C.body = co[id].body /\ C.status = "RUNNING"
  BY <1>1 DEF Coroutine, Status
<1>3. /\ co' = [co EXCEPT ![id] = C] /\ UNCHANGED <<open, nco, cap>>
      /\ running' = id /\ running = -1 /\ open
  BY DEF ResumeReady, ResumeSuspend, Resume
<1>4. stack' \in Frames /\ stack'.owner = co[id].body
  <2>1. CASE ResumeReady(id)
    <3>1. co[id].body \in Body
      BY <1>1 DEF Coroutine
    <3> QED
      BY <2>1, <3>1, SizeAssumption DEF ResumeReady, Frames
  <2>2. CASE ResumeSuspend(id)
    BY <1>1, <2>2 DEF ResumeSuspend, ScheduleInv, SavedComplete, Coroutine
  <2> QED
    BY <2>1, <2>2
<1>5. \A i \in Ids \ {id} : co[i].status = "RUNNING" <=> i = running'
  <2>1. \A i \in Ids : i # running
    BY <1>1, <1>3 DEF TypeOK, Ids
  <2> QED
    BY <1>3, <2>1 DEF ScheduleInv, AssertsHold
<1> HIDE DEF C
<1>6. Ids' = Ids /\ AssertsHold' /\ NamesInv' /\ IdKept
  BY <1>2, <1>3, <1>4, <1>5, SamePlace
<1>7. co'[id] = C /\ \A i \in Ids \ {id} : co'[i] = co[i]
  BY <1>1, <1>3 DEF Ids
<1>8. SavedComplete'
  BY <1>2, <1>6, <1>7 DEF ScheduleInv, SavedComplete
<1>9. StackInv'
  BY <1>2, <1>3, <1>4, <1>7 DEF StackInv
<1> QED
  BY <1>6, <1>8, <1>9 DEF ScheduleInv

LEMMA WorkStep == ASSUME ScheduleInv, Work PROVE ScheduleInv' /\ IdKept
<1>1. PICK n \in 1 .. STACK_SIZE : stack' = [stack EXCEPT !.version = @ + 1, !.size = n]
  BY DEF Work
<1>2. UNCHANGED <<open, co, nco, cap, running>> /\ running # -1 /\ stack \in Frames
  BY DEF Work, ScheduleInv, AssertsHold, TypeOK
<1>3. stack' \in Frames /\ stack'.owner = stack.owner
  <2>1. stack.owner \in Body \cup {NULL} /\ stack.version + 1 \in Nat /\ n \in 0 .. STACK_SIZE
    BY <1>2 DEF Frames
  <2>2. stack' = [owner |-> stack.owner, version |-> stack.version + 1, size |-> n]
    BY <1>1, <1>2 DEF Frames
  <2> QED
    BY <2>1, <2>2 DEF Frames
<1>4. Ids' = Ids
  BY <1>2 DEF Ids
<1>5. AssertsHold'
  BY <1>2, <1>3, <1>4 DEF ScheduleInv, AssertsHold, TypeOK
<1>6. SavedComplete' /\ NamesInv' /\ StackInv' /\ IdKept
  BY <1>2, <1>3, <1>4 DEF ScheduleInv, SavedComplete, NamesInv, StackInv, IdKept
<1> QED
  BY <1>5, <1>6 DEF ScheduleInv

LEMMA YieldStep ==
  ASSUME ScheduleInv, coroutine_yield PROVE ScheduleInv' /\ IdKept /\ Ids' = Ids
<1> DEFINE C == [SaveStack(co[running]) EXCEPT !.status = "SUSPEND"]
<1>1. TypeOK /\ running \in Ids /\ running \in DOMAIN co /\ co[running] \in Coroutine
  BY DEF ScheduleInv, AssertsHold, TypeOK, Ids, coroutine_yield
<1>2. stack \in Frames /\ stack.size \in Nat
  BY <1>1 DEF TypeOK, Frames
<1>3. /\ C \in Coroutine /\ C.body = co[running].body /\ C.status = "SUSPEND"
      /\ C.stack = stack /\ C.size = stack.size /\ C.size <= C.cap
  <2>1. /\ co[running].body \in Body /\ co[running].cap \in Nat
        /\ stack.size \in Nat /\ stack \in Frames
    BY <1>1, <1>2 DEF Coroutine
  <2>3. C = [body |-> co[running].body, status |-> "SUSPEND",
             cap |-> IF co[running].cap < stack.size THEN stack.size ELSE co[running].cap,
             size |-> stack.size, stack |-> stack]
    BY DEF SaveStack
  <2> HIDE DEF C
  <2> QED
    BY <2>1, <2>3 DEF Coroutine, Status
<1>4. /\ co' = [co EXCEPT ![running] = C] /\ UNCHANGED <<open, nco, cap>>
      /\ running' = -1 /\ stack' = stack /\ running # -1
  BY DEF coroutine_yield
<1> HIDE DEF C
<1>5. \A i \in Ids : i # -1
  BY <1>1 DEF TypeOK, Ids
<1>6. \A i \in Ids \ {running} : co[i].status = "RUNNING" <=> i = running'
  BY <1>4, <1>5 DEF ScheduleInv, AssertsHold
<1>7. Ids' = Ids /\ AssertsHold' /\ NamesInv' /\ IdKept
  BY <1>1, <1>2, <1>3, <1>4, <1>6, SamePlace
<1>8. co'[running] = C /\ \A i \in Ids \ {running} : co'[i] = co[i]
  BY <1>1, <1>4 DEF Ids
<1>9. C.stack # NULL /\ C.stack.owner = C.body
  BY <1>2, <1>3, <1>4, NullAssumption DEF ScheduleInv, StackInv
<1>10. SavedComplete'
  BY <1>3, <1>7, <1>8, <1>9 DEF ScheduleInv, SavedComplete
<1>11. StackInv'
  BY <1>4 DEF StackInv
<1> QED
  BY <1>7, <1>10, <1>11 DEF ScheduleInv

LEMMA EndStep == ASSUME ScheduleInv, mainfunc PROVE ScheduleInv' /\ IdKept
<1>1. TypeOK /\ running \in Ids /\ running \in DOMAIN co
  BY DEF ScheduleInv, AssertsHold, TypeOK, Ids, mainfunc
<1>2. /\ co' = [co EXCEPT ![running] = NULL] /\ UNCHANGED <<open, cap, stack>>
      /\ running' = -1 /\ nco' = nco - 1
  BY DEF mainfunc
<1>3. DOMAIN co' = DOMAIN co /\ co'[running] = NULL
      /\ \A i \in DOMAIN co \ {running} : co'[i] = co[i]
  BY <1>1, <1>2
<1>4. Ids' = Ids \ {running}
  BY <1>3 DEF Ids
<1>5. Cardinality(Ids') = nco'
  BY <1>1, <1>2, <1>4, IdsFinite, FS_RemoveElement DEF ScheduleInv, AssertsHold
<1>6. nco' \in 0 .. cap'
  <2>1. Ids' \in SUBSET (0 .. cap - 1) /\ cap \in Nat
    BY <1>1, <1>4 DEF TypeOK, Ids
  <2> QED
    BY <1>2, <1>5, <2>1, Places
<1>7. TypeOK'
  <2>1. co' \in [0 .. cap' - 1 -> Coroutine \cup {NULL}]
    BY <1>1, <1>2 DEF TypeOK
  <2> QED
    BY <1>1, <1>2, <1>6, <2>1 DEF TypeOK
<1>8. \A i \in Ids' : co'[i].status = "RUNNING" <=> i = running'
  <2>1. \A i \in Ids : i # -1
    BY <1>1 DEF TypeOK, Ids
  <2> QED
    BY <1>2, <1>3, <1>4, <2>1 DEF ScheduleInv, AssertsHold, Ids
<1>9. AssertsHold'
  BY <1>1, <1>3, <1>5, <1>7, <1>8 DEF AssertsHold
<1>10. SavedComplete' /\ NamesInv' /\ StackInv' /\ IdKept
  BY <1>2, <1>3, <1>4 DEF ScheduleInv, SavedComplete, NamesInv, StackInv, IdKept, Ids
<1> QED
  BY <1>9, <1>10 DEF ScheduleInv

(* The schedule comes and goes with an empty table. *)
LEMMA OpenCloseStep ==
  ASSUME ScheduleInv, coroutine_open \/ coroutine_close
  PROVE  ScheduleInv' /\ IdKept
<1>1. TypeOK
  BY DEF ScheduleInv, AssertsHold
<1>2. /\ cap' \in Nat \ {0} /\ co' = [id \in 0 .. cap' - 1 |-> NULL]
      /\ nco' = 0 /\ running' = -1 /\ open' \in BOOLEAN
  <2>1. CASE coroutine_open
    BY <2>1, SizeAssumption DEF coroutine_open
  <2>2. CASE coroutine_close
    BY <1>1, <2>2 DEF coroutine_close, TypeOK
  <2> QED
    BY <2>1, <2>2
<1>3. stack' \in Frames
  BY <1>1, SizeAssumption DEF coroutine_open, coroutine_close, TypeOK, Frames
<1>4. DOMAIN co' = 0 .. cap' - 1 /\ \A i \in DOMAIN co' : co'[i] = NULL
  BY <1>2
<1>5. Ids' = {}
  BY <1>4 DEF Ids
<1>6. TypeOK' /\ co'[0] = NULL /\ 0 \in DOMAIN co'
  <2>1. 0 \in 0 .. cap' - 1
    <3>1. \A n \in Nat \ {0} : 0 \in 0 .. n - 1
      OBVIOUS
    <3> QED
      BY <1>2, <3>1
  <2>2. co' \in [0 .. cap' - 1 -> Coroutine \cup {NULL}]
    BY <1>2
  <2>3. cap' \in Nat \ {0} /\ nco' \in 0 .. cap'
    <3>1. \A n \in Nat \ {0} : 0 \in 0 .. n
      OBVIOUS
    <3> QED
      BY <1>2, <3>1
  <2> QED
    BY <1>2, <1>3, <1>4, <2>1, <2>2, <2>3 DEF TypeOK
<1>7. AssertsHold'
  BY <1>2, <1>5, <1>6, FS_EmptySet DEF AssertsHold
<1>8. SavedComplete' /\ NamesInv' /\ StackInv'
  BY <1>2, <1>5 DEF SavedComplete, NamesInv, StackInv
<1>9. IdKept
  BY DEF IdKept, ScheduleInv, NamesInv, coroutine_open, coroutine_close
<1> QED
  BY <1>7, <1>8, <1>9 DEF ScheduleInv

LEMMA NextInv == ASSUME ScheduleInv, [Next]_vars PROVE ScheduleInv' /\ (IdKept \/ UNCHANGED vars)
<1>1. CASE UNCHANGED vars
  BY <1>1 DEF vars, ScheduleInv, AssertsHold, TypeOK, Ids, SavedComplete, NamesInv, StackInv
<1>2. CASE Next
  BY <1>2, NewStep, ResumeStep, WorkStep, YieldStep, EndStep, OpenCloseStep DEF Next
<1> QED
  BY <1>1, <1>2

LEMMA InvCorrect == Spec => []ScheduleInv
  BY InitInv, NextInv, PTL DEF Spec

(* The two assert(0) of coroutine.c cannot fail, and nco counts the         *)
(* coroutines that live (coroutine_new, coroutine_resume).                  *)
THEOREM AssertsCorrect == Spec => []AssertsHold
  BY InvCorrect, PTL DEF ScheduleInv

(* What _save_stack copied is the suspended coroutine's own, complete, and  *)
(* within its buffer.                                                       *)
THEOREM SavedCorrect == Spec => []SavedComplete
  BY InvCorrect, PTL DEF ScheduleInv

(* An id names one coroutine until it ends, also when the table grows.      *)
THEOREM IdsCorrect == Spec => IdsKept
  BY InvCorrect, NextInv, PTL DEF Spec, IdsKept

---------------------------------------------------------------------------
(* The refinement: what the bodies see of a coroutine, by its id. *)
Local(id) == IF co[id].status = "READY" THEN NoFrames
             ELSE IF co[id].status = "RUNNING" THEN View(stack) ELSE View(co[id].stack)

LocalsFacts ==
  /\ \A id \in Ids : co[id].body \in Body /\ AllLocals[co[id].body] = Local(id)
  /\ \A b \in Body \ Alive : AllLocals[b] = NoFrames
  /\ AllLocals[Main] = [owner |-> Main, version |-> 0]

LEMMA LocalsById == ScheduleInv => LocalsFacts
<1> SUFFICES ASSUME ScheduleInv PROVE LocalsFacts
  OBVIOUS
<1>1. ASSUME NEW id \in Ids
      PROVE  co[id].body \in Body /\ AllLocals[co[id].body] = Local(id)
  <2>1. co[id].body \in Body /\ co[id].status \in Status /\ co[id].body # Main
    BY MainAssumption DEF ScheduleInv, AssertsHold, TypeOK, Coroutine, Ids
  <2>2. Id(co[id].body) = id
    BY DEF ScheduleInv, NamesInv, Id
  <2>3. Locals(co[id].body) = Local(id)
    BY <2>1, <2>2 DEF Locals, Local, Alive, Status
  <2> QED
    BY <2>1, <2>3 DEF AllLocals
<1>2. \A b \in Body \ Alive : AllLocals[b] = NoFrames
  BY MainAssumption DEF AllLocals, Locals
<1>3. AllLocals[Main] = [owner |-> Main, version |-> 0]
  BY DEF AllLocals, Locals
<1> QED
  BY <1>1, <1>2, <1>3 DEF LocalsFacts

(* After a step the facts are those of the new state. *)
LEMMA LocalsNext == ScheduleInv' => LocalsFacts'
  BY LocalsById, PTL

LEMMA NewRefined ==
  ASSUME ScheduleInv, NEW b \in Body, coroutine_new(b)
  PROVE  Private!Create(b)
<1>1. PICK id \in DOMAIN co' \ Ids :
        /\ co'[id] = New(b)
        /\ \A i \in Ids : i \in DOMAIN co' /\ co'[i] = co[i]
        /\ \A i \in DOMAIN co' \ (Ids \cup {id}) : co'[i] = NULL
  BY NewPlace
<1>2. LocalsFacts /\ LocalsFacts'
  BY LocalsById, LocalsNext, NewStep
<1>3. b \notin Alive /\ UNCHANGED <<running, stack>> /\ New(b) # NULL
  BY NullAssumption DEF coroutine_new, New, Coroutine, Status
<1>4. Ids' = Ids \cup {id}
  BY <1>1, <1>3 DEF Ids
<1>5. Alive' = Alive \cup {b}
  BY <1>1, <1>4 DEF Alive, New
<1>6. \A x \in Body \cup {Main} : AllLocals'[x] = AllLocals[x]
  <2>1. AllLocals'[b] = NoFrames
    BY <1>1, <1>2, <1>4 DEF LocalsFacts, Local, New
  <2>2. \A i \in Ids : AllLocals'[co[i].body] = AllLocals[co[i].body]
    BY <1>1, <1>2, <1>3, <1>4 DEF LocalsFacts, Local
  <2> QED
    BY <1>2, <1>3, <1>5, <2>1, <2>2 DEF LocalsFacts, Alive
<1>7. AllLocals' = AllLocals
  BY <1>6 DEF AllLocals
<1>8. Chain' = Chain
  BY <1>1, <1>3 DEF Chain, ScheduleInv, AssertsHold, TypeOK, Ids
<1> QED
  BY <1>3, <1>5, <1>7, <1>8, MainAssumption DEF Private!Create

(* A step that leaves the table its coroutines, as they are but for id's. *)
LEMMA OneChanges ==
  ASSUME ScheduleInv, ScheduleInv', NEW id \in Ids, Ids' = Ids,
         co'[id].body = co[id].body, \A i \in Ids \ {id} : co'[i] = co[i],
         \A i \in Ids \ {id} : co[i].status # "RUNNING"
  PROVE  /\ Alive' = Alive /\ co[id].body \in Alive
         /\ AllLocals' = [AllLocals EXCEPT ![co[id].body] = Local(id)']
<1>1. LocalsFacts /\ LocalsFacts'
  BY LocalsById, LocalsNext
<1>2. Alive' = Alive /\ co[id].body \in Alive
  BY DEF Alive
<1>3. AllLocals'[co[id].body] = Local(id)'
  BY <1>1 DEF LocalsFacts
<1>4. \A i \in Ids \ {id} : AllLocals'[co[i].body] = AllLocals[co[i].body]
  BY <1>1 DEF LocalsFacts, Local
<1>5. \A x \in (Body \cup {Main}) \ {co[id].body} : AllLocals'[x] = AllLocals[x]
  BY <1>1, <1>2, <1>4 DEF LocalsFacts, Alive
<1> QED
  BY <1>2, <1>3, <1>5 DEF AllLocals

LEMMA ResumeRefined ==
  ASSUME ScheduleInv, NEW id \in Ids, ResumeReady(id) \/ ResumeSuspend(id)
  PROVE  Private!Resume(co[id].body)
<1> DEFINE b == co[id].body
<1>1. LocalsFacts
  BY LocalsById
<1>2. /\ running = -1 /\ running' = id /\ id \in DOMAIN co /\ id # -1
      /\ co' = [co EXCEPT ![id].status = "RUNNING"] /\ co[id] \in Coroutine
  BY DEF ResumeReady, ResumeSuspend, Resume, ScheduleInv, AssertsHold, TypeOK, Ids
<1>3. /\ co'[id].body = b /\ co'[id].status = "RUNNING"
      /\ \A i \in Ids \ {id} : co'[i] = co[i]
  BY <1>2 DEF Ids, Coroutine
<1>4. Ids' = Ids
  BY <1>2, <1>3, ResumeStep DEF Ids, ScheduleInv, AssertsHold, TypeOK
<1>5. \A i \in Ids \ {id} : co[i].status # "RUNNING"
  BY <1>2 DEF ScheduleInv, AssertsHold, TypeOK, Ids
<1>6. /\ Alive' = Alive /\ b \in Alive
      /\ AllLocals' = [AllLocals EXCEPT ![b] = View(stack)']
  BY <1>3, <1>4, <1>5, ResumeStep, OneChanges DEF Local
<1>7. /\ b \in Alive \cup {Main} /\ b \notin Private!ToSet(Chain)
      /\ Chain' = Append(Chain, b) /\ UNCHANGED (Alive \cup {Main})
  BY <1>1, <1>2, <1>3, <1>6, MainAssumption DEF Chain, Private!ToSet, LocalsFacts
<1>8. CASE ResumeReady(id)
  <2>1. View(stack)' = Private!Fresh(b) /\ AllLocals[b] = NoFrames
    <3>1. PICK n \in 1 .. STACK_SIZE : stack' = [owner |-> b, version |-> 0, size |-> n]
      BY <1>8 DEF ResumeReady
    <3>2. View(stack)' = [owner |-> b, version |-> 0]
      BY <3>1 DEF View
    <3>3. AllLocals[b] = NoFrames
      BY <1>1, <1>8 DEF ResumeReady, LocalsFacts, Local
    <3> QED
      BY <3>2, <3>3 DEF Private!Fresh
  <2> QED
    BY <1>6, <1>7, <2>1 DEF Private!Resume
<1>9. CASE ResumeSuspend(id)
  <2>1. View(stack)' = AllLocals[b]
    BY <1>1, <1>9 DEF ResumeSuspend, View, LocalsFacts, Local
  <2>2. AllLocals[b] # NoFrames
    <3>1. co[id].stack \in Frames /\ co[id].stack.owner = b /\ b \in Body
      BY <1>1, <1>2, <1>9 DEF ResumeSuspend, ScheduleInv, SavedComplete, Coroutine, LocalsFacts
    <3>2. View(co[id].stack) \in [owner : Body, version : Nat]
      BY <3>1 DEF Frames, View
    <3>3. AllLocals[b] = View(co[id].stack)
      BY <1>1, <1>9 DEF ResumeSuspend, LocalsFacts, Local
    <3> QED
      BY <3>2, <3>3, NoFramesAssumption
  <2>3. AllLocals' = AllLocals
    BY <1>6, <2>1 DEF AllLocals
  <2> QED
    BY <1>7, <2>2, <2>3 DEF Private!Resume
<1> QED
  BY <1>8, <1>9

(* What a step of the running coroutine starts from. *)
LEMMA RunningFacts ==
  ASSUME ScheduleInv, running # -1
  PROVE  /\ running \in Ids /\ running \in DOMAIN co /\ co[running] \in Coroutine
         /\ co[running].status = "RUNNING"
         /\ \A i \in Ids \ {running} : co[i].status # "RUNNING"
         /\ Chain = <<Main, co[running].body>>
         /\ Private!Running = co[running].body
         /\ Len(Chain) > 1 /\ Private!Front(Chain) = <<Main>>
<1>1. Chain = <<Main, co[running].body>>
  BY DEF Chain
<1>2. /\ Private!Running = co[running].body
      /\ Len(Chain) > 1 /\ Private!Front(Chain) = <<Main>>
  <2>1. Len(Chain) = 2 /\ Chain[1] = Main /\ Chain[2] = co[running].body
    BY <1>1
  <2>2. Private!Front(Chain) = <<Chain[1]>>
    <3>1. SubSeq(Chain, 1, 1) = <<Chain[1]>>
      <4> DEFINE s == SubSeq(Chain, 1, 1)
      <4>1. Chain \in Seq({Main, co[running].body})
        BY <1>1
      <4>2. s \in Seq({Main, co[running].body}) /\ Len(s) = 1 /\ s[1] = Chain[1]
        BY <2>1, <4>1, SubSeqProperties
      <4> HIDE DEF s
      <4>3. s = <<s[1]>>
        BY <4>2
      <4> QED
        BY <4>2, <4>3 DEF s
    <3> QED
      BY <2>1, <3>1 DEF Private!Front
  <2> QED
    BY <2>1, <2>2 DEF Private!Running
<1> QED
  BY <1>1, <1>2 DEF ScheduleInv, AssertsHold, TypeOK, Ids

LEMMA WorkRefined == ASSUME ScheduleInv, Work PROVE Private!Work
<1>1. /\ UNCHANGED <<open, co, nco, cap, running>> /\ running # -1
      /\ stack' \in Frames /\ View(stack)' = Private!Changed(View(stack))
  <2>1. PICK n \in 1 .. STACK_SIZE : stack' = [stack EXCEPT !.version = @ + 1, !.size = n]
    BY DEF Work
  <2>2. stack \in Frames
    BY DEF ScheduleInv, AssertsHold, TypeOK
  <2>3. stack'.owner = stack.owner /\ stack'.version = stack.version + 1
    BY <2>1, <2>2 DEF Frames
  <2>4. View(stack)' = Private!Changed(View(stack))
    BY <2>3 DEF View, Private!Changed
  <2>5. stack' \in Frames
    BY WorkStep DEF ScheduleInv, AssertsHold, TypeOK
  <2> QED
    BY <2>4, <2>5 DEF Work
<1>2. Ids' = Ids /\ Chain' = Chain
  BY <1>1 DEF Ids, Chain
<1>3. /\ Alive' = Alive
      /\ AllLocals' = [AllLocals EXCEPT ![Private!Running] = View(stack)']
  BY <1>1, <1>2, RunningFacts, WorkStep, OneChanges DEF Local
<1>4. AllLocals[Private!Running] = View(stack)
  BY <1>1, RunningFacts, LocalsById DEF LocalsFacts, Local
<1> QED
  BY <1>1, <1>2, <1>3, <1>4 DEF Private!Work, AllLocals

LEMMA YieldRefined == ASSUME ScheduleInv, coroutine_yield PROVE Private!Yield
<1>1. running # -1 /\ running' = -1 /\ stack' = stack
  BY DEF coroutine_yield
<1>2. running \in Ids /\ running \in DOMAIN co
  BY <1>1, RunningFacts
<1>3. /\ co'[running].body = co[running].body /\ co'[running].stack = stack
      /\ co'[running].status = "SUSPEND" /\ DOMAIN co' = DOMAIN co
      /\ \A i \in DOMAIN co \ {running} : co'[i] = co[i]
  BY <1>2 DEF coroutine_yield, SaveStack
<1>4. Ids' = Ids
  BY YieldStep
<1>5. /\ Alive' = Alive
      /\ AllLocals' = [AllLocals EXCEPT ![co[running].body] = View(stack)]
  BY <1>1, <1>2, <1>3, <1>4, RunningFacts, YieldStep, OneChanges DEF Local, View, Ids
<1>6. AllLocals[co[running].body] = View(stack)
  BY <1>1, RunningFacts, LocalsById DEF LocalsFacts, Local
<1>7. AllLocals' = AllLocals
  BY <1>5, <1>6 DEF AllLocals
<1> QED
  BY <1>1, <1>5, <1>7, RunningFacts DEF Private!Yield, Chain

LEMMA EndRefined == ASSUME ScheduleInv, mainfunc PROVE Private!Exit
<1> DEFINE b == co[running].body
<1>1. running # -1 /\ running' = -1 /\ stack' = stack
  BY DEF mainfunc
<1>2. running \in Ids /\ running \in DOMAIN co
  BY <1>1, RunningFacts
<1>3. co'[running] = NULL /\ DOMAIN co' = DOMAIN co
      /\ \A i \in DOMAIN co \ {running} : co'[i] = co[i]
  BY <1>2 DEF mainfunc
<1>4. Ids' = Ids \ {running}
  BY <1>3 DEF Ids
<1>5. LocalsFacts /\ LocalsFacts'
  BY LocalsById, LocalsNext, EndStep
<1>6. b \in Body /\ b # Main /\ Alive' = Alive \ {b}
  BY <1>2, <1>3, <1>4, <1>5, MainAssumption DEF Alive, ScheduleInv, NamesInv, LocalsFacts, Ids
<1>7. \A i \in Ids \ {running} : AllLocals'[co[i].body] = AllLocals[co[i].body]
  BY <1>1, <1>3, <1>4, <1>5, RunningFacts DEF LocalsFacts, Local, Ids
<1>8. \A x \in (Body \cup {Main}) \ {b} : AllLocals'[x] = AllLocals[x]
  BY <1>5, <1>6, <1>7 DEF LocalsFacts, Alive
<1>9. AllLocals' = [AllLocals EXCEPT ![b] = NoFrames]
  <2>1. AllLocals'[b] = NoFrames
    BY <1>5, <1>6 DEF LocalsFacts
  <2> QED
    BY <1>8, <2>1 DEF AllLocals
<1>10. Chain' = <<Main>> /\ (Alive \cup {Main})' = (Alive \cup {Main}) \ {b}
  BY <1>1, <1>6 DEF Chain
<1> QED
  BY <1>1, <1>9, <1>10, RunningFacts DEF Private!Exit

LEMMA CloseRefined == ASSUME ScheduleInv, coroutine_close PROVE Private!Free(Alive)
<1>1. /\ co' = [id \in DOMAIN co |-> NULL] /\ UNCHANGED <<running, stack>> /\ running = -1
  BY DEF coroutine_close
<1>2. Ids' = {} /\ Alive' = {} /\ Chain = <<Main>> /\ Chain' = <<Main>>
  BY <1>1 DEF Ids, Alive, Chain
<1>3. LocalsFacts /\ LocalsFacts'
  BY LocalsById, LocalsNext, OpenCloseStep
<1>4. Main \notin Alive
  BY <1>3, MainAssumption DEF Alive, LocalsFacts
<1>5. Alive \cap Private!ToSet(Chain) = {}
  BY <1>2, <1>4 DEF Private!ToSet
<1>6. \A x \in Body \cup {Main} :
        AllLocals'[x] = IF x \in Alive THEN NoFrames ELSE AllLocals[x]
  BY <1>2, <1>3, <1>4 DEF LocalsFacts, Alive
<1>7. AllLocals' = [x \in Body \cup {Main} |-> IF x \in Alive THEN NoFrames ELSE AllLocals[x]]
  BY <1>6 DEF AllLocals
<1> QED
  BY <1>2, <1>4, <1>5, <1>7 DEF Private!Free

LEMMA OpenRefined == ASSUME ScheduleInv, coroutine_open PROVE UNCHANGED Private!vars
<1>1. running' = -1 /\ ~open /\ co' = [id \in 0 .. DEFAULT_COROUTINE - 1 |-> NULL]
  BY DEF coroutine_open
<1>2. Ids = {} /\ Ids' = {} /\ running = -1
  BY <1>1 DEF ScheduleInv, NamesInv, AssertsHold, TypeOK, Ids
<1>3. Alive = {} /\ Alive' = {} /\ Chain' = Chain
  BY <1>1, <1>2 DEF Alive, Chain
<1>4. AllLocals' = AllLocals
  BY <1>3 DEF AllLocals, Locals
<1> QED
  BY <1>3, <1>4 DEF Private!vars

(* Coroutines that take turns on S->stack and are copied out of it are      *)
(* coroutines with private state: coroutine_resume, _save_stack and the     *)
(* growth of the table are invisible to the bodies.                         *)
THEOREM Refinement == Spec => PrivateSpec
<1>1. Init => Private!Init
  <2> SUFFICES ASSUME Init PROVE Private!Init
    OBVIOUS
  <2>1. Ids = {} /\ Alive = {} /\ Chain = <<Main>>
    BY DEF Init, Ids, Alive, Chain
  <2>2. AllLocals = [b \in Body \cup {Main} |->
                       IF b = Main THEN Private!Fresh(b) ELSE NoFrames]
    BY <2>1 DEF AllLocals, Locals, Private!Fresh
  <2> QED
    BY <2>1, <2>2 DEF Private!Init
<1>2. ScheduleInv /\ [Next]_vars => [Private!Next]_(Private!vars)
  <2> SUFFICES ASSUME ScheduleInv, [Next]_vars
               PROVE  [Private!Next]_(Private!vars)
    OBVIOUS
  <2>1. ASSUME NEW b \in Body, coroutine_new(b) PROVE Private!Next
    BY <2>1, NewRefined DEF Private!Next
  <2>2. ASSUME NEW id \in Ids, ResumeReady(id) \/ ResumeSuspend(id) PROVE Private!Next
    BY <2>2, ResumeRefined, LocalsById DEF Private!Next, LocalsFacts
  <2>3. CASE Work
    BY <2>3, WorkRefined DEF Private!Next
  <2>4. CASE coroutine_yield
    BY <2>4, YieldRefined DEF Private!Next
  <2>5. CASE mainfunc
    BY <2>5, EndRefined DEF Private!Next
  <2>6. CASE coroutine_close
    <3>1. Alive \in SUBSET (Body \cup {Main})
      BY LocalsById DEF Alive, LocalsFacts
    <3> QED
      BY <2>6, <3>1, CloseRefined DEF Private!Next
  <2>7. CASE coroutine_open
    BY <2>7, OpenRefined
  <2>8. CASE UNCHANGED vars
    BY <2>8 DEF vars, Private!vars, Alive, Ids, Chain, AllLocals, Locals, Id
  <2> QED
    BY <2>1, <2>2, <2>3, <2>4, <2>5, <2>6, <2>7, <2>8 DEF Next
<1> QED
  BY <1>1, <1>2, InvCorrect, PTL DEF Spec, PrivateSpec, Private!Spec
=============================================================================
