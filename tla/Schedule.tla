----------------------------- MODULE Schedule -----------------------------
(***************************************************************************)
(* coroutine/coroutine.c: a schedule of ucontext coroutines that all run   *)
(* on the one stack S->stack and are copied out of it when they yield.     *)
(*                                                                         *)
(* A coroutine is named by its body (func, ud); its id is its place in     *)
(* S->co, which doubles when it is full.  The bytes a coroutine has on the *)
(* stack are one value, its frames: whose they are, how often they changed *)
(* and how many bytes they take.                                           *)
(***************************************************************************)
EXTENDS Integers, FiniteSets

CONSTANTS Body,               \* what the program runs as coroutines
          NULL,
          DEFAULT_COROUTINE,  \* first capacity (16)
          STACK_SIZE,
          MaxCap,             \* bound on the capacity
          MaxVersion          \* bound on the changes a body makes

ASSUME BodyAssumption == NULL \notin Body
ASSUME SizeAssumption == DEFAULT_COROUTINE \in Nat \ {0} /\ STACK_SIZE \in Nat \ {0}
ASSUME BoundAssumption == MaxCap \in Nat /\ MaxVersion \in Nat

VARIABLES open,     \* between coroutine_open and coroutine_close
          co,       \* S->co: [ids -> struct coroutine or NULL]
          nco, cap, running,
          stack     \* the frames on S->stack

vars == <<open, co, nco, cap, running, stack>>

Frames == [owner : Body \cup {NULL}, version : Nat, size : 0 .. STACK_SIZE]
Status == {"READY", "RUNNING", "SUSPEND"}

(* struct coroutine; its stack is a buffer of cap bytes that holds size. *)
Coroutine == [body : Body, status : Status, cap : Nat, size : Nat,
              stack : Frames \cup {NULL}]

ASSUME NullAssumption == NULL \notin Coroutine /\ NULL \notin Frames

(* The types; in particular running is no id or the id of a coroutine. *)
TypeOK ==
  /\ open \in BOOLEAN
  /\ cap \in Nat \ {0} /\ nco \in 0 .. cap
  /\ co \in [0 .. cap - 1 -> Coroutine \cup {NULL}]
  /\ running \in {-1} \cup {id \in DOMAIN co : co[id] # NULL}
  /\ stack \in Frames

---------------------------------------------------------------------------
Ids   == {id \in DOMAIN co : co[id] # NULL}
Alive == {co[id].body : id \in Ids}

New(b) == [body |-> b, status |-> "READY", cap |-> 0, size |-> 0, stack |-> NULL]

(* coroutine_open: nothing is on the stack yet. *)
Init == /\ open = TRUE
        /\ co = [id \in 0 .. DEFAULT_COROUTINE - 1 |-> NULL]
        /\ nco = 0 /\ cap = DEFAULT_COROUTINE /\ running = -1
        /\ stack = [owner |-> NULL, version |-> 0, size |-> 0]

coroutine_open ==
  /\ ~open /\ open' = TRUE
  /\ co' = [id \in 0 .. DEFAULT_COROUTINE - 1 |-> NULL]
  /\ nco' = 0 /\ cap' = DEFAULT_COROUTINE /\ running' = -1
  /\ stack' = [owner |-> NULL, version |-> 0, size |-> 0]

(* coroutine_close, by the thread that opened the schedule: every coroutine *)
(* goes, also those that have not ended.                                    *)
coroutine_close ==
  /\ open /\ running = -1
  /\ open' = FALSE
  /\ co' = [id \in DOMAIN co |-> NULL]
  /\ nco' = 0
  /\ UNCHANGED <<cap, running, stack>>

(* The place a new coroutine takes in a table that is not full: the first   *)
(* free one of a search from nco on, round to the start.                    *)
FreeId(id) == /\ co[id] = NULL
              /\ \A other \in DOMAIN co :
                   co[other] = NULL => (id - nco) % cap <= (other - nco) % cap

(* Fault: the new half of the table starts one place too early. *)
coroutine_new_early(b) ==
  /\ open /\ b \notin Alive
  /\ IF nco >= cap
     THEN /\ 2 * cap <= MaxCap
          /\ co' = [id \in 0 .. 2 * cap - 1 |->
                      IF id < cap - 1 THEN co[id] ELSE IF id = cap - 1 THEN New(b) ELSE NULL]
          /\ cap' = 2 * cap
     ELSE /\ \E id \in DOMAIN co : FreeId(id) /\ co' = [co EXCEPT ![id] = New(b)]
          /\ UNCHANGED cap
  /\ nco' = nco + 1
  /\ UNCHANGED <<open, running, stack>>

(* Fault: a coroutine that makes the table grow is not counted. *)
coroutine_new_uncounted(b) ==
  /\ open /\ b \notin Alive
  /\ IF nco >= cap
     THEN /\ 2 * cap <= MaxCap
          /\ co' = [id \in 0 .. 2 * cap - 1 |->
                      IF id < cap THEN co[id] ELSE IF id = cap THEN New(b) ELSE NULL]
          /\ cap' = 2 * cap /\ nco' = nco
     ELSE /\ \E id \in DOMAIN co : FreeId(id) /\ co' = [co EXCEPT ![id] = New(b)]
          /\ nco' = nco + 1
          /\ UNCHANGED cap
  /\ UNCHANGED <<open, running, stack>>

(* coroutine_new, by the main program or by a coroutine. *)
coroutine_new(b) ==
  /\ open /\ b \notin Alive
  /\ IF nco >= cap
     THEN /\ 2 * cap <= MaxCap
          /\ co' = [id \in 0 .. 2 * cap - 1 |->
                      IF id < cap THEN co[id] ELSE IF id = cap THEN New(b) ELSE NULL]
          /\ cap' = 2 * cap
     ELSE /\ \E id \in DOMAIN co : FreeId(id) /\ co' = [co EXCEPT ![id] = New(b)]
          /\ UNCHANGED cap
  /\ nco' = nco + 1
  /\ UNCHANGED <<open, running, stack>>

---------------------------------------------------------------------------
(* coroutine_resume, by the main program only; its first two asserts are    *)
(* the caller's obligation.  An id nobody has is ignored.                   *)
Resume(id) == /\ open /\ running = -1 /\ id \in Ids
              /\ running' = id
              /\ UNCHANGED <<open, nco, cap>>

(* A new coroutine enters mainfunc, with any number of bytes. *)
ResumeReady(id) ==
  /\ Resume(id)
  /\ co[id].status = "READY"
  /\ co' = [co EXCEPT ![id].status = "RUNNING"]
  /\ \E n \in 1 .. STACK_SIZE :
       stack' = [owner |-> co[id].body, version |-> 0, size |-> n]

(* A suspended one gets the size bytes it saved back onto the stack. *)
ResumeSuspend(id) ==
  /\ Resume(id)
  /\ co[id].status = "SUSPEND"
  /\ co' = [co EXCEPT ![id].status = "RUNNING"]
  /\ stack' = co[id].stack

(* The running coroutine calls, returns, assigns: its frames change.        *)
Work == /\ running # -1
        /\ stack.version < MaxVersion
        /\ \E n \in 1 .. STACK_SIZE :
             stack' = [stack EXCEPT !.version = @ + 1, !.size = n]
        /\ UNCHANGED <<open, co, nco, cap, running>>

(* Fault: a buffer that is large enough is not refreshed.                   *)
SaveStackOnce(C) ==
  IF C.cap < stack.size
  THEN [C EXCEPT !.cap = stack.size, !.size = stack.size, !.stack = stack]
  ELSE [C EXCEPT !.size = stack.size]

(* Fault: the buffer is kept although it has become too small.              *)
SaveStackShort(C) == [C EXCEPT !.cap = IF @ = 0 THEN stack.size ELSE @,
                               !.size = stack.size, !.stack = stack]

(* _save_stack: the buffer grows when it is too small, and never shrinks.   *)
SaveStack(C) == [body |-> C.body, status |-> C.status,
                 cap |-> IF C.cap < stack.size THEN stack.size ELSE C.cap,
                 size |-> stack.size, stack |-> stack]

coroutine_yield ==
  /\ running # -1
  /\ co' = [co EXCEPT ![running] = [SaveStack(@) EXCEPT !.status = "SUSPEND"]]
  /\ running' = -1
  /\ UNCHANGED <<open, nco, cap, stack>>

(* The end of mainfunc: the coroutine is deleted while its stack is in use. *)
mainfunc ==
  /\ running # -1
  /\ co' = [co EXCEPT ![running] = NULL]
  /\ nco' = nco - 1
  /\ running' = -1
  /\ UNCHANGED <<open, cap, stack>>

Next == \/ \E b \in Body : coroutine_new(b)
        \/ \E id \in Ids : ResumeReady(id) \/ ResumeSuspend(id)
        \/ Work \/ coroutine_yield \/ mainfunc
        \/ coroutine_close \/ coroutine_open

Spec == Init /\ [][Next]_vars

---------------------------------------------------------------------------
(* nco counts the coroutines that live, whatever ended and whenever the     *)
(* table grew; with it the two assert(0) cannot fail: coroutine_new finds a *)
(* free place when it does not grow the table, and coroutine_resume never   *)
(* meets a coroutine that is running.                                       *)
AssertsHold ==
  /\ TypeOK
  /\ nco = Cardinality(Ids)
  /\ nco < cap => \E id \in DOMAIN co : co[id] = NULL
  /\ \A id \in Ids : co[id].status = "RUNNING" <=> id = running

(* An id stays with its coroutine until that ends, also when the table      *)
(* grows and whoever else comes and goes (the ids of a schedule are held by *)
(* the callers: co1 and co2 of main.c).                                     *)
IdKept == \A id \in Ids \ {running} :
            open' => id \in Ids' /\ co'[id].body = co[id].body
IdsKept == [][IdKept]_vars

(* The stack a suspended coroutine saved is its own and complete, and fits  *)
(* the buffer it was copied to.                                             *)
SavedComplete ==
  \A id \in Ids : LET C == co[id] IN
    C.status = "SUSPEND" => /\ C.stack # NULL /\ C.stack.owner = C.body
                            /\ C.size = C.stack.size /\ C.size <= C.cap
===========================================================================
