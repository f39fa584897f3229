------------------------- MODULE ShareStackProofs -------------------------
(***************************************************************************)
(* Proofs about coroutines on shared stacks, for any number of coroutines  *)
(* and of stacks.                                                          *)
(***************************************************************************)
EXTENDS ShareStackRefinement, ListLemmas

LEMMA FrontIndices ==
  ASSUME NEW S, NEW s \in Seq(S), Len(s) > 1
  PROVE  /\ Front(s) \in Seq(S)
         /\ Len(Front(s)) = Len(s) - 1
         /\ \A n \in 1 .. Len(s) - 1 : Front(s)[n] = s[n]
<1>1. Len(s) \in Nat /\ \A n \in 1 .. Len(s) : s[n] \in S
  OBVIOUS
<1> QED
  BY <1>1, SubSeqProperties DEF Front

LEMMA InitInv == Init => ShareStackInv
<1> SUFFICES ASSUME Init PROVE ShareStackInv
  OBVIOUS
<1> USE CoAssumption, CountAssumption DEF Init
<1>1. TypeOK
  <2>1. \A co \in Co \cup {NULL} : Fresh(co) \in Frames
    BY DEF Fresh, Frames
  <2>2. stack \in [StackMem -> Frames]
    BY <2>1
  <2>3. alloc_idx \in 0 .. UIntSize - 1
    BY SizeAssumption
  <2> QED
    BY <2>2, <2>3 DEF TypeOK, StackMem, SharedMem
<1>2. ChainInv
  <2>1. Len(pCallStack) = 1 /\ DOMAIN pCallStack = {1} /\ pCallStack[1] = MainCo
    OBVIOUS
  <2>2. Live(MainCo) /\ ~Shares(MainCo)
    BY DEF Live, Shares
  <2> HIDE DEF Init
  <2> QED
    BY <2>1, <2>2 DEF ChainInv
<1>3. OccupantInv
  BY DEF OccupantInv, Live, Shares
<1>4. SwapInv
  BY DEF SwapInv, Shares, Curr
<1>5. FramesKept
  <2>1. \A co \in Co : Live(co) => co = MainCo
    BY DEF Live
  <2>2. Place(MainCo) = Fresh(MainCo)
    BY DEF Place, Displaced, Shares, StackMem
  <2>3. Fresh(MainCo).owner = MainCo /\ Fresh(MainCo) \in Frames
    BY DEF Fresh, Frames
  <2> QED
    BY <2>1, <2>2, <2>3, NullAssumption DEF FramesKept
<1> QED
  BY <1>1, <1>2, <1>3, <1>4, <1>5 DEF ShareStackInv

(* What the facts about the running coroutine amount to. *)
LEMMA CurrFacts ==
  ASSUME ShareStackInv
  PROVE  /\ Len(pCallStack) \in Nat \ {0}
         /\ Curr \in Co /\ Live(Curr) /\ Curr \in OnStack
         /\ \A co \in Co : co \in OnStack => Live(co)
         /\ pc = "run" => ~Displaced(Curr)
<1>1. /\ DOMAIN pCallStack = 1 .. Len(pCallStack)
      /\ Len(pCallStack) \in Nat \ {0}
  BY DEF ShareStackInv, TypeOK, ChainInv
<1>2. Len(pCallStack) \in DOMAIN pCallStack
  BY <1>1
<1>3. Curr \in Co /\ Live(Curr)
  BY <1>2 DEF ShareStackInv, TypeOK, ChainInv, Curr
<1>4. Curr \in OnStack
  BY <1>2 DEF Curr, OnStack, ToSet
<1>5. \A co \in Co : co \in OnStack => Live(co)
  BY DEF ShareStackInv, ChainInv, OnStack, ToSet
<1>6. pc = "run" => ~Displaced(Curr)
  BY DEF ShareStackInv, SwapInv, Displaced, ToRestore
<1> QED
  BY <1>1, <1>3, <1>4, <1>5, <1>6

(* A swap to a live coroutine moves nobody's frames out of reach.           *)
LEMMA SwapKeepsPlace ==
  ASSUME ShareStackInv, pc = "run", NEW pending \in Co, Live(pending),
         BeforeSwap(pending), pc' = "swapped",
         UNCHANGED <<cIsShareStack, stack_mem, stack>>,
         NEW co \in Co, Live(co)
  PROVE  Place(co)' = Place(co)
<1>1. /\ ~ToRestore(co)
      /\ Shares(co)' = Shares(co)
  BY DEF ToRestore, Shares
<1>2. CASE ~Shares(co)
  BY <1>1, <1>2 DEF Place, Displaced
<1>3. CASE Shares(co) /\ ~Shares(pending)
  <2>1. UNCHANGED <<occupy, save_buffer>> /\ pending_co' = NULL
    BY <1>3 DEF BeforeSwap, Shares
  <2>2. ~ToRestore(co)'
    BY <2>1, CoAssumption DEF ToRestore
  <2> QED
    BY <1>1, <2>1, <2>2 DEF Place, Displaced, Occupant
<1>4. CASE Shares(co) /\ Shares(pending)
  <2> DEFINE mem == stack_mem[pending]
             o == occupy[mem]
  <2>1. /\ mem \in SharedMem /\ o # NULL
        /\ stack_mem[o] = mem /\ stack_mem[co] \in SharedMem /\ o \in Co
    BY <1>4 DEF ShareStackInv, TypeOK, OccupantInv, Live, Occupant
  <2>2. /\ pending_co' = pending /\ occupy_co' = o
        /\ occupy' = [occupy EXCEPT ![mem] = pending]
        /\ save_buffer' = IF o # pending THEN [save_buffer EXCEPT ![o] = stack[mem]]
                          ELSE save_buffer
    BY <1>4, <2>1 DEF BeforeSwap, SaveStackBuffer, Shares
  <2> HIDE DEF mem, o
  <2>3. CASE co = pending
    <3>1. Displaced(co)' <=> o # co
      BY <1>1, <1>4, <2>1, <2>2, <2>3
      DEF ShareStackInv, TypeOK, Displaced, Occupant, ToRestore, mem
    <3>2. Displaced(co) <=> o # co
      BY <1>1, <1>4, <2>3 DEF Displaced, Occupant, o, mem
    <3>3. save_buffer'[co] = save_buffer[co]
      BY <2>1, <2>2, <2>3 DEF ShareStackInv, TypeOK
    <3> QED
      BY <3>1, <3>2, <3>3 DEF Place
  <2>4. CASE co # pending /\ stack_mem[co] = mem
    <3>1. Displaced(co)'
      BY <1>1, <1>4, <2>1, <2>2, <2>4 DEF ShareStackInv, TypeOK, Displaced, Occupant
    <3>2. Displaced(co) <=> o # co
      BY <1>1, <1>4, <2>4 DEF Displaced, Occupant, o
    <3>3. save_buffer'[co] = IF o = co THEN stack[mem] ELSE save_buffer[co]
      BY <2>1, <2>2, <2>4 DEF ShareStackInv, TypeOK
    <3> QED
      BY <2>4, <3>1, <3>2, <3>3 DEF Place
  <2>5. CASE co # pending /\ stack_mem[co] # mem
    <3>1. Displaced(co)' <=> Displaced(co)
      BY <1>1, <2>1, <2>2, <2>5 DEF ShareStackInv, TypeOK, Displaced, Occupant, ToRestore
    <3>2. save_buffer'[co] = save_buffer[co]
      BY <2>1, <2>2, <2>5 DEF ShareStackInv, TypeOK
    <3> QED
      BY <3>1, <3>2 DEF Place
  <2> QED
    BY <2>3, <2>4, <2>5
<1> QED
  BY <1>2, <1>3, <1>4

---------------------------------------------------------------------------
(* co_yield_env and CoRoutineFunc switch to the resumer of the running      *)
(* coroutine, which is live and keeps its frames.                           *)
LEMMA YieldTarget ==
  ASSUME ShareStackInv, YieldEnv,
         cEnd' = cEnd \/ cEnd' = [cEnd EXCEPT ![Curr] = TRUE]
  PROVE  /\ Curr' \in Co /\ Live(Curr') /\ Curr' # Curr /\ BeforeSwap(Curr')
         /\ ChainInv' /\ pCallStack' \in Seq(Co)
         /\ \A co \in Co : Live(co)' => Live(co)
<1> DEFINE n == Len(pCallStack)
<1>1. /\ n \in Nat /\ n > 1 /\ pCallStack \in Seq(Co) /\ cEnd \in [Co -> BOOLEAN]
      /\ DOMAIN pCallStack = 1 .. n
      /\ pCallStack' = Front(pCallStack)
      /\ UNCHANGED <<allocated, cStart, cIsShareStack>>
  BY DEF ShareStackInv, TypeOK, YieldEnv
<1>2. /\ pCallStack' \in Seq(Co) /\ Len(pCallStack') = n - 1
      /\ \A k \in 1 .. n - 1 : pCallStack'[k] = pCallStack[k]
  BY <1>1, FrontIndices
<1> HIDE DEF n
<1>3. \A k \in 1 .. n - 1 : pCallStack[k] \in Co /\ pCallStack[k] # Curr
                            /\ Live(pCallStack[k])
  BY <1>1 DEF ShareStackInv, ChainInv, Curr, n
<1>4. Curr' = pCallStack[n - 1]
  BY <1>1, <1>2 DEF Curr
<1>5. Curr' \in Co /\ Live(Curr') /\ Curr' # Curr
  BY <1>1, <1>3, <1>4
<1>6. BeforeSwap(Curr')
  BY <1>4 DEF YieldEnv, n
<1>7. Curr \in Co
  BY CurrFacts
<1>8. \A co \in Co : Live(co)' => Live(co)
  BY <1>1, <1>7 DEF Live
<1>9. ChainInv'
  <2>1. DOMAIN pCallStack' = 1 .. n - 1
    BY <1>2
  <2>2. /\ pCallStack'[1] = MainCo /\ Len(pCallStack') >= 1
        /\ \A k, l \in 1 .. n - 1 : pCallStack'[k] = pCallStack'[l] => k = l
        /\ ~cIsShareStack'[MainCo]
    BY <1>1, <1>2 DEF ShareStackInv, ChainInv, Shares
  <2>3. \A k \in 1 .. n - 1 : /\ pCallStack'[k] \in allocated'
                              /\ cStart'[pCallStack'[k]] /\ ~cEnd'[pCallStack'[k]]
    BY <1>1, <1>2, <1>3, <1>7 DEF Live
  <2> QED
    BY <2>1, <2>2, <2>3 DEF ChainInv, Live, Shares
<1> QED
  BY <1>2, <1>5, <1>6, <1>8, <1>9

(* What BeforeSwap does to the occupants. *)
LEMMA SwapOccupants ==
  ASSUME TypeOK, OccupantInv, NEW pending \in allocated, BeforeSwap(pending),
         UNCHANGED <<allocated, cIsShareStack, stack_mem>>,
         \A co \in Co : cStart'[co] = (cStart[co] \/ co = pending),
         \A co \in Co : Live(co)' => Live(co) \/ co = pending
  PROVE  /\ OccupantInv'
         /\ Shares(pending)' => Occupant(pending)' = pending
         /\ occupy' \in [SharedMem -> Co \cup {NULL}]
         /\ save_buffer' \in [Co -> Frames \cup {NULL}]
         /\ pending_co' \in Co \cup {NULL} /\ occupy_co' \in Co \cup {NULL}
<1>1. pending \in Co
  BY DEF TypeOK
<1>2. CASE ~Shares(pending)
  <2>1. UNCHANGED <<occupy, save_buffer>> /\ pending_co' = NULL /\ occupy_co' = NULL
    BY <1>2 DEF BeforeSwap, Shares
  <2>2. OccupantInv'
    BY <1>1, <1>2, <2>1 DEF TypeOK, OccupantInv, Shares, Occupant
  <2> QED
    BY <1>2, <2>1, <2>2 DEF Shares, TypeOK
<1>3. CASE Shares(pending)
  <2> DEFINE mem == stack_mem[pending]
  <2>1. mem \in SharedMem
    BY <1>3 DEF OccupantInv
  <2>2. /\ occupy' = [occupy EXCEPT ![mem] = pending]
        /\ pending_co' = pending /\ occupy_co' = occupy[mem]
    BY <1>3 DEF BeforeSwap, Shares
  <2>3. save_buffer' \in [Co -> Frames \cup {NULL}]
    <3>1. CASE occupy[mem] # NULL /\ occupy[mem] # pending
      <4>1. occupy[mem] \in Co
        BY <2>1, <3>1 DEF TypeOK
      <4>2. stack[stack_mem[occupy[mem]]] \in Frames
        BY <4>1 DEF TypeOK
      <4> QED
        BY <1>3, <3>1, <4>1, <4>2 DEF BeforeSwap, Shares, SaveStackBuffer, TypeOK
    <3>2. CASE ~(occupy[mem] # NULL /\ occupy[mem] # pending)
      BY <1>3, <3>2 DEF BeforeSwap, Shares, TypeOK
    <3> QED
      BY <3>1, <3>2
  <2>4. /\ \A m \in SharedMem : occupy'[m] = IF m = mem THEN pending ELSE occupy[m]
        /\ occupy' \in [SharedMem -> Co \cup {NULL}]
    BY <1>1, <2>2 DEF TypeOK
  <2> HIDE DEF mem
  <2>5. ASSUME NEW m \in SharedMem, occupy'[m] # NULL
        PROVE  /\ occupy'[m] \in allocated' /\ cIsShareStack'[occupy'[m]]
               /\ stack_mem'[occupy'[m]] = m /\ cStart'[occupy'[m]]
    <3>1. CASE m = mem
      BY <1>1, <1>3, <2>4, <3>1 DEF Shares, mem
    <3>2. CASE m # mem
      <4>1. occupy'[m] = occupy[m] /\ occupy[m] \in Co
        BY <2>4, <2>5, <3>2 DEF TypeOK
      <4> QED
        BY <2>5, <4>1 DEF OccupantInv, Shares
    <3> QED
      BY <3>1, <3>2
  <2>6. ASSUME NEW co \in Co, Live(co)', Shares(co)'
        PROVE  Occupant(co)' # NULL
    <3>1. stack_mem[co] \in SharedMem
      BY <2>6 DEF OccupantInv, Live, Shares
    <3>2. Live(co) \/ co = pending
      BY <2>6
    <3>3. stack_mem[co] # mem => occupy[stack_mem[co]] # NULL
      BY <2>6, <3>2 DEF OccupantInv, Shares, Occupant, mem
    <3> QED
      BY <1>1, <2>4, <3>1, <3>3, CoAssumption DEF Occupant
  <2>7. \A co \in allocated' : IF cIsShareStack'[co] THEN stack_mem'[co] \in SharedMem
                                                    ELSE stack_mem'[co] = co
    BY DEF OccupantInv, Shares
  <2>8. OccupantInv'
    BY <2>5, <2>6, <2>7 DEF OccupantInv, Shares, Live, Occupant
  <2> QED
    BY <1>1, <2>1, <2>2, <2>3, <2>4, <2>8 DEF TypeOK, Occupant, mem
<1> QED
  BY <1>2, <1>3

LEMMA YieldStep ==
  ASSUME ShareStackInv, YieldEnv,
         cEnd' = cEnd \/ cEnd' = [cEnd EXCEPT ![Curr] = TRUE]
  PROVE  /\ ShareStackInv'
         /\ \A co \in Co : Live(co)' => Live(co) /\ Place(co)' = Place(co)
<1>1. /\ Curr' \in Co /\ Live(Curr') /\ BeforeSwap(Curr')
      /\ ChainInv' /\ pCallStack' \in Seq(Co)
      /\ \A co \in Co : Live(co)' => Live(co)
  BY YieldTarget
<1>2. PICK p \in Co : p = Curr'
  BY <1>1
<1>3. Live(p) /\ BeforeSwap(p) /\ p \in allocated /\ cStart[p]
  BY <1>1, <1>2 DEF Live
<1>4. /\ pc = "run" /\ pc' = "swapped"
      /\ UNCHANGED <<allocated, cStart, cIsShareStack, stack_mem, alloc_idx, stack>>
  BY DEF YieldEnv
<1>5. Curr \in Co /\ cEnd' \in [Co -> BOOLEAN]
  BY CurrFacts DEF ShareStackInv, TypeOK
<1>6. \A co \in Co : cStart'[co] = (cStart[co] \/ co = p)
  BY <1>3, <1>4 DEF ShareStackInv, TypeOK
<1>7. /\ OccupantInv'
      /\ Shares(p)' => Occupant(p)' = p
      /\ occupy' \in [SharedMem -> Co \cup {NULL}]
      /\ save_buffer' \in [Co -> Frames \cup {NULL}]
      /\ pending_co' \in Co \cup {NULL} /\ occupy_co' \in Co \cup {NULL}
  BY <1>1, <1>3, <1>4, <1>6, SwapOccupants DEF ShareStackInv
<1>8. TypeOK'
  BY <1>1, <1>4, <1>5, <1>7 DEF ShareStackInv, TypeOK
<1>9. SwapInv'
  <2>1. IF Shares(p)' THEN pending_co' = p /\ occupy_co' # NULL
        ELSE pending_co' = NULL /\ occupy_co' = NULL
    BY <1>3, <1>4 DEF ShareStackInv, OccupantInv, BeforeSwap, Shares, Occupant
  <2> QED
    BY <1>2, <1>7, <2>1 DEF SwapInv, Shares, Occupant
<1>10. \A co \in Co : Live(co)' => Live(co) /\ Place(co)' = Place(co)
  BY <1>1, <1>3, <1>4, SwapKeepsPlace
<1>11. FramesKept'
  BY <1>10 DEF ShareStackInv, FramesKept
<1> QED
  BY <1>1, <1>7, <1>8, <1>9, <1>10, <1>11 DEF ShareStackInv

---------------------------------------------------------------------------
(* A new coroutine has no frames and occupies nothing.                      *)
LEMMA CreateStep ==
  ASSUME ShareStackInv, NEW co \in Co, NEW share \in BOOLEAN, co_create(co, share)
  PROVE  /\ ShareStackInv'
         /\ \A x \in Co : /\ Live(x)' <=> Live(x)
                          /\ Live(x) => Place(x)' = Place(x)
<1>1. /\ pc = "run" /\ co \notin allocated /\ allocated' = allocated \cup {co}
      /\ UNCHANGED <<stack, occupy, pCallStack, env, pc>>
      /\ cStart' = [cStart EXCEPT ![co] = FALSE] /\ cEnd' = [cEnd EXCEPT ![co] = FALSE]
      /\ cIsShareStack' = [cIsShareStack EXCEPT ![co] = share]
      /\ save_buffer' = [save_buffer EXCEPT ![co] = NULL]
  BY DEF co_create
<1>2. /\ stack_mem' = [stack_mem EXCEPT ![co] = IF share THEN alloc_idx % count ELSE co]
      /\ alloc_idx' \in 0 .. UIntSize - 1
  <2>1. (alloc_idx + 1) % UIntSize \in 0 .. UIntSize - 1
    BY SizeAssumption DEF ShareStackInv, TypeOK
  <2> QED
    BY <2>1 DEF co_create, ShareStackInv, TypeOK
<1>3. alloc_idx % count \in SharedMem
  BY CountAssumption, SizeAssumption DEF ShareStackInv, TypeOK, SharedMem
<1>4. /\ stack_mem'[co] = IF share THEN alloc_idx % count ELSE co
      /\ cIsShareStack'[co] = share /\ ~cStart'[co]
  BY <1>1, <1>2 DEF ShareStackInv, TypeOK
<1>5. \A x \in Co \ {co} : /\ stack_mem'[x] = stack_mem[x] /\ cStart'[x] = cStart[x]
                           /\ cEnd'[x] = cEnd[x] /\ cIsShareStack'[x] = cIsShareStack[x]
                           /\ save_buffer'[x] = save_buffer[x]
  BY <1>1, <1>2 DEF ShareStackInv, TypeOK
<1>6. \A x \in Co : (Live(x)' <=> Live(x)) /\ (Live(x) => x # co)
  BY <1>1, <1>4, <1>5 DEF Live
<1>7. \A x \in Co : Live(x) => Place(x)' = Place(x)
  BY <1>1, <1>5, <1>6 DEF Place, Displaced, Shares, Occupant, ToRestore, env
<1>8. TypeOK'
  BY <1>1, <1>2, <1>3, CoAssumption DEF ShareStackInv, TypeOK, StackMem, env
<1>9. MainCo # co
  BY <1>6, CurrFacts DEF ShareStackInv, ChainInv
<1>10. ChainInv'
  <2>1. ChainInv /\ \A n \in DOMAIN pCallStack : pCallStack[n] \in Co
    BY DEF ShareStackInv, TypeOK
  <2>2. \A n \in DOMAIN pCallStack : /\ pCallStack[n] \in allocated'
                                     /\ cStart'[pCallStack[n]] /\ ~cEnd'[pCallStack[n]]
    BY <1>6, <2>1 DEF ChainInv, Live
  <2>3. ~cIsShareStack'[MainCo]
    BY <1>5, <1>9, <2>1, CoAssumption DEF ChainInv, Shares
  <2> QED
    BY <1>1, <2>1, <2>2, <2>3 DEF ChainInv, Live, Shares
<1>11. OccupantInv'
  <2>1. \A x \in allocated' : IF cIsShareStack'[x] THEN stack_mem'[x] \in SharedMem
                                                   ELSE stack_mem'[x] = x
    BY <1>1, <1>3, <1>4, <1>5 DEF ShareStackInv, TypeOK, OccupantInv, Shares
  <2>2. ASSUME NEW m \in SharedMem, occupy[m] # NULL
        PROVE  /\ occupy[m] \in allocated' /\ cIsShareStack'[occupy[m]]
               /\ stack_mem'[occupy[m]] = m /\ cStart'[occupy[m]]
    <3>1. occupy[m] \in allocated /\ occupy[m] \in Co \ {co}
      BY <1>1, <2>2 DEF ShareStackInv, TypeOK, OccupantInv
    <3> QED
      BY <1>1, <1>5, <2>2, <3>1 DEF ShareStackInv, OccupantInv, Shares
  <2>3. \A x \in Co : Live(x)' /\ cIsShareStack'[x] => occupy[stack_mem'[x]] # NULL
    BY <1>5, <1>6 DEF ShareStackInv, OccupantInv, Shares, Occupant
  <2> QED
    BY <1>1, <2>1, <2>2, <2>3 DEF OccupantInv, Shares, Occupant
<1>12. SwapInv'
  <2>1. Curr' = Curr /\ Curr \in Co \ {co}
    BY <1>1, <1>6, CurrFacts DEF Curr
  <2>2. /\ cIsShareStack'[Curr] = cIsShareStack[Curr]
        /\ stack_mem'[Curr] = stack_mem[Curr]
    BY <1>5, <2>1
  <2> QED
    BY <1>1, <2>1, <2>2 DEF ShareStackInv, SwapInv, Shares, Occupant, env
<1>13. FramesKept'
  BY <1>6, <1>7 DEF ShareStackInv, FramesKept
<1> QED
  BY <1>6, <1>7, <1>8, <1>10, <1>11, <1>12, <1>13 DEF ShareStackInv

(* co_free leaves the frames of the others, and under the discipline no     *)
(* occupant is freed.                                                       *)
LEMMA FreeStep ==
  ASSUME ShareStackInv, NEW co \in Co, co_free(co)
  PROVE  /\ ShareStackInv'
         /\ \A x \in Co : /\ Live(x)' <=> Live(x) /\ x # co
                          /\ Place(x)' = Place(x)
<1>1. /\ co \notin OnStack /\ allocated' = allocated \ {co} /\ ~Occupies(co)
      /\ UNCHANGED <<cStart, cEnd, cIsShareStack, stack_mem, save_buffer, alloc_idx,
                     stack, occupy, pCallStack, env, pc>>
  BY DisciplineAssumption DEF co_free
<1>2. \A x \in Co : /\ Live(x)' <=> Live(x) /\ x # co
                    /\ Place(x)' = Place(x)
  BY <1>1 DEF Live, Place, Displaced, Shares, Occupant, ToRestore, env
<1>3. TypeOK'
  BY <1>1 DEF ShareStackInv, TypeOK, env
<1>4. ChainInv'
  <2>1. \A n \in DOMAIN pCallStack : pCallStack[n] # co
    BY <1>1 DEF OnStack, ToSet
  <2> QED
    BY <1>1, <2>1 DEF ShareStackInv, ChainInv, Live, Shares
<1>5. OccupantInv'
  BY <1>1, <1>2 DEF ShareStackInv, OccupantInv, Occupies, Shares, Occupant
<1>6. SwapInv'
  BY <1>1 DEF ShareStackInv, SwapInv, Shares, Occupant, Curr, env
<1>7. FramesKept'
  BY <1>2 DEF ShareStackInv, FramesKept
<1> QED
  BY <1>2, <1>3, <1>4, <1>5, <1>6, <1>7 DEF ShareStackInv

(* The running coroutine changes its own frames and no other's.             *)
LEMMA WorkStep ==
  ASSUME ShareStackInv, Work
  PROVE  /\ ShareStackInv'
         /\ \A x \in Co : /\ Live(x)' <=> Live(x)
                          /\ Live(x) => Place(x)' = IF x = Curr THEN Changed(Place(x))
                                                    ELSE Place(x)
<1> DEFINE mem == stack_mem[Curr]
<1>1. /\ pc = "run" /\ stack' = [stack EXCEPT ![mem] = Changed(stack[mem])]
      /\ UNCHANGED <<allocated, cStart, cEnd, cIsShareStack, stack_mem, save_buffer,
                     alloc_idx, occupy, pCallStack, pending_co, occupy_co, pc>>
  BY DEF Work, coroutine, env
<1>2. /\ Curr \in Co /\ Live(Curr) /\ ~Displaced(Curr)
      /\ mem \in StackMem /\ stack[mem] \in Frames
  BY <1>1, CurrFacts DEF ShareStackInv, TypeOK
<1>3. Changed(stack[mem]) \in Frames /\ Changed(stack[mem]).owner = stack[mem].owner
  BY <1>2 DEF Changed, Frames
<1>4. \A m \in StackMem : stack'[m] = IF m = mem THEN Changed(stack[mem]) ELSE stack[m]
  BY <1>1, <1>2 DEF ShareStackInv, TypeOK
<1>5. \A x \in Co : /\ Live(x)' <=> Live(x)
                    /\ Displaced(x)' <=> Displaced(x)
  BY <1>1 DEF Live, Displaced, Shares, Occupant, ToRestore
<1>6. ASSUME NEW x \in Co, Live(x), x # Curr, ~Displaced(x)
      PROVE  stack_mem[x] # mem
  <2>1. /\ Shares(x) => stack_mem[x] \in SharedMem /\ Occupant(x) = x
        /\ ~Shares(x) => stack_mem[x] = x
    BY <1>6 DEF ShareStackInv, OccupantInv, Live, Displaced
  <2>2. /\ Shares(Curr) => mem \in SharedMem /\ Occupant(Curr) = Curr
        /\ ~Shares(Curr) => mem = Curr
    BY <1>2 DEF ShareStackInv, OccupantInv, Live, Displaced
  <2> HIDE DEF mem
  <2>3. \A m \in SharedMem : m \notin Co
    BY CountAssumption DEF SharedMem
  <2>4. CASE Shares(x) /\ Shares(Curr)
    BY <1>6, <2>1, <2>2, <2>4 DEF Occupant, mem
  <2> QED
    BY <1>2, <1>6, <2>1, <2>2, <2>3, <2>4
<1> HIDE DEF mem
<1>7. \A x \in Co : Live(x) => Place(x)' = IF x = Curr THEN Changed(Place(x))
                                           ELSE Place(x)
  <2> SUFFICES ASSUME NEW x \in Co, Live(x)
               PROVE  Place(x)' = IF x = Curr THEN Changed(Place(x)) ELSE Place(x)
    OBVIOUS
  <2>1. stack_mem[x] \in StackMem /\ stack_mem'[x] = stack_mem[x]
        /\ save_buffer'[x] = save_buffer[x]
    BY <1>1 DEF ShareStackInv, TypeOK
  <2>2. CASE x = Curr
    BY <1>2, <1>4, <1>5, <2>1, <2>2 DEF Place, mem
  <2>3. CASE x # Curr /\ Displaced(x)
    BY <1>5, <2>1, <2>3 DEF Place
  <2>4. CASE x # Curr /\ ~Displaced(x)
    BY <1>4, <1>5, <1>6, <2>1, <2>4 DEF Place
  <2> QED
    BY <2>2, <2>3, <2>4
<1>8. TypeOK'
  BY <1>1, <1>2, <1>3 DEF ShareStackInv, TypeOK
<1>9. ChainInv' /\ OccupantInv' /\ SwapInv'
  BY <1>1 DEF ShareStackInv, ChainInv, OccupantInv, SwapInv, Live, Shares, Occupant, Curr
<1>10. FramesKept'
  <2>1. Place(Curr) = stack[mem]
    BY <1>2 DEF Place, mem
  <2>2. Changed(Place(Curr)) # NULL /\ Changed(Place(Curr)).owner = Place(Curr).owner
    BY <1>3, <2>1, NullAssumption
  <2> QED
    BY <1>5, <1>7, <2>2 DEF ShareStackInv, FramesKept
<1> QED
  BY <1>5, <1>7, <1>8, <1>9, <1>10 DEF ShareStackInv

(* The tail of co_swap brings the frames back to the stack they belong to.  *)
LEMMA AfterSwapStep ==
  ASSUME ShareStackInv, AfterSwap
  PROVE  /\ ShareStackInv'
         /\ \A x \in Co : /\ Live(x)' <=> Live(x)
                          /\ Live(x) => Place(x)' = Place(x)
<1> DEFINE Restores == occupy_co # NULL /\ pending_co # NULL /\ occupy_co # pending_co
                       /\ save_buffer[pending_co] # NULL
<1>1. /\ pc = "swapped" /\ pc' = "run"
      /\ stack' = IF Restores
                  THEN [stack EXCEPT ![stack_mem[pending_co]] = save_buffer[pending_co]]
                  ELSE stack
      /\ UNCHANGED <<allocated, cStart, cEnd, cIsShareStack, stack_mem, save_buffer,
                     alloc_idx, occupy, pCallStack, pending_co, occupy_co>>
  BY DEF AfterSwap, coroutine, env
<1>2. /\ Curr \in Co /\ Live(Curr) /\ Place(Curr) # NULL
      /\ Restores => pending_co = Curr /\ Shares(Curr)
      /\ Shares(Curr) => pending_co = Curr /\ occupy_co # NULL /\ Occupant(Curr) = Curr
      /\ ~Shares(Curr) => pending_co = NULL
  BY <1>1, CurrFacts DEF ShareStackInv, SwapInv, FramesKept
<1>3. \A x \in Co : Live(x)' <=> Live(x)
  BY <1>1 DEF Live
<1>4. \A x \in Co : Displaced(x)' <=> Shares(x) /\ Occupant(x) # x
  BY <1>1 DEF Displaced, Shares, Occupant, ToRestore
<1>5. \A x \in Co : Displaced(x) <=> Shares(x) /\ (Occupant(x) # x
                                                   \/ (x = Curr /\ occupy_co # x))
  BY <1>1, <1>2, CoAssumption DEF Displaced, ToRestore
<1>6. Restores => Place(Curr) = save_buffer[Curr]
  BY <1>2, <1>5 DEF Place
<1>7. ~Restores => ~Displaced(Curr)
  <2>1. ASSUME Displaced(Curr) PROVE Restores
    <3>1. Shares(Curr) /\ Occupant(Curr) = Curr /\ occupy_co # Curr
      BY <1>2, <1>5, <2>1
    <3>2. save_buffer[Curr] # NULL
      BY <1>2, <2>1 DEF Place
    <3> QED
      BY <1>2, <3>1, <3>2, CoAssumption
  <2> QED
    BY <2>1
<1>8. TypeOK'
  <2>1. CASE Restores
    <3>1. save_buffer[pending_co] \in Frames
      BY <1>2, <2>1 DEF ShareStackInv, TypeOK
    <3> QED
      BY <1>1, <2>1, <3>1 DEF ShareStackInv, TypeOK
  <2>2. CASE ~Restores
    BY <1>1, <2>2 DEF ShareStackInv, TypeOK
  <2> QED
    BY <2>1, <2>2
<1>9. ChainInv' /\ OccupantInv' /\ SwapInv'
  BY <1>1 DEF ShareStackInv, ChainInv, OccupantInv, SwapInv, Live, Shares, Occupant, Curr
<1>10. Restores => \A m \in StackMem :
         stack'[m] = IF m = stack_mem[Curr] THEN save_buffer[Curr] ELSE stack[m]
  BY <1>1, <1>2 DEF ShareStackInv, TypeOK
<1>11. ~Restores => stack' = stack
  BY <1>1
<1> HIDE DEF Restores
<1>12. ASSUME NEW x \in Co, Live(x)
       PROVE  Place(x)' = Place(x)
  <2>1. stack_mem[x] \in StackMem /\ stack_mem'[x] = stack_mem[x]
        /\ save_buffer'[x] = save_buffer[x] /\ stack_mem[Curr] \in StackMem
    BY <1>1, <1>2 DEF ShareStackInv, TypeOK
  <2>2. CASE x = Curr /\ Restores
    BY <1>2, <1>4, <1>6, <1>10, <2>1, <2>2 DEF Place
  <2>3. CASE x = Curr /\ ~Restores
    BY <1>2, <1>4, <1>7, <1>11, <2>1, <2>3 DEF Place
  <2>4. CASE x # Curr
    <3>1. Displaced(x)' <=> Displaced(x)
      BY <1>4, <1>5, <2>4
    <3>2. CASE Displaced(x)
      BY <2>1, <3>1, <3>2 DEF Place
    <3>3. CASE ~Displaced(x) /\ ~Restores
      BY <1>11, <2>1, <3>1, <3>3 DEF Place
    <3>4. CASE ~Displaced(x) /\ Restores
      <4>1. stack_mem[x] # stack_mem[Curr]
        <5>1. Shares(x) => Occupant(x) = x
          BY <1>5, <3>4
        <5>2. Shares(Curr) /\ Occupant(Curr) = Curr /\ stack_mem[Curr] \in SharedMem
          BY <1>2, <3>4 DEF ShareStackInv, OccupantInv, Live
        <5>3. ~Shares(x) => stack_mem[x] = x
          BY <1>12 DEF ShareStackInv, OccupantInv, Live
        <5>4. x \notin SharedMem
          BY CountAssumption DEF SharedMem
        <5> QED
          BY <2>4, <5>1, <5>2, <5>3, <5>4 DEF Occupant
      <4> QED
        BY <1>10, <2>1, <3>1, <3>4, <4>1 DEF Place
    <3> QED
      BY <3>2, <3>3, <3>4
  <2> QED
    BY <2>2, <2>3, <2>4
<1>13. FramesKept'
  BY <1>3, <1>12 DEF ShareStackInv, FramesKept
<1> QED
  BY <1>3, <1>8, <1>9, <1>12, <1>13 DEF ShareStackInv

---------------------------------------------------------------------------
(* co_resume puts the target on top of the chain and starts it.             *)
LEMMA ResumeChain ==
  ASSUME ShareStackInv, NEW co \in Co, co_resume(co)
  PROVE  /\ ChainInv' /\ pCallStack' \in Seq(Co) /\ Curr' = co
         /\ cStart' \in [Co -> BOOLEAN]
         /\ \A x \in Co : cStart'[x] = (cStart[x] \/ x = co)
         /\ \A x \in Co : Live(x)' <=> Live(x) \/ x = co
<1> DEFINE n == Len(pCallStack)
<1>1. /\ co \in allocated /\ ~cEnd[co] /\ co \notin OnStack
      /\ pCallStack' = Append(pCallStack, co)
      /\ cStart' = [cStart EXCEPT ![co] = TRUE]
      /\ UNCHANGED <<allocated, cEnd, cIsShareStack>>
  BY DEF co_resume, Resumable
<1>2. /\ n \in Nat /\ n >= 1 /\ DOMAIN pCallStack = 1 .. n
      /\ pCallStack' \in Seq(Co) /\ Len(pCallStack') = n + 1
      /\ DOMAIN pCallStack' = 1 .. n + 1
      /\ pCallStack'[n + 1] = co
      /\ \A k \in 1 .. n : pCallStack'[k] = pCallStack[k]
  BY <1>1 DEF ShareStackInv, TypeOK, ChainInv
<1>3. \A x \in Co : cStart'[x] = (cStart[x] \/ x = co)
  BY <1>1 DEF ShareStackInv, TypeOK
<1>4. cStart' \in [Co -> BOOLEAN]
  BY <1>1 DEF ShareStackInv, TypeOK
<1>5. \A x \in Co : Live(x)' <=> Live(x) \/ x = co
  BY <1>1, <1>3 DEF Live
<1>6. \A k \in 1 .. n : pCallStack[k] # co /\ pCallStack[k] \in Co
  BY <1>1, <1>2 DEF ShareStackInv, TypeOK, OnStack, ToSet
<1> HIDE DEF n
<1>7. ChainInv'
  <2>1. \A k \in 1 .. n + 1 : /\ pCallStack'[k] \in Co
                              /\ pCallStack'[k] \in allocated'
                              /\ cStart'[pCallStack'[k]] /\ ~cEnd'[pCallStack'[k]]
    <3>1. \A k \in 1 .. n : Live(pCallStack[k])
      BY <1>2 DEF ShareStackInv, ChainInv
    <3>2. ASSUME NEW x \in Co, Live(x) \/ x = co
          PROVE  x \in allocated' /\ cStart'[x] /\ ~cEnd'[x]
      BY <1>1, <1>3, <3>2 DEF Live
    <3>3. \A k \in 1 .. n + 1 : /\ pCallStack'[k] \in Co
                                /\ Live(pCallStack'[k]) \/ pCallStack'[k] = co
      <4>1. \A k \in 1 .. n + 1 : k \in 1 .. n \/ k = n + 1
        BY <1>2
      <4> QED
        BY <1>2, <1>6, <3>1, <4>1
    <3> QED
      BY <3>2, <3>3
  <2>2. \A k, l \in 1 .. n + 1 : pCallStack'[k] = pCallStack'[l] => k = l
    BY <1>2, <1>6 DEF ShareStackInv, ChainInv
  <2>3. pCallStack'[1] = MainCo /\ Len(pCallStack') >= 1 /\ ~cIsShareStack'[MainCo]
    BY <1>1, <1>2 DEF ShareStackInv, ChainInv, Shares
  <2> QED
    BY <1>2, <2>1, <2>2, <2>3 DEF ChainInv, Live, Shares
<1>8. Curr' = co
  BY <1>2 DEF Curr
<1> QED
  BY <1>2, <1>3, <1>4, <1>5, <1>7, <1>8

(* The first resume: the new frames may overwrite the frames of the last    *)
(* occupant only, and those have been saved.                                *)
LEMMA FirstResumePlaces ==
  ASSUME ShareStackInv, pc = "run", pc' = "run", NEW co \in Co,
         co \in allocated, ~cStart[co], BeforeSwap(co),
         stack' = [stack EXCEPT ![stack_mem[co]] = Fresh(co)],
         UNCHANGED <<cIsShareStack, stack_mem>>
  PROVE  /\ Place(co)' = Fresh(co)
         /\ \A x \in Co : Live(x) => Place(x)' = Place(x)
<1> DEFINE mem == stack_mem[co]
           o == occupy[mem]
<1>1. /\ mem \in StackMem
      /\ \A m \in StackMem : stack'[m] = IF m = mem THEN Fresh(co) ELSE stack[m]
  BY DEF ShareStackInv, TypeOK
<1>2. \A x \in Co : /\ Displaced(x) <=> Shares(x) /\ Occupant(x) # x
                    /\ Displaced(x)' <=> cIsShareStack[x] /\ occupy'[stack_mem[x]] # x
                    /\ Place(x)' = IF Displaced(x)' THEN save_buffer'[x]
                                                    ELSE stack'[stack_mem[x]]
                    /\ Place(x) = IF Displaced(x) THEN save_buffer[x]
                                                  ELSE stack[stack_mem[x]]
                    /\ stack_mem[x] \in StackMem /\ x \notin SharedMem
  BY CountAssumption DEF ShareStackInv, TypeOK, Displaced, ToRestore, Shares, Occupant,
     Place, SharedMem
<1>3. \A x \in Co : Live(x) => /\ x # co
                               /\ Shares(x) => stack_mem[x] \in SharedMem
                                               /\ Occupant(x) # NULL
                               /\ ~Shares(x) => stack_mem[x] = x
  BY DEF ShareStackInv, OccupantInv, Live
<1>4. CASE ~Shares(co)
  <2>1. UNCHANGED <<occupy, save_buffer>> /\ mem = co
    BY <1>4 DEF BeforeSwap, ShareStackInv, OccupantInv, Shares
  <2>2. Place(co)' = Fresh(co)
    BY <1>1, <1>2, <1>4 DEF Shares
  <2>3. \A x \in Co : Live(x) => stack_mem[x] # co
    BY <1>2, <1>3
  <2> HIDE DEF mem
  <2>4. \A x \in Co : Live(x) => Place(x)' = Place(x)
    BY <1>1, <1>2, <2>1, <2>3 DEF Shares, Occupant
  <2> QED
    BY <2>2, <2>4
<1>5. CASE Shares(co)
  <2>1. /\ mem \in SharedMem /\ o # co
        /\ o # NULL => o \in Co /\ stack_mem[o] = mem
    BY <1>5, CoAssumption DEF ShareStackInv, TypeOK, OccupantInv
  <2>2. /\ occupy' = [occupy EXCEPT ![mem] = co]
        /\ save_buffer' = IF o # NULL THEN [save_buffer EXCEPT ![o] = stack[mem]]
                          ELSE save_buffer
    BY <1>5, <2>1 DEF BeforeSwap, SaveStackBuffer, Shares
  <2>3. /\ \A m \in SharedMem : occupy'[m] = IF m = mem THEN co ELSE occupy[m]
        /\ \A x \in Co : save_buffer'[x] = IF o # NULL /\ x = o THEN stack[mem]
                                           ELSE save_buffer[x]
    BY <2>1, <2>2 DEF ShareStackInv, TypeOK
  <2>4. Place(co)' = Fresh(co)
    <3>1. occupy'[mem] = co /\ stack'[mem] = Fresh(co)
      BY <1>1, <2>1, <2>3
    <3> QED
      BY <1>2, <3>1
  <2> HIDE DEF mem
  <2>5. ASSUME NEW x \in Co, Live(x), ~Shares(x)
        PROVE  Place(x)' = Place(x)
    BY <1>1, <1>2, <1>3, <2>1, <2>5 DEF Shares
  <2>6. ASSUME NEW x \in Co, Live(x), Shares(x), stack_mem[x] # mem
        PROVE  Place(x)' = Place(x)
    BY <1>1, <1>2, <1>3, <2>1, <2>3, <2>6 DEF Shares, Occupant
  <2>7. ASSUME NEW x \in Co, Live(x), Shares(x), stack_mem[x] = mem
        PROVE  Place(x)' = Place(x)
    BY <1>1, <1>2, <1>3, <2>1, <2>3, <2>7 DEF Shares, Occupant
  <2> QED
    BY <2>4, <2>5, <2>6, <2>7
<1> QED
  BY <1>4, <1>5

LEMMA ResumeStep ==
  ASSUME ShareStackInv, NEW co \in Co, co_resume(co)
  PROVE  /\ ShareStackInv'
         /\ \A x \in Co : /\ Live(x)' <=> Live(x) \/ x = co
                          /\ Live(x) => Place(x)' = Place(x)
         /\ ~Live(co) => Place(co)' = Fresh(co)
<1>1. /\ pc = "run" /\ co \in allocated /\ ~cEnd[co] /\ BeforeSwap(co)
      /\ UNCHANGED <<allocated, cEnd, cIsShareStack, stack_mem, alloc_idx>>
      /\ Live(co) <=> cStart[co]
  BY DEF co_resume, Resumable, Live
<1>2. /\ ChainInv' /\ pCallStack' \in Seq(Co) /\ Curr' = co
      /\ cStart' \in [Co -> BOOLEAN]
      /\ \A x \in Co : cStart'[x] = (cStart[x] \/ x = co)
      /\ \A x \in Co : Live(x)' <=> Live(x) \/ x = co
  BY ResumeChain
<1>3. /\ OccupantInv'
      /\ Shares(co)' => Occupant(co)' = co
      /\ occupy' \in [SharedMem -> Co \cup {NULL}]
      /\ save_buffer' \in [Co -> Frames \cup {NULL}]
      /\ pending_co' \in Co \cup {NULL} /\ occupy_co' \in Co \cup {NULL}
  <2>1. \A x \in Co : Live(x)' => Live(x) \/ x = co
    BY <1>2
  <2> QED
    BY <1>1, <1>2, <2>1, SwapOccupants DEF ShareStackInv
<1>4. CASE cStart[co]
  <2>1. pc' = "swapped" /\ UNCHANGED stack
    BY <1>4 DEF co_resume
  <2>2. TypeOK'
    BY <1>1, <1>2, <1>3, <2>1 DEF ShareStackInv, TypeOK
  <2>3. SwapInv'
    <3>1. IF cIsShareStack'[co] THEN pending_co' = co /\ occupy_co' # NULL
          ELSE pending_co' = NULL /\ occupy_co' = NULL
      BY <1>1, <1>4 DEF ShareStackInv, OccupantInv, BeforeSwap, Shares, Occupant
    <3> QED
      BY <1>2, <1>3, <3>1 DEF SwapInv, Shares, Occupant
  <2>4. \A x \in Co : Live(x) => Place(x)' = Place(x)
    BY <1>1, <1>4, <2>1, SwapKeepsPlace
  <2>5. FramesKept'
    BY <1>1, <1>2, <1>4, <2>4 DEF ShareStackInv, FramesKept
  <2> QED
    BY <1>1, <1>2, <1>3, <1>4, <2>2, <2>3, <2>4, <2>5 DEF ShareStackInv
<1>5. CASE ~cStart[co]
  <2>1. /\ pc' = "run" /\ stack' = [stack EXCEPT ![stack_mem[co]] = Fresh(co)]
    BY <1>1, <1>5 DEF co_resume
  <2>2. Fresh(co) \in Frames /\ Fresh(co).owner = co
    BY DEF Fresh, Frames
  <2>3. TypeOK'
    BY <1>1, <1>2, <1>3, <2>1, <2>2 DEF ShareStackInv, TypeOK
  <2>4. SwapInv'
    BY <1>2, <1>3, <2>1 DEF SwapInv, Shares, Occupant
  <2>5. /\ Place(co)' = Fresh(co)
        /\ \A x \in Co : Live(x) => Place(x)' = Place(x)
    BY <1>1, <1>5, <2>1, FirstResumePlaces
  <2>6. FramesKept'
    BY <1>2, <2>2, <2>5, NullAssumption DEF ShareStackInv, FramesKept
  <2> QED
    BY <1>2, <1>3, <2>3, <2>4, <2>5, <2>6 DEF ShareStackInv
<1> QED
  BY <1>4, <1>5

---------------------------------------------------------------------------
LEMMA FinishLive ==
  ASSUME ShareStackInv, CoRoutineFunc
  PROVE  \A co \in Co : Live(co)' <=> Live(co) /\ co # Curr
BY CurrFacts DEF CoRoutineFunc, YieldEnv, ShareStackInv, TypeOK, Live

LEMMA YieldLive ==
  ASSUME ShareStackInv, co_yield_env
  PROVE  \A co \in Co : Live(co)' <=> Live(co)
BY DEF co_yield_env, YieldEnv, Live

LEMMA Invariance == Spec => []ShareStackInv
<1>1. Init => ShareStackInv
  BY InitInv
<1>2. ShareStackInv /\ [Next]_vars => ShareStackInv'
  <2> SUFFICES ASSUME ShareStackInv, [Next]_vars PROVE ShareStackInv'
    OBVIOUS
  <2>1. ASSUME NEW co \in Co, NEW share \in BOOLEAN, co_create(co, share)
        PROVE  ShareStackInv'
    BY <2>1, CreateStep
  <2>2. ASSUME NEW co \in Co, co_resume(co) PROVE ShareStackInv'
    BY <2>2, ResumeStep
  <2>3. ASSUME NEW co \in Co, co_free(co) PROVE ShareStackInv'
    BY <2>3, FreeStep
  <2>4. CASE Work
    BY <2>4, WorkStep
  <2>5. CASE co_yield_env
    BY <2>5, YieldStep DEF co_yield_env
  <2>6. CASE CoRoutineFunc
    BY <2>6, YieldStep DEF CoRoutineFunc
  <2>7. CASE AfterSwap
    BY <2>7, AfterSwapStep
  <2>8. CASE UNCHANGED vars
    BY <2>8 DEF vars, coroutine, env, ShareStackInv, TypeOK, ChainInv, OccupantInv,
       SwapInv, FramesKept, Live, Shares, Occupant, Curr, Place, Displaced, ToRestore
  <2> QED
    BY <2>1, <2>2, <2>3, <2>4, <2>5, <2>6, <2>7, <2>8 DEF Next
<1> QED
  BY <1>1, <1>2, PTL DEF Spec

(* The fields of every stCoRoutine_t, stStackMem_t and of the environment   *)
(* keep their types through all of co_routine.cpp's switching.              *)
THEOREM TypeCorrect == Spec => []TypeOK
<1>1. ShareStackInv => TypeOK
  BY DEF ShareStackInv
<1> QED
  BY <1>1, Invariance, PTL

(* The code that runs finds its own frames on its stack (co_swap restores   *)
(* them before it returns to the coroutine).                                *)
THEOREM RunningFramesInPlace == Spec => []FramesInPlace
<1>1. ShareStackInv => FramesInPlace
  <2> SUFFICES ASSUME ShareStackInv, pc = "run"
               PROVE  ~Displaced(Curr) /\ stack[stack_mem[Curr]].owner = Curr
    BY DEF FramesInPlace
  <2>1. Curr \in Co /\ Live(Curr) /\ ~Displaced(Curr)
    BY CurrFacts
  <2>2. Place(Curr).owner = Curr
    BY <2>1 DEF ShareStackInv, FramesKept
  <2> QED
    BY <2>1, <2>2 DEF Place
<1> QED
  BY <1>1, Invariance, PTL

(* The frames of a suspended coroutine are where co_swap looks for them, on *)
(* the stack or in save_buffer: no sharing of stacks loses any.             *)
THEOREM SuspendedFramesKept == Spec => []FramesKept
<1>1. ShareStackInv => FramesKept
  BY DEF ShareStackInv
<1> QED
  BY <1>1, Invariance, PTL

---------------------------------------------------------------------------
LEMMA LocalsFacts ==
  ASSUME ShareStackInv, NEW co \in Co
  PROVE  /\ Live(co) => Place(co) \in Frames
         /\ Live(co) <=> AllLocals[co] # NoFrames
<1>1. stack_mem[co] \in StackMem
  BY DEF ShareStackInv, TypeOK
<1>2. Live(co) => Place(co) \in Frames
  BY <1>1 DEF ShareStackInv, TypeOK, FramesKept, Place
<1> QED
  BY <1>2, NoFramesAssumption DEF AllLocals, Locals

LEMMA InitRefined == Init => Private!Init
<1> SUFFICES ASSUME Init PROVE Private!Init
  OBVIOUS
<1>1. \A co \in Co : Live(co) <=> co = MainCo
  BY CoAssumption DEF Init, Live
<1>2. Place(MainCo) = [owner |-> MainCo, version |-> 0]
  BY CoAssumption DEF Init, Place, Displaced, Shares, StackMem, Fresh
<1>3. AllLocals = [co \in Co |-> IF co = MainCo THEN Private!Fresh(MainCo) ELSE NoFrames]
  BY <1>1, <1>2 DEF AllLocals, Locals, Private!Fresh
<1> QED
  BY <1>3 DEF Init, Private!Init

LEMMA CreateRefined ==
  ASSUME ShareStackInv, NEW co \in Co, NEW share \in BOOLEAN, co_create(co, share)
  PROVE  Private!Create(co)
<1>1. AllLocals' = AllLocals
  BY CreateStep DEF AllLocals, Locals
<1> QED
  BY <1>1 DEF co_create, Private!Create

LEMMA ResumeRefined ==
  ASSUME ShareStackInv, NEW co \in Co, co_resume(co)
  PROVE  Private!Resume(co)
<1>1. /\ \A x \in Co : /\ Live(x)' <=> Live(x) \/ x = co
                       /\ Live(x) => Place(x)' = Place(x)
      /\ ~Live(co) => Place(co)' = Fresh(co)
  BY ResumeStep
<1>2. CASE Live(co)
  <2>1. AllLocals' = AllLocals
    BY <1>1, <1>2 DEF AllLocals, Locals
  <2>2. AllLocals[co] # NoFrames
    BY <1>2, LocalsFacts
  <2> QED
    BY <2>1, <2>2 DEF co_resume, Resumable, OnStack, ToSet, Private!Resume, Private!ToSet
<1>3. CASE ~Live(co)
  <2>1. AllLocals' = [AllLocals EXCEPT ![co] = Private!Fresh(co)]
    BY <1>1, <1>3 DEF AllLocals, Locals, Fresh, Private!Fresh
  <2>2. AllLocals[co] = NoFrames
    BY <1>3 DEF AllLocals, Locals
  <2> QED
    BY <2>1, <2>2 DEF co_resume, Resumable, OnStack, ToSet, Private!Resume, Private!ToSet
<1> QED
  BY <1>2, <1>3

LEMMA FreeRefined ==
  ASSUME ShareStackInv, NEW co \in Co, co_free(co)
  PROVE  Private!Free({co})
<1>1. AllLocals' = [x \in Co |-> IF x \in {co} THEN NoFrames ELSE AllLocals[x]]
  BY FreeStep DEF AllLocals, Locals
<1>2. /\ {co} \subseteq allocated /\ {co} \cap Private!ToSet(pCallStack) = {}
      /\ allocated' = allocated \ {co} /\ pCallStack' = pCallStack
  BY DEF co_free, OnStack, ToSet, Private!ToSet
<1> QED
  BY <1>1, <1>2 DEF Private!Free

LEMMA WorkRefined ==
  ASSUME ShareStackInv, Work
  PROVE  Private!Work
<1>1. Curr \in Co /\ Live(Curr) /\ Curr = Private!Running
  BY CurrFacts DEF Curr, Private!Running
<1>2. \A x \in Co : /\ Live(x)' <=> Live(x)
                    /\ Live(x) => Place(x)' = IF x = Curr THEN Changed(Place(x))
                                              ELSE Place(x)
  BY WorkStep
<1>3. AllLocals' = [AllLocals EXCEPT ![Private!Running] = Private!Changed(@)]
  <2>1. AllLocals[Curr] = Place(Curr)
    BY <1>1 DEF AllLocals, Locals
  <2>2. AllLocals' = [AllLocals EXCEPT ![Curr] = Changed(Place(Curr))]
    BY <1>1, <1>2 DEF AllLocals, Locals
  <2> QED
    BY <1>1, <2>1, <2>2 DEF Changed, Private!Changed
<1> QED
  BY <1>3 DEF Work, coroutine, Private!Work

LEMMA YieldRefined ==
  ASSUME ShareStackInv, co_yield_env
  PROVE  Private!Yield
<1>1. AllLocals' = AllLocals
  <2>1. \A x \in Co : Live(x)' => Place(x)' = Place(x)
    BY YieldStep DEF co_yield_env
  <2> QED
    BY <2>1, YieldLive DEF AllLocals, Locals
<1> QED
  BY <1>1 DEF co_yield_env, YieldEnv, Front, Private!Yield, Private!Front

LEMMA FinishRefined ==
  ASSUME ShareStackInv, CoRoutineFunc
  PROVE  Private!Finish
<1>1. Curr \in Co /\ Curr = Private!Running
  BY CurrFacts DEF Curr, Private!Running
<1>2. AllLocals' = [AllLocals EXCEPT ![Curr] = NoFrames]
  <2>1. \A x \in Co : Live(x)' => Place(x)' = Place(x)
    BY YieldStep DEF CoRoutineFunc
  <2> QED
    BY <1>1, <2>1, FinishLive DEF AllLocals, Locals
<1> QED
  BY <1>1, <1>2 DEF CoRoutineFunc, YieldEnv, Front, Private!Finish, Private!Front

LEMMA AfterSwapRefined ==
  ASSUME ShareStackInv, AfterSwap
  PROVE  UNCHANGED Private!vars
<1>1. AllLocals' = AllLocals
  BY AfterSwapStep DEF AllLocals, Locals
<1> QED
  BY <1>1 DEF AfterSwap, coroutine, Private!vars

(* Coroutines on shared stacks implement coroutines with private ones: what *)
(* co_swap and save_stack_buffer do is invisible to the bodies.             *)
THEOREM Refinement == Spec => PrivateSpec
<1>1. Init => Private!Init
  BY InitRefined
<1>2. ShareStackInv /\ [Next]_vars => [Private!Next]_(Private!vars)
  <2> SUFFICES ASSUME ShareStackInv, [Next]_vars
               PROVE  [Private!Next]_(Private!vars)
    OBVIOUS
  <2>1. ASSUME NEW co \in Co, NEW share \in BOOLEAN, co_create(co, share)
        PROVE  Private!Next
    BY <2>1, CreateRefined DEF Private!Next
  <2>2. ASSUME NEW co \in Co, co_resume(co) PROVE Private!Next
    BY <2>2, ResumeRefined DEF Private!Next
  <2>3. ASSUME NEW co \in Co, co_free(co) PROVE Private!Next
    <3>1. Private!Free({co})
      BY <2>3, FreeRefined
    <3> QED
      BY <3>1 DEF Private!Next
  <2>4. CASE Work
    BY <2>4, WorkRefined DEF Private!Next
  <2>5. CASE co_yield_env
    BY <2>5, YieldRefined DEF Private!Next
  <2>6. CASE CoRoutineFunc
    BY <2>6, FinishRefined DEF Private!Next
  <2>7. CASE AfterSwap
    BY <2>7, AfterSwapRefined
  <2>8. CASE UNCHANGED vars
    BY <2>8 DEF vars, coroutine, env, Private!vars, AllLocals, Locals, Live, Shares,
       Occupant, Place, Displaced, ToRestore
  <2> QED
    BY <2>1, <2>2, <2>3, <2>4, <2>5, <2>6, <2>7, <2>8 DEF Next
<1> QED
  BY <1>1, <1>2, Invariance, PTL DEF Spec, PrivateSpec, Private!Spec
===========================================================================
