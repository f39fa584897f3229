---------------------------- MODULE TableProofs ----------------------------
(***************************************************************************)
(* Proofs about the tables the code keeps and searches, of any size: the   *)
(* pairs of descriptors of the emulation of epoll on a kqueue (Kqueue),    *)
(* the environment variables of coroutines (SysEnv), and the ring of       *)
(* consistent hashing (ConsistentHash).  The three have nothing in common  *)
(* but the lemmas about loops and searches, and no names.                  *)
(***************************************************************************)
EXTENDS Kqueue, SysEnv, ConsistentHash, ListLemmas

---------------------------------------------------------------------------
(* The loop of co_epoll_wait over list, as far as its round n. *)
WaitRounds(list, n, g) ==
  g = [i \in 0 .. n |-> IF i = 0 THEN Unfired ELSE Put(g[i - 1], i, list[i])]

LEMMA WaitRoundsExist ==
  ASSUME NEW list, NEW n \in Nat
  PROVE  \E g : WaitRounds(list, n, g)
<1> DEFINE T == {m \in Nat : ~ \E g : WaitRounds(list, m, g)}
<1>1. ASSUME NEW m \in T, \A k \in T : m <= k PROVE FALSE
  <2>1. CASE m = 0
    <3> DEFINE h == [i \in 0 .. 0 |-> Unfired]
    <3>1. h = [i \in 0 .. 0 |-> IF i = 0 THEN Unfired ELSE Put(h[i - 1], i, list[i])]
      OBVIOUS
    <3> QED
      BY <2>1, <3>1 DEF WaitRounds
  <2>2. CASE m # 0
    <3>1. m - 1 \in Nat /\ m - 1 \notin T
      BY <1>1, <2>2
    <3>2. PICK g : WaitRounds(list, m - 1, g)
      BY <3>1
    <3> DEFINE h == [i \in 0 .. m |-> IF i = 0 THEN Unfired ELSE Put(g[i - 1], i, list[i])]
    <3>3. \A i \in 0 .. m - 1 : h[i] = g[i]
      <4> SUFFICES ASSUME NEW i \in 0 .. m - 1 PROVE h[i] = g[i]
        OBVIOUS
      <4>1. g[i] = IF i = 0 THEN Unfired ELSE Put(g[i - 1], i, list[i])
        BY <3>1, <3>2, Zenon DEF WaitRounds
      <4>2. i \in 0 .. m
        BY <3>1
      <4> QED
        BY <4>1, <4>2
    <3>4. ASSUME NEW i \in 0 .. m, i # 0 PROVE h[i - 1] = g[i - 1]
      <4>1. i - 1 \in 0 .. m - 1
        BY <3>4
      <4> QED
        BY <3>3, <4>1
    <3>5. h = [i \in 0 .. m |-> IF i = 0 THEN Unfired ELSE Put(h[i - 1], i, list[i])]
      <4> DEFINE k == [i \in 0 .. m |-> IF i = 0 THEN Unfired ELSE Put(h[i - 1], i, list[i])]
      <4>1. \A i \in 0 .. m : h[i] = k[i]
        BY <3>4
      <4>2. h = [i \in 0 .. m |-> h[i]] /\ k = [i \in 0 .. m |-> k[i]]
        OBVIOUS
      <4> HIDE DEF h, k
      <4>3. h = k
        BY <4>1, <4>2
      <4> QED
        BY <4>3 DEF k
    <3> QED
      BY <3>5 DEF WaitRounds
  <2> QED
    BY <2>1, <2>2
<1>2. T = {}
  BY <1>1, SmallestNat
<1> QED
  BY <1>2

LEMMA LoopRounds ==
  ASSUME NEW list, Len(list) \in Nat
  PROVE  \E g : /\ WaitLoop(list) = g[Len(list)]
                /\ g[0] = Unfired
                /\ \A i \in 1 .. Len(list) : g[i] = Put(g[i - 1], i, list[i])
<1> DEFINE g == CHOOSE g : g = [i \in 0 .. Len(list) |->
                                  IF i = 0 THEN Unfired ELSE Put(g[i - 1], i, list[i])]
<1>1. WaitLoop(list) = g[Len(list)]
  BY DEF WaitLoop
<1>2. WaitRounds(list, Len(list), g)
  BY WaitRoundsExist DEF WaitRounds
<1>3. /\ \A i \in 0 .. Len(list) : g[i] = IF i = 0 THEN Unfired ELSE Put(g[i - 1], i, list[i])
  BY <1>2, Zenon DEF WaitRounds
<1> HIDE DEF g
<1>4. 0 \in 0 .. Len(list) /\ \A i \in 1 .. Len(list) : i \in 0 .. Len(list) /\ i # 0
  OBVIOUS
<1> QED
  BY <1>1, <1>3, <1>4

---------------------------------------------------------------------------
(* The first n events of list: their descriptors, and the filters of one.   *)
Fds(list, n)         == {list[i].fd : i \in 1 .. n}
FiltersOf(list, n, fd) == {list[i].filter : i \in {i \in 1 .. n : list[i].fd = fd}}

(* What n rounds have made: each descriptor so far was counted once and has *)
(* the entry with the number of one of its events, in which all are merged. *)
RoundInv(list, n, a) ==
  /\ a.events \in [1 .. MaxEvents -> Event]
  /\ a.fires \in [Fd -> 0 .. n]
  /\ IsFiniteSet(Fds(list, n))
  /\ a.j = Cardinality(Fds(list, n)) /\ a.j \in 0 .. n
  /\ \A fd \in Fd :
       /\ a.fires[fd] = 0 => fd \notin Fds(list, n)
       /\ a.fires[fd] # 0 => /\ list[a.fires[fd]].fd = fd
                             /\ a.events[a.fires[fd]].events = FiltersOf(list, n, fd)
                             /\ a.events[a.fires[fd]].data = fdMap[fd].u64

(* The events that a kqueue whose filters have pairs reports. *)
Reported(list) == /\ list \in Seq(Kevent) /\ Len(list) <= MaxEvents
                  /\ \A i \in 1 .. Len(list) : fdMap[list[i].fd] # NULL

LEMMA NoRound == ASSUME TypeOK, NEW list PROVE RoundInv(list, 0, Unfired)
<1>1. /\ Unfired.events = events /\ Unfired.j = 0
      /\ Unfired.fires = [fd \in Fd |-> IF fdMap[fd] = NULL THEN 0 ELSE fdMap[fd].fire_idx]
  BY DEF Unfired
<1>2. \A fd \in Fd : Unfired.fires[fd] = 0
  BY <1>1 DEF TypeOK, Pair
<1>3. Unfired.fires \in [Fd -> 0 .. 0]
  BY <1>1, <1>2
<1>4. Fds(list, 0) = {}
  BY DEF Fds
<1>5. IsFiniteSet(Fds(list, 0)) /\ Cardinality(Fds(list, 0)) = 0
  BY <1>4, FS_EmptySet
<1>6. Unfired.events \in [1 .. MaxEvents -> Event]
  BY <1>1 DEF TypeOK
<1>7. Unfired.j = Cardinality(Fds(list, 0)) /\ Unfired.j \in 0 .. 0
  BY <1>1, <1>5
<1> QED
  BY <1>2, <1>3, <1>4, <1>5, <1>6, <1>7 DEF RoundInv

LEMMA NextRound ==
  ASSUME TypeOK, NEW list, Reported(list), NEW n \in 1 .. Len(list), NEW a,
         RoundInv(list, n - 1, a)
  PROVE  RoundInv(list, n, Put(a, n, list[n]))
<1> DEFINE fd  == list[n].fd
           idx == IF a.fires[fd] = 0 THEN n ELSE a.fires[fd]
           old == IF a.fires[fd] = 0 THEN {} ELSE a.events[idx].events
           b   == Put(a, n, list[n])
<1>1. /\ Len(list) \in Nat /\ n \in Nat \ {0} /\ n - 1 \in Nat /\ n <= MaxEvents
      /\ list[n] \in Kevent /\ fd \in Fd /\ list[n].filter \in Filters
      /\ fdMap[fd] \in Pair
  <2>1. list \in Seq(Kevent) /\ Len(list) \in Nat /\ Len(list) <= MaxEvents
    BY DEF Reported
  <2>2. n \in Nat \ {0} /\ n - 1 \in Nat /\ n <= MaxEvents
    BY <2>1, EventsAssumption
  <2>3. list[n] \in Kevent
    BY <2>1
  <2>4. fd \in Fd /\ list[n].filter \in Filters
    BY <2>3 DEF Kevent
  <2>5. fdMap[fd] \in Pair
    BY <2>4 DEF Reported, TypeOK
  <2> QED
    BY <2>1, <2>2, <2>3, <2>4, <2>5
<1>2. /\ a.events \in [1 .. MaxEvents -> Event] /\ a.fires \in [Fd -> 0 .. n - 1]
      /\ IsFiniteSet(Fds(list, n - 1)) /\ a.j = Cardinality(Fds(list, n - 1))
      /\ a.j \in 0 .. n - 1
  BY DEF RoundInv
<1>3. /\ idx \in 1 .. MaxEvents /\ idx \in 1 .. n
  BY <1>1, <1>2, EventsAssumption
<1>4. Fds(list, n) = Fds(list, n - 1) \cup {fd}
  <2>1. 1 .. n = (1 .. n - 1) \cup {n}
    BY <1>1
  <2> QED
    BY <2>1 DEF Fds
<1>5. FiltersOf(list, n, fd) = FiltersOf(list, n - 1, fd) \cup {list[n].filter}
  <2>1. \A i : i \in 1 .. n <=> i \in 1 .. n - 1 \/ i = n
    BY <1>1
  <2> QED
    BY <2>1 DEF FiltersOf
<1>6. \A other \in Fd \ {fd} : FiltersOf(list, n, other) = FiltersOf(list, n - 1, other)
  <2>1. \A i : i \in 1 .. n <=> i \in 1 .. n - 1 \/ i = n
    BY <1>1
  <2> QED
    BY <2>1 DEF FiltersOf
<1>7. a.fires[fd] = 0 <=> fd \notin Fds(list, n - 1)
  <2>1. ASSUME a.fires[fd] # 0 PROVE fd \in Fds(list, n - 1)
    <3>1. a.fires[fd] \in 1 .. n - 1 /\ list[a.fires[fd]].fd = fd
      BY <1>1, <1>2, <2>1 DEF RoundInv
    <3> QED
      BY <3>1 DEF Fds
  <2> QED
    BY <1>1, <2>1 DEF RoundInv
<1>8. old \cup {list[n].filter} = FiltersOf(list, n, fd)
  <2>1. CASE a.fires[fd] = 0
    <3>1. FiltersOf(list, n - 1, fd) = {}
      BY <1>7, <2>1 DEF FiltersOf, Fds
    <3> QED
      BY <1>5, <2>1, <3>1
  <2>2. CASE a.fires[fd] # 0
    BY <1>1, <1>5, <2>2 DEF RoundInv
  <2> QED
    BY <2>1, <2>2
<1>9. /\ b.events = [a.events EXCEPT ![idx] = [events |-> old \cup {list[n].filter},
                                               data |-> fdMap[fd].u64]]
      /\ b.fires = [a.fires EXCEPT ![fd] = idx]
      /\ b.j = IF a.fires[fd] = 0 THEN a.j + 1 ELSE a.j
  BY DEF Put
<1> DEFINE e == [events |-> FiltersOf(list, n, fd), data |-> fdMap[fd].u64]
<1>10. e \in Event /\ e.events = FiltersOf(list, n, fd) /\ e.data = fdMap[fd].u64
  <2>1. FiltersOf(list, n, fd) \in SUBSET Filters
    <3>1. \A i \in 1 .. n : list[i] \in Kevent
      BY <1>1 DEF Reported
    <3> QED
      BY <3>1 DEF FiltersOf, Kevent
  <2>2. fdMap[fd].u64 \in Data
    BY <1>1 DEF Pair
  <2> QED
    BY <2>1, <2>2 DEF Event
<1>11. b.events = [a.events EXCEPT ![idx] = e]
  BY <1>8, <1>9
<1> HIDE DEF b, e, old, idx
<1>12. b.events \in [1 .. MaxEvents -> Event] /\ b.fires \in [Fd -> 0 .. n]
  <2>1. \A k \in 0 .. n - 1 : k \in 0 .. n
    BY <1>1
  <2>2. idx \in 0 .. n
    BY <1>3
  <2>3. b.events \in [1 .. MaxEvents -> Event]
    BY <1>2, <1>3, <1>10, <1>11
  <2>4. a.fires \in [Fd -> 0 .. n]
    BY <1>2, <2>1
  <2>5. b.fires \in [Fd -> 0 .. n]
    BY <1>9, <2>2, <2>4
  <2> QED
    BY <2>3, <2>5
<1>13. IsFiniteSet(Fds(list, n)) /\ b.j = Cardinality(Fds(list, n)) /\ b.j \in 0 .. n
  <2>1. /\ IsFiniteSet(Fds(list, n - 1) \cup {fd})
        /\ Cardinality(Fds(list, n - 1) \cup {fd}) =
             IF fd \in Fds(list, n - 1) THEN Cardinality(Fds(list, n - 1))
             ELSE Cardinality(Fds(list, n - 1)) + 1
    BY <1>2, FS_AddElement
  <2>2. IsFiniteSet(Fds(list, n)) /\ b.j = Cardinality(Fds(list, n))
    BY <1>2, <1>4, <1>7, <1>9, <2>1
  <2> QED
    BY <1>1, <1>2, <1>9, <2>2
<1>14. ASSUME NEW other \in Fd
       PROVE  /\ b.fires[other] = 0 => other \notin Fds(list, n)
              /\ b.fires[other] # 0 =>
                   /\ list[b.fires[other]].fd = other
                   /\ b.events[b.fires[other]].events = FiltersOf(list, n, other)
                   /\ b.events[b.fires[other]].data = fdMap[other].u64
  <2>1. CASE other = fd
    <3>1. b.fires[other] = idx /\ idx # 0 /\ b.events[idx] = e
      <4>1. b.fires[other] = idx
        BY <1>1, <1>2, <1>9, <2>1
      <4>2. b.events[idx] = e
        BY <1>2, <1>3, <1>11
      <4> QED
        BY <1>3, <4>1, <4>2
    <3>2. list[idx].fd = fd
      BY <1>1 DEF idx, RoundInv
    <3> QED
      BY <1>10, <2>1, <3>1, <3>2
  <2>2. CASE other # fd
    <3>1. b.fires[other] = a.fires[other]
      BY <1>2, <1>9, <2>2
    <3>2. CASE a.fires[other] = 0
      BY <1>4, <2>2, <3>1, <3>2 DEF RoundInv
    <3>3. CASE a.fires[other] # 0
      <4>1. list[a.fires[other]].fd = other /\ a.fires[other] \in 1 .. n - 1
        BY <1>1, <1>2, <3>3 DEF RoundInv
      <4>2. a.fires[other] # idx
        <5>1. list[idx].fd = fd
          BY <1>1 DEF idx, RoundInv
        <5> QED
          BY <2>2, <4>1, <5>1
      <4>3. a.fires[other] \in 1 .. MaxEvents
        BY <1>1, <4>1, EventsAssumption
      <4>4. b.events[a.fires[other]] = a.events[a.fires[other]]
        BY <1>2, <1>11, <4>2, <4>3
      <4> QED
        BY <1>6, <2>2, <3>1, <3>3, <4>1, <4>4 DEF RoundInv
    <3> QED
      BY <3>2, <3>3
  <2> QED
    BY <2>1, <2>2
<1>15. RoundInv(list, n, b)
  BY <1>12, <1>13, <1>14 DEF RoundInv
<1> QED
  BY <1>15 DEF b

(* The whole loop, by the smallest round that would break what it keeps.    *)
LEMMA WaitLoopFacts ==
  ASSUME TypeOK, NEW list, Reported(list)
  PROVE  RoundInv(list, Len(list), WaitLoop(list))
<1>1. Len(list) \in Nat
  BY DEF Reported
<1>2. PICK g : /\ WaitLoop(list) = g[Len(list)]
               /\ g[0] = Unfired
               /\ \A i \in 1 .. Len(list) : g[i] = Put(g[i - 1], i, list[i])
  BY <1>1, LoopRounds
<1> DEFINE T == {n \in 0 .. Len(list) : ~RoundInv(list, n, g[n])}
<1>3. ASSUME NEW n \in T, \A k \in T : n <= k PROVE FALSE
  <2>1. n # 0
    BY <1>2, NoRound
  <2>2. n \in 1 .. Len(list) /\ n - 1 \in 0 .. Len(list) /\ n - 1 \notin T
    BY <1>1, <1>3, <2>1
  <2>3. RoundInv(list, n - 1, g[n - 1])
    BY <2>2
  <2>4. RoundInv(list, n, Put(g[n - 1], n, list[n]))
    BY <2>2, <2>3, NextRound
  <2> QED
    BY <1>2, <2>2, <2>4
<1>4. T = {}
  <2>1. T \in SUBSET Nat
    BY <1>1
  <2> QED
    BY <1>3, <2>1, SmallestNat
<1>5. Len(list) \in 0 .. Len(list)
  BY <1>1
<1> QED
  BY <1>2, <1>4, <1>5

---------------------------------------------------------------------------
KqueueInv == FiltersHavePairs /\ CountedOnce

LEMMA InitInv == Init => KqueueInv
<1> SUFFICES ASSUME Init PROVE KqueueInv
  OBVIOUS
<1>1. TypeOK
  <2>1. eventlist \in Seq(Kevent) /\ Len(eventlist) = 0 /\ ret \in 0 .. MaxEvents /\ 0 <= MaxEvents
    BY EventsAssumption DEF Init
  <2>2. events \in [1 .. MaxEvents -> Event]
    BY DEF Init, Event
  <2>3. kq \in [Fd -> [Filters -> {"none", "live", "dangling"}]]
    BY DEF Init, NoFilters
  <2> QED
    BY <2>1, <2>2, <2>3 DEF Init, TypeOK
<1>2. FiltersHavePairs
  BY <1>1 DEF Init, NoFilters, FiltersHavePairs, Live, Watched, Filters
<1>3. CountedOnce
  <2>1. DOMAIN eventlist = {}
    BY DEF Init
  <2>2. {eventlist[i].fd : i \in DOMAIN eventlist} = {}
    BY <2>1
  <2> QED
    BY <2>2, FS_EmptySet DEF CountedOnce, Init
<1> QED
  BY <1>2, <1>3 DEF KqueueInv

(* How the filters of a descriptor agree with its pair, when it is stale    *)
(* and when calls on it failed.                                             *)
Agree(filters, pair, old, failed) ==
  /\ \A f \in Filters : filters[f] = "live" <=> ~old /\ pair # NULL /\ f \in pair.events
  /\ filters["IN"] = "dangling" => failed
  /\ filters["OUT"] # "dangling"

LEMMA PairsAgree ==
  ASSUME TypeOK
  PROVE  FiltersHavePairs <=>
           \A fd \in Fd : Agree(kq[fd], fdMap[fd], fd \in stale, fd \in refused)
<1> SUFFICES ASSUME NEW fd \in Fd
             PROVE  (Live(fd) = IF fd \in stale THEN {} ELSE Watched(fd)) <=>
                      \A f \in Filters : kq[fd][f] = "live"
                        <=> fd \notin stale /\ fdMap[fd] # NULL /\ f \in fdMap[fd].events
  BY DEF FiltersHavePairs, Agree
<1>1. Watched(fd) \subseteq Filters
  BY DEF TypeOK, Pair, Watched
<1> QED
  BY <1>1 DEF Live, Watched

(* The same of the next state. *)
AllAgree == \A fd \in Fd : Agree(kq[fd], fdMap[fd], fd \in stale, fd \in refused)

LEMMA AgreeIffPairs == TypeOK => (FiltersHavePairs <=> AllAgree)
<1>1. ASSUME TypeOK PROVE FiltersHavePairs <=> AllAgree
  BY <1>1, PairsAgree DEF AllAgree
<1> QED
  BY <1>1

LEMMA AgreeIffPairsNext == TypeOK' => (FiltersHavePairs' <=> AllAgree')
BY AgreeIffPairs, PTL

OthersKeep(fd) ==
  \A other \in Fd \ {fd} : (other \in refused' <=> other \in refused)
                         /\ (other \in stale' <=> other \in stale)

(* A step that touches the filters and the pair of one descriptor. *)
LEMMA FdStep ==
  ASSUME KqueueInv, NEW fd \in Fd, isOpen' \subseteq Fd, UNCHANGED wait,
         NEW filters \in [Filters -> {"none", "live", "dangling"}],
         kq' = [kq EXCEPT ![fd] = filters],
         NEW pair \in Pair \cup {NULL}, fdMap' = [fdMap EXCEPT ![fd] = pair],
         refused' \subseteq Fd, stale' \subseteq Fd,
         OthersKeep(fd),
         Agree(filters, pair, fd \in stale', fd \in refused')
  PROVE  KqueueInv'
<1>0. TypeOK /\ \A x \in Fd : Agree(kq[x], fdMap[x], x \in stale, x \in refused)
  BY PairsAgree DEF KqueueInv, FiltersHavePairs
<1>1. kq' \in [Fd -> [Filters -> {"none", "live", "dangling"}]]
  BY <1>0 DEF TypeOK
<1>2. TypeOK'
  BY <1>0, <1>1 DEF TypeOK, wait
<1>3. /\ kq'[fd] = filters /\ fdMap'[fd] = pair
      /\ \A other \in Fd \ {fd} : kq'[other] = kq[other] /\ fdMap'[other] = fdMap[other]
  BY <1>0 DEF TypeOK
<1>4. \A x \in Fd : Agree(kq'[x], fdMap'[x], x \in stale', x \in refused')
  <2> SUFFICES ASSUME NEW x \in Fd PROVE Agree(kq'[x], fdMap'[x], x \in stale', x \in refused')
    OBVIOUS
  <2>1. CASE x = fd
    BY <1>3, <2>1
  <2>2. CASE x # fd
    BY <1>0, <1>3, <2>2 DEF Agree, OthersKeep
  <2> QED
    BY <2>1, <2>2
<1>5. FiltersHavePairs'
  BY <1>2, <1>4, AgreeIffPairsNext DEF AllAgree
<1>6. CountedOnce'
  BY DEF CountedOnce, wait, KqueueInv
<1> QED
  BY <1>2, <1>4, <1>5, <1>6 DEF KqueueInv

(* What is known of a descriptor before a step. *)
LEMMA FdFacts ==
  ASSUME KqueueInv, NEW fd \in Fd
  PROVE  /\ TypeOK /\ kq[fd] \in [Filters -> {"none", "live", "dangling"}]
         /\ fdMap[fd] \in Pair \cup {NULL}
         /\ Agree(kq[fd], fdMap[fd], fd \in stale, fd \in refused)
<1>1. TypeOK /\ \A x \in Fd : Agree(kq[x], fdMap[x], x \in stale, x \in refused)
  BY PairsAgree DEF KqueueInv, FiltersHavePairs
<1> QED
  BY <1>1 DEF TypeOK

LEMMA CloseStep == ASSUME KqueueInv, NEW fd \in Fd, CloseFd(fd) PROVE KqueueInv'
<1>1. /\ NoFilters \in [Filters -> {"none", "live", "dangling"}]
      /\ \A f \in Filters : NoFilters[f] = "none"
      /\ "IN" \in Filters /\ "OUT" \in Filters
  BY DEF NoFilters, Filters
<1>2. /\ fdMap[fd] \in Pair \cup {NULL} /\ fdMap' = [fdMap EXCEPT ![fd] = fdMap[fd]]
      /\ kq' = [kq EXCEPT ![fd] = NoFilters] /\ UNCHANGED wait
      /\ isOpen' \subseteq Fd /\ refused' \subseteq Fd /\ stale' \subseteq Fd
  BY FdFacts DEF CloseFd, TypeOK, wait
<1>3. Agree(NoFilters, fdMap[fd], fd \in stale', fd \in refused')
  BY <1>1 DEF CloseFd, Agree
<1>4. OthersKeep(fd)
  BY DEF CloseFd, OthersKeep
<1> QED
  BY <1>1, <1>2, <1>3, <1>4, FdStep

LEMMA OpenStep == ASSUME KqueueInv, NEW fd \in Fd, OpenFd(fd) PROVE KqueueInv'
<1>1. UNCHANGED <<kq, fdMap, wait, refused, stale>> /\ isOpen' \subseteq Fd
  BY DEF OpenFd, KqueueInv, FiltersHavePairs, TypeOK
<1>2. TypeOK'
  BY <1>1 DEF KqueueInv, FiltersHavePairs, TypeOK, wait
<1> QED
  BY <1>1, <1>2 DEF KqueueInv, FiltersHavePairs, CountedOnce, Live, Watched, wait

(* Of the filters of a pair nothing is left when they are deleted; one that *)
(* had lost its pair before stays.                                          *)
LEMMA NothingLive ==
  ASSUME KqueueInv, NEW fd \in Fd, NEW filters,
         \/ fdMap[fd] = NULL /\ filters = kq[fd]
         \/ fdMap[fd] # NULL /\ filters = Without(fd, fdMap[fd].events)
  PROVE  /\ filters \in [Filters -> {"none", "live", "dangling"}]
         /\ \A f \in Filters : filters[f] # "live"
         /\ filters["IN"] = "dangling" => fd \in refused
         /\ filters["OUT"] # "dangling"
<1>1. /\ kq[fd] \in [Filters -> {"none", "live", "dangling"}]
      /\ Agree(kq[fd], fdMap[fd], fd \in stale, fd \in refused)
      /\ "IN" \in Filters /\ "OUT" \in Filters
  BY FdFacts DEF Filters
<1> QED
  BY <1>1 DEF Agree, Without

LEMMA DelStep == ASSUME KqueueInv, NEW fd \in Fd, co_epoll_del(fd) PROVE KqueueInv'
<1> DEFINE left == Without(fd, fdMap[fd].events)
           filters == Freed(left)
<1>1. /\ left \in [Filters -> {"none", "live", "dangling"}]
      /\ \A f \in Filters : left[f] # "live"
      /\ left["IN"] = "dangling" => fd \in refused
      /\ left["OUT"] # "dangling"
  BY NothingLive DEF co_epoll_del
<1> HIDE DEF left
<1>2. filters \in [Filters -> {"none", "live", "dangling"}]
  BY DEF Freed
<1>3. Agree(filters, NULL, fd \in stale', fd \in refused)
  BY <1>1 DEF Freed, Agree, Filters
<1>4. /\ kq' = [kq EXCEPT ![fd] = filters] /\ fdMap' = [fdMap EXCEPT ![fd] = NULL]
      /\ UNCHANGED <<isOpen, wait, refused>> /\ stale' = stale \ {fd}
  BY DEF co_epoll_del, left
<1>5. isOpen' \subseteq Fd /\ refused' \subseteq Fd /\ stale' \subseteq Fd /\ refused' = refused
  BY <1>4, FdFacts DEF TypeOK
<1>6. OthersKeep(fd)
  BY <1>4 DEF OthersKeep
<1> HIDE DEF filters
<1> QED
  BY <1>2, <1>3, <1>4, <1>5, <1>6, FdStep

LEMMA AddStep ==
  ASSUME KqueueInv, NEW fd \in Fd, NEW set \in SUBSET Filters, NEW data \in Data,
         NEW deleted \in BOOLEAN,
         NEW left \in [Filters -> {"none", "live", "dangling"}],
         \A f \in Filters : left[f] # "live",
         left["IN"] = "dangling" => fd \in refused,
         left["OUT"] # "dangling",
         AddFilters(fd, left, set, data, deleted)
  PROVE  KqueueInv'
<1>1. /\ isOpen' \subseteq Fd /\ UNCHANGED wait
      /\ stale' = stale \ {fd} /\ stale' \subseteq Fd
      /\ refused \subseteq Fd
  BY FdFacts DEF AddFilters, TypeOK
<1>2. PICK added \in Added(fd, set) :
        IF added = set /\ (set # {} \/ deleted)
        THEN /\ kq' = [kq EXCEPT ![fd] = With(left, set)]
             /\ fdMap' = [fdMap EXCEPT ![fd] = [events |-> set, u64 |-> data, fire_idx |-> 0]]
             /\ UNCHANGED refused
        ELSE /\ kq' = [kq EXCEPT ![fd] = Freed(With(left, added))]
             /\ fdMap' = [fdMap EXCEPT ![fd] = NULL]
             /\ refused' = refused \cup ({fd} \cap isOpen)
  BY DEF AddFilters
<1>3. fd \notin stale'
  BY <1>1
<1>4. CASE /\ kq' = [kq EXCEPT ![fd] = With(left, set)]
           /\ fdMap' = [fdMap EXCEPT ![fd] = [events |-> set, u64 |-> data, fire_idx |-> 0]]
           /\ UNCHANGED refused
  <2> DEFINE filters == With(left, set)
             pair == [events |-> set, u64 |-> data, fire_idx |-> 0]
  <2>1. pair \in Pair /\ pair # NULL /\ pair.events = set
    BY NullAssumption DEF Pair
  <2> HIDE DEF pair
  <2>2. filters \in [Filters -> {"none", "live", "dangling"}]
    BY DEF With
  <2>3. Agree(filters, pair, fd \in stale', fd \in refused')
    BY <1>3, <1>4, <2>1 DEF Agree, With, Filters
  <2>4. kq' = [kq EXCEPT ![fd] = filters] /\ fdMap' = [fdMap EXCEPT ![fd] = pair]
    BY <1>4 DEF pair
  <2>5. OthersKeep(fd)
    BY <1>1, <1>4 DEF OthersKeep
  <2> HIDE DEF filters
  <2> QED
    BY <1>1, <1>4, <2>1, <2>2, <2>3, <2>4, <2>5, FdStep
<1>5. CASE /\ ~(added = set /\ (set # {} \/ deleted))
           /\ kq' = [kq EXCEPT ![fd] = Freed(With(left, added))]
           /\ fdMap' = [fdMap EXCEPT ![fd] = NULL]
           /\ refused' = refused \cup ({fd} \cap isOpen)
  <2> DEFINE filters == Freed(With(left, added))
  <2>1. "OUT" \notin added
    <3>1. added = set => set = {}
      BY <1>5
    <3> QED
      BY <1>2, <3>1 DEF Added
  <2>2. filters \in [Filters -> {"none", "live", "dangling"}]
    BY DEF Freed
  <2>3. filters["OUT"] # "dangling"
    BY <2>1 DEF Freed, With, Filters
  <2>4. \A f \in Filters : filters[f] # "live"
    BY DEF Freed
  <2>9. filters["IN"] = "dangling" => fd \in refused'
    <3>1. CASE fd \in isOpen
      BY <1>5, <3>1
    <3>2. CASE fd \notin isOpen
      <4>1. added = {}
        BY <1>2, <3>2 DEF Added
      <4>2. filters["IN"] = "dangling" => left["IN"] = "dangling"
        BY <4>1 DEF Freed, With, Filters
      <4> QED
        BY <1>5, <4>2
    <3> QED
      BY <3>1, <3>2
  <2>5. Agree(filters, NULL, fd \in stale', fd \in refused')
    BY <2>3, <2>4, <2>9 DEF Agree
  <2>6. OthersKeep(fd)
    BY <1>1, <1>5 DEF OthersKeep
  <2>7. refused' \subseteq Fd
    BY <1>1, <1>5
  <2> HIDE DEF filters
  <2>8. kq' = [kq EXCEPT ![fd] = filters]
    BY <1>5 DEF filters
  <2> QED
    BY <1>1, <1>5, <2>2, <2>5, <2>6, <2>7, <2>8, FdStep
<1> QED
  BY <1>2, <1>4, <1>5

LEMMA CtlStep ==
  ASSUME KqueueInv, NEW fd \in Fd, NEW set \in SUBSET Filters, NEW data \in Data,
         co_epoll_add(fd, set, data) \/ co_epoll_mod(fd, set, data)
  PROVE  KqueueInv'
<1>1. CASE co_epoll_add(fd, set, data)
  <2>1. AddFilters(fd, kq[fd], set, data, TRUE) /\ fdMap[fd] = NULL
    BY <1>1 DEF co_epoll_add
  <2>2. /\ kq[fd] \in [Filters -> {"none", "live", "dangling"}]
        /\ \A f \in Filters : kq[fd][f] # "live"
        /\ kq[fd]["IN"] = "dangling" => fd \in refused
        /\ kq[fd]["OUT"] # "dangling"
    BY <2>1, NothingLive
  <2> QED
    BY <2>1, <2>2, AddStep
<1>2. CASE co_epoll_mod(fd, set, data)
  <2> DEFINE deleted == "OUT" \in fdMap[fd].events => "OUT" \in Registered(fd)
             left == Without(fd, fdMap[fd].events)
  <2>1. AddFilters(fd, left, set, data, deleted) /\ deleted \in BOOLEAN /\ fdMap[fd] # NULL
    BY <1>2 DEF co_epoll_mod
  <2>2. /\ left \in [Filters -> {"none", "live", "dangling"}]
        /\ \A f \in Filters : left[f] # "live"
        /\ left["IN"] = "dangling" => fd \in refused
        /\ left["OUT"] # "dangling"
    BY <2>1, NothingLive
  <2> HIDE DEF deleted, left
  <2> QED
    BY <2>1, <2>2, AddStep
<1> QED
  BY <1>1, <1>2

---------------------------------------------------------------------------
(* What the kernel reports is for descriptors that have a pair. *)
LEMMA ReportsReported ==
  ASSUME KqueueInv, NEW list \in Reports
  PROVE  Reported(list)
<1> DEFINE fired == {k \in Kevent : kq[k.fd][k.filter] = "live"}
<1>1. PICK n \in 0 .. MaxEvents : list \in [1 .. n -> fired]
  BY DEF Reports
<1>2. n \in Nat /\ n <= MaxEvents
  BY <1>1, EventsAssumption
<1>3. \A i \in 1 .. n : list[i] \in Kevent /\ fdMap[list[i].fd] # NULL
  BY <1>1, FdFacts DEF Kevent, Agree
<1>4. list \in Seq(Kevent) /\ Len(list) = n
  <2>1. list \in [1 .. n -> Kevent]
    BY <1>1, <1>3
  <2> QED
    BY <1>2, <2>1
<1> QED
  BY <1>2, <1>3, <1>4 DEF Reported

LEMMA WaitStep ==
  ASSUME KqueueInv, NEW list \in Reports, co_epoll_wait(list)
  PROVE  KqueueInv' /\ EntriesFor(Len(eventlist), fdMap)'
<1> DEFINE a == WaitLoop(list)
<1>1. TypeOK /\ Reported(list) /\ list \in Seq(Kevent) /\ Len(list) \in Nat
      /\ Len(list) <= MaxEvents
  BY ReportsReported DEF KqueueInv, FiltersHavePairs, Reported
<1>2. RoundInv(list, Len(list), a)
  BY <1>1, WaitLoopFacts
<1>3. /\ events' = a.events /\ ret' = a.j /\ eventlist' = list
      /\ UNCHANGED <<isOpen, kq, refused, stale>>
      /\ fdMap' = [fd \in Fd |-> IF \E i \in DOMAIN list : list[i].fd = fd
                                 THEN [fdMap[fd] EXCEPT !.fire_idx = 0] ELSE fdMap[fd]]
  BY DEF co_epoll_wait
<1> HIDE DEF a
<1>4. DOMAIN list = 1 .. Len(list)
  BY <1>1
<1>5. \A fd \in Fd : fdMap'[fd] = fdMap[fd]
  <2> SUFFICES ASSUME NEW fd \in Fd, NEW i \in DOMAIN list, list[i].fd = fd
               PROVE  [fdMap[fd] EXCEPT !.fire_idx = 0] = fdMap[fd]
    BY <1>3
  <2>1. fdMap[fd] \in Pair
    BY <1>1, <1>4 DEF Reported, TypeOK
  <2> QED
    BY <2>1 DEF Pair
<1>6. TypeOK'
  <2>1. fdMap' \in [Fd -> Pair \cup {NULL}]
    BY <1>1, <1>3, <1>5 DEF TypeOK
  <2>2. ret' \in 0 .. MaxEvents
    BY <1>1, <1>2, <1>3, EventsAssumption DEF RoundInv
  <2>3. events' \in [1 .. MaxEvents -> Event]
    BY <1>2, <1>3 DEF RoundInv
  <2> QED
    BY <1>1, <1>3, <2>1, <2>2, <2>3 DEF TypeOK
<1>7. FiltersHavePairs'
  BY <1>3, <1>5, <1>6 DEF KqueueInv, FiltersHavePairs, Live, Watched
<1>8. CountedOnce'
  BY <1>2, <1>3, <1>4 DEF CountedOnce, RoundInv, Fds
<1>9. EntriesFor(Len(eventlist), fdMap)'
  <2> SUFFICES ASSUME NEW fd \in Fd, Fired(fd)' # {}
               PROVE  \E i \in 1 .. Len(eventlist') :
                        events'[i].events = Fired(fd)' /\ events'[i].data = fdMap'[fd].u64
    BY DEF EntriesFor
  <2>1. Fired(fd)' = FiltersOf(list, Len(list), fd)
    BY <1>3, <1>4 DEF Fired, FiltersOf
  <2>2. fd \in Fds(list, Len(list))
    BY <2>1 DEF FiltersOf, Fds
  <2>3. /\ a.fires[fd] # 0 /\ a.fires[fd] \in 0 .. Len(list)
        /\ a.events[a.fires[fd]].events = FiltersOf(list, Len(list), fd)
        /\ a.events[a.fires[fd]].data = fdMap[fd].u64
    BY <1>2, <2>2 DEF RoundInv
  <2>4. a.fires[fd] \in 1 .. Len(list)
    BY <1>1, <2>3
  <2> QED
    BY <1>3, <1>5, <2>1, <2>3, <2>4
<1> QED
  BY <1>7, <1>8, <1>9 DEF KqueueInv

LEMMA NextInv ==
  ASSUME KqueueInv, [Next]_vars
  PROVE  KqueueInv' /\ (eventlist' # eventlist => EntriesFor(Len(eventlist), fdMap)')
<1>1. ASSUME NEW list \in Reports, co_epoll_wait(list)
      PROVE  KqueueInv' /\ EntriesFor(Len(eventlist), fdMap)'
  BY <1>1, WaitStep
<1>2. ASSUME NEW fd \in Fd, CloseFd(fd) \/ OpenFd(fd) \/ co_epoll_del(fd)
      PROVE  KqueueInv' /\ eventlist' = eventlist
  BY <1>2, CloseStep, OpenStep, DelStep DEF CloseFd, OpenFd, co_epoll_del, wait
<1>3. ASSUME NEW fd \in Fd, NEW set \in SUBSET Filters, NEW data \in Data,
             co_epoll_add(fd, set, data) \/ co_epoll_mod(fd, set, data)
      PROVE  KqueueInv' /\ eventlist' = eventlist
  BY <1>3, CtlStep DEF co_epoll_add, co_epoll_mod, AddFilters, wait
<1>4. CASE UNCHANGED vars
  BY <1>4 DEF vars, wait, KqueueInv, FiltersHavePairs, CountedOnce, TypeOK, Live, Watched
<1> QED
  BY <1>1, <1>2, <1>3, <1>4 DEF Next

LEMMA Invariance == Spec => []KqueueInv
<1>1. KqueueInv /\ [Next]_vars => KqueueInv'
  BY NextInv
<1> QED
  BY InitInv, <1>1, PTL DEF Spec

(* However calls fail and descriptors are closed and reused, a filter that  *)
(* is registered has its pair, never a freed one.                           *)
THEOREM PairsCorrect == Spec => []FiltersHavePairs
<1>1. KqueueInv => FiltersHavePairs
  BY DEF KqueueInv
<1> QED
  BY <1>1, Invariance, PTL

(* co_epoll_wait counts a descriptor once, for every list of events.        *)
THEOREM CountCorrect == Spec => []CountedOnce
<1>1. KqueueInv => CountedOnce
  BY DEF KqueueInv
<1> QED
  BY <1>1, Invariance, PTL

(* Every descriptor that fired has an entry with all that fired of it and   *)
(* the data its caller gave.                                                *)
THEOREM EntriesCorrect == Spec => EntriesMerged
<1>1. KqueueInv /\ [Next]_vars =>
        [eventlist' # eventlist => EntriesFor(Len(eventlist), fdMap)']_vars
  BY NextInv
<1> QED
  BY <1>1, Invariance, PTL DEF EntriesMerged, Spec

---------------------------------------------------------------------------
(* The names that are kept of a list: all but the empty ones. *)
LEMMA NamedLoop ==
  ASSUME NEW M \in Nat, NEW s \in Seq(0 .. M)
  PROVE  \E g : /\ Named(s) = g[Len(s)] /\ g[0] = <<>>
                /\ \A i \in 1 .. Len(s) :
                     g[i] = IF s[i] # 0 THEN Append(g[i - 1], s[i]) ELSE g[i - 1]
<1> DEFINE n == Len(s)
           S == Seq(1 .. M)
           Step == [p \in S \X (1 .. n) |-> IF s[p[2]] # 0 THEN Append(p[1], s[p[2]]) ELSE p[1]]
           g == CHOOSE g : g = [i \in 0 .. Len(s) |->
                  IF i = 0 THEN <<>>
                  ELSE IF s[i] # 0 THEN Append(g[i - 1], s[i]) ELSE g[i - 1]]
<1>1. n \in Nat /\ \A i \in 1 .. n : s[i] \in 0 .. M
  OBVIOUS
<1>2. PICK f : Loop(n, <<>>, Step, f)
  <2> HIDE DEF n, Step
  <2> QED
    BY <1>1, LoopExists
<1>3. \A v \in S, i \in 1 .. n :
        Step[<<v, i>>] = (IF s[i] # 0 THEN Append(v, s[i]) ELSE v) /\ Step[<<v, i>>] \in S
  <2> SUFFICES ASSUME NEW v \in S, NEW i \in 1 .. n
               PROVE  Step[<<v, i>>] = (IF s[i] # 0 THEN Append(v, s[i]) ELSE v) /\ Step[<<v, i>>] \in S
    OBVIOUS
  <2>1. Step[<<v, i>>] = IF s[i] # 0 THEN Append(v, s[i]) ELSE v
    OBVIOUS
  <2>2. s[i] # 0 => s[i] \in 1 .. M
    BY <1>1
  <2> HIDE DEF Step
  <2>3. s[i] # 0 => Append(v, s[i]) \in S
    BY <2>2
  <2>4. Step[<<v, i>>] \in S
    BY <2>1, <2>3, Zenon
  <2> QED
    BY <2>1, <2>4
<1> HIDE DEF Step
<1>4. \A i \in 0 .. n : f[i] \in S
  <2> DEFINE P == {i \in 0 .. n : f[i] \in S}
  <2>1. f[0] = <<>> /\ <<>> \in S /\ 0 \in 0 .. n
    BY <1>1, <1>2 DEF Loop
  <2>2. ASSUME NEW i \in 1 .. n, i - 1 \in P PROVE i \in P
    <3>1. f[i] = Step[<<f[i - 1], i>>] /\ f[i - 1] \in S
      BY <1>2, <2>2 DEF Loop
    <3>2. f[i] \in S /\ i \in 0 .. n
      BY <1>3, <3>1
    <3> QED
      BY <3>2
  <2>3. 0 \in P
    BY <2>1
  <2>4. \A i \in 0 .. n : i \in P
    <3> HIDE DEF P, n
    <3> QED
      BY <1>1, <2>2, <2>3, Upward
  <2> QED
    BY <2>4
<1>5. ASSUME NEW i \in 1 .. n PROVE f[i] = IF s[i] # 0 THEN Append(f[i - 1], s[i]) ELSE f[i - 1]
  <2>1. f[i - 1] \in S
    BY <1>1, <1>4
  <2> QED
    BY <1>2, <1>3, <2>1 DEF Loop
<1>6. f[0] = <<>>
  BY <1>2 DEF Loop
<1> DEFINE h == [i \in 0 .. n |-> f[i]]
           k == [i \in 0 .. Len(s) |->
                  IF i = 0 THEN <<>>
                  ELSE IF s[i] # 0 THEN Append(h[i - 1], s[i]) ELSE h[i - 1]]
<1>7. ASSUME NEW i \in 0 .. n PROVE h[i] = k[i]
  <2>1. CASE i = 0
    BY <1>6, <2>1
  <2>2. CASE i # 0
    <3>1. i \in 1 .. n /\ i - 1 \in 0 .. n
      BY <1>1, <2>2
    <3>2. h[i] = f[i] /\ h[i - 1] = f[i - 1]
      BY <3>1
    <3> QED
      BY <1>5, <2>2, <3>1, <3>2
  <2> QED
    BY <2>1, <2>2
<1>8. h = k
  <2>1. h = [i \in 0 .. n |-> h[i]] /\ k = [i \in 0 .. n |-> k[i]]
    OBVIOUS
  <2> HIDE DEF h, k
  <2> QED
    BY <1>7, <2>1
<1> HIDE DEF h
<1>9. g = [i \in 0 .. Len(s) |->
             IF i = 0 THEN <<>> ELSE IF s[i] # 0 THEN Append(g[i - 1], s[i]) ELSE g[i - 1]]
  <2>1. \E x : x = [i \in 0 .. Len(s) |->
             IF i = 0 THEN <<>> ELSE IF s[i] # 0 THEN Append(x[i - 1], s[i]) ELSE x[i - 1]]
    BY <1>8
  <2> QED
    BY <2>1, Zenon
<1>10. Named(s) = g[n]
  BY Zenon DEF Named
<1> HIDE DEF g
<1>11. \A i \in 0 .. n : g[i] = IF i = 0 THEN <<>> ELSE IF s[i] # 0 THEN Append(g[i - 1], s[i]) ELSE g[i - 1]
  BY <1>9, Zenon
<1>12. 0 \in 0 .. n /\ \A i \in 1 .. n : i \in 0 .. n /\ i # 0
  BY <1>1
<1> QED
  BY <1>10, <1>11, <1>12

LEMMA NamedFacts ==
  ASSUME NEW M \in Nat, NEW s \in Seq(0 .. M)
  PROVE  /\ Named(s) \in Seq(1 .. M)
         /\ Len(Named(s)) <= Len(s)
         /\ \A k \in 1 .. Len(Named(s)) : \E j \in 1 .. Len(s) : Named(s)[k] = s[j]
         /\ \A j \in 1 .. Len(s) : s[j] # 0 =>
              \E k \in 1 .. Len(Named(s)) : Named(s)[k] = s[j]
<1> DEFINE n == Len(s)
           Good(v, i) == /\ v \in Seq(1 .. M) /\ Len(v) <= i
                         /\ \A k \in 1 .. Len(v) : \E j \in 1 .. i : v[k] = s[j]
                         /\ \A j \in 1 .. i : s[j] # 0 => \E k \in 1 .. Len(v) : v[k] = s[j]
<1>1. n \in Nat /\ \A i \in 1 .. n : s[i] \in 0 .. M
  OBVIOUS
<1>2. PICK g : /\ Named(s) = g[n] /\ g[0] = <<>>
               /\ \A i \in 1 .. n : g[i] = IF s[i] # 0 THEN Append(g[i - 1], s[i]) ELSE g[i - 1]
  BY NamedLoop
<1>3. Good(g[0], 0)
  <2>1. g[0] \in Seq(1 .. M) /\ Len(g[0]) = 0
    BY <1>2
  <2> QED
    BY <2>1
<1>4. ASSUME NEW i \in 1 .. n, Good(g[i - 1], i - 1) PROVE Good(g[i], i)
  <2> DEFINE v == g[i - 1]
             w == g[i]
  <2>1. /\ v \in Seq(1 .. M) /\ Len(v) \in Nat /\ Len(v) <= i - 1
        /\ \A k \in 1 .. Len(v) : \E j \in 1 .. i - 1 : v[k] = s[j]
        /\ \A j \in 1 .. i - 1 : s[j] # 0 => \E k \in 1 .. Len(v) : v[k] = s[j]
    BY <1>4
  <2>2. w = IF s[i] # 0 THEN Append(v, s[i]) ELSE v
    BY <1>2
  <2> HIDE DEF v, w
  <2>3. CASE s[i] = 0
    <3>1. w = v
      BY <2>2, <2>3
    <3>2. \A k \in 1 .. Len(w) : \E j \in 1 .. i : w[k] = s[j]
      BY <1>1, <2>1, <3>1
    <3>3. \A j \in 1 .. i : s[j] # 0 => \E k \in 1 .. Len(w) : w[k] = s[j]
      <4> SUFFICES ASSUME NEW j \in 1 .. i, s[j] # 0 PROVE \E k \in 1 .. Len(w) : w[k] = s[j]
        OBVIOUS
      <4>1. j \in 1 .. i - 1
        BY <1>1, <2>3
      <4> QED
        BY <2>1, <3>1, <4>1
    <3> QED
      BY <1>1, <2>1, <3>1, <3>2, <3>3 DEF w
  <2>4. CASE s[i] # 0
    <3>1. s[i] \in 1 .. M
      BY <1>1, <2>4
    <3>2. /\ w \in Seq(1 .. M) /\ Len(w) = Len(v) + 1 /\ w[Len(v) + 1] = s[i]
          /\ \A k \in 1 .. Len(v) : w[k] = v[k]
      BY <2>1, <2>2, <2>4, <3>1
    <3>3. ASSUME NEW k \in 1 .. Len(w) PROVE \E j \in 1 .. i : w[k] = s[j]
      <4>1. CASE k = Len(v) + 1
        BY <1>1, <3>2, <4>1
      <4>2. CASE k # Len(v) + 1
        <5>1. k \in 1 .. Len(v)
          BY <2>1, <3>2, <4>2
        <5>2. PICK j \in 1 .. i - 1 : v[k] = s[j]
          BY <2>1, <5>1
        <5>3. j \in 1 .. i
          BY <1>1
        <5> QED
          BY <3>2, <5>1, <5>2, <5>3
      <4> QED
        BY <4>1, <4>2
    <3>4. ASSUME NEW j \in 1 .. i, s[j] # 0 PROVE \E k \in 1 .. Len(w) : w[k] = s[j]
      <4>1. CASE j = i
        <5>1. Len(v) + 1 \in 1 .. Len(w)
          BY <2>1, <3>2
        <5> QED
          BY <3>2, <4>1, <5>1
      <4>2. CASE j # i
        <5>1. j \in 1 .. i - 1
          BY <1>1, <4>2
        <5>2. PICK k \in 1 .. Len(v) : v[k] = s[j]
          BY <2>1, <3>4, <5>1
        <5>3. k \in 1 .. Len(w)
          BY <2>1, <3>2
        <5> QED
          BY <3>2, <5>2, <5>3
      <4> QED
        BY <4>1, <4>2
    <3>5. Len(w) <= i
      BY <2>1, <3>2
    <3> QED
      BY <3>2, <3>3, <3>4, <3>5 DEF w
  <2> QED
    BY <2>3, <2>4
<1> HIDE DEF Good
<1>5. \A i \in 0 .. n : Good(g[i], i)
  <2> DEFINE P == {i \in 0 .. n : Good(g[i], i)}
  <2>1. 0 \in P
    BY <1>1, <1>3
  <2>2. \A i \in 1 .. n : i - 1 \in P => i \in P
    BY <1>1, <1>4
  <2>3. \A i \in 0 .. n : i \in P
    <3> HIDE DEF P, n
    <3> QED
      BY <1>1, <2>1, <2>2, Upward
  <2> QED
    BY <2>3
<1>6. Good(Named(s), n)
  BY <1>1, <1>2, <1>5
<1> QED
  BY <1>6 DEF Good

(* The loop that drops what is equal to its predecessor. *)
LEMMA DistinctLoop ==
  ASSUME NEW M \in Nat, NEW s \in Seq(0 .. M), Len(s) >= 1
  PROVE  \E g : /\ Distinct(s) = g[Len(s)] /\ g[1] = <<s[1]>>
                /\ \A i \in 2 .. Len(s) :
                     g[i] = IF g[i - 1][Len(g[i - 1])] # s[i] THEN Append(g[i - 1], s[i])
                            ELSE g[i - 1]
<1> DEFINE n == Len(s)
           S == Seq(0 .. M)
           Next1(v, i) == IF i = 1 THEN <<s[1]>>
                          ELSE IF v[Len(v)] # s[i] THEN Append(v, s[i]) ELSE v
           Step == [p \in S \X (1 .. n) |-> Next1(p[1], p[2])]
           g == CHOOSE g : g = [i \in 1 .. Len(s) |->
                  IF i = 1 THEN <<s[1]>>
                  ELSE IF g[i - 1][Len(g[i - 1])] # s[i] THEN Append(g[i - 1], s[i])
                  ELSE g[i - 1]]
<1>1. n \in Nat /\ n >= 1 /\ \A i \in 1 .. n : s[i] \in 0 .. M
  OBVIOUS
<1>2. PICK f : Loop(n, <<>>, Step, f)
  <2> HIDE DEF n, Step
  <2> QED
    BY <1>1, LoopExists
<1>3. \A v \in S, i \in 1 .. n : Step[<<v, i>>] = Next1(v, i) /\ Step[<<v, i>>] \in S
  <2> SUFFICES ASSUME NEW v \in S, NEW i \in 1 .. n
               PROVE  Step[<<v, i>>] = Next1(v, i) /\ Step[<<v, i>>] \in S
    OBVIOUS
  <2>1. Step[<<v, i>>] = Next1(v, i)
    OBVIOUS
  <2>2. Append(v, s[i]) \in S /\ <<s[1]>> \in S
    BY <1>1
  <2> HIDE DEF Step
  <2>3. Step[<<v, i>>] \in S
    BY <2>1, <2>2, Zenon
  <2> QED
    BY <2>1, <2>3
<1> HIDE DEF Step
<1>4. \A i \in 0 .. n : f[i] \in S
  <2> DEFINE P == {i \in 0 .. n : f[i] \in S}
  <2>1. f[0] = <<>> /\ <<>> \in S /\ 0 \in 0 .. n
    BY <1>1, <1>2 DEF Loop
  <2>2. ASSUME NEW i \in 1 .. n, i - 1 \in P PROVE i \in P
    <3>1. f[i] = Step[<<f[i - 1], i>>] /\ f[i - 1] \in S
      BY <1>2, <2>2 DEF Loop
    <3>2. f[i] \in S /\ i \in 0 .. n
      BY <1>3, <3>1
    <3> QED
      BY <3>2
  <2>3. 0 \in P
    BY <2>1
  <2>4. \A i \in 0 .. n : i \in P
    <3> HIDE DEF P, n
    <3> QED
      BY <1>1, <2>2, <2>3, Upward
  <2> QED
    BY <2>4
<1>5. ASSUME NEW i \in 1 .. n PROVE f[i] = Next1(f[i - 1], i)
  <2>1. f[i - 1] \in S
    BY <1>1, <1>4
  <2> HIDE DEF Next1
  <2> QED
    BY <1>2, <1>3, <2>1 DEF Loop
<1> DEFINE h == [i \in 1 .. n |-> f[i]]
           k == [i \in 1 .. Len(s) |->
                  IF i = 1 THEN <<s[1]>>
                  ELSE IF h[i - 1][Len(h[i - 1])] # s[i] THEN Append(h[i - 1], s[i])
                  ELSE h[i - 1]]
<1>7. ASSUME NEW i \in 1 .. n PROVE h[i] = k[i]
  <2>1. CASE i = 1
    BY <1>5, <2>1
  <2>2. CASE i # 1
    <3>1. i - 1 \in 1 .. n
      BY <1>1, <2>2
    <3>2. h[i] = f[i] /\ h[i - 1] = f[i - 1]
      BY <3>1
    <3>3. f[i] = IF f[i - 1][Len(f[i - 1])] # s[i] THEN Append(f[i - 1], s[i]) ELSE f[i - 1]
      BY <1>5, <2>2
    <3>4. k[i] = IF h[i - 1][Len(h[i - 1])] # s[i] THEN Append(h[i - 1], s[i]) ELSE h[i - 1]
      BY <2>2
    <3> HIDE DEF h, k
    <3> QED
      BY <3>2, <3>3, <3>4
  <2> QED
    BY <2>1, <2>2
<1>8. h = k
  <2>1. h = [i \in 1 .. n |-> h[i]] /\ k = [i \in 1 .. n |-> k[i]]
    OBVIOUS
  <2> HIDE DEF h, k
  <2> QED
    BY <1>7, <2>1
<1> HIDE DEF h
<1>9. g = [i \in 1 .. Len(s) |->
             IF i = 1 THEN <<s[1]>>
             ELSE IF g[i - 1][Len(g[i - 1])] # s[i] THEN Append(g[i - 1], s[i])
             ELSE g[i - 1]]
  <2>1. \E x : x = [i \in 1 .. Len(s) |->
             IF i = 1 THEN <<s[1]>>
             ELSE IF x[i - 1][Len(x[i - 1])] # s[i] THEN Append(x[i - 1], s[i])
             ELSE x[i - 1]]
    BY <1>8
  <2> QED
    BY <2>1, Zenon
<1>10. Distinct(s) = g[n]
  BY Zenon DEF Distinct
<1> HIDE DEF g
<1>11. \A i \in 1 .. n : g[i] = IF i = 1 THEN <<s[1]>>
                                ELSE IF g[i - 1][Len(g[i - 1])] # s[i]
                                THEN Append(g[i - 1], s[i]) ELSE g[i - 1]
  BY <1>9, Zenon
<1>12. 1 \in 1 .. n /\ \A i \in 2 .. n : i \in 1 .. n /\ i # 1
  BY <1>1
<1> QED
  BY <1>10, <1>11, <1>12

LEMMA DistinctFacts ==
  ASSUME NEW M \in Nat, NEW s \in Seq(0 .. M), Len(s) >= 1,
         \A i, j \in 1 .. Len(s) : i < j => s[i] <= s[j]
  PROVE  /\ Distinct(s) \in Seq(0 .. M)
         /\ Len(Distinct(s)) <= Len(s)
         /\ \A i, j \in 1 .. Len(Distinct(s)) : i < j => Distinct(s)[i] < Distinct(s)[j]
         /\ \A k \in 1 .. Len(Distinct(s)) : \E j \in 1 .. Len(s) : Distinct(s)[k] = s[j]
         /\ \A j \in 1 .. Len(s) : \E k \in 1 .. Len(Distinct(s)) : Distinct(s)[k] = s[j]
<1> DEFINE n == Len(s)
           Good(v, i) == /\ v \in Seq(0 .. M) /\ Len(v) <= i /\ Len(v) >= 1
                         /\ v[Len(v)] = s[i]
                         /\ \A k, l \in 1 .. Len(v) : k < l => v[k] < v[l]
                         /\ \A k \in 1 .. Len(v) : \E j \in 1 .. i : v[k] = s[j]
                         /\ \A j \in 1 .. i : \E k \in 1 .. Len(v) : v[k] = s[j]
<1>1. n \in Nat /\ n >= 1 /\ \A i \in 1 .. n : s[i] \in 0 .. M
  OBVIOUS
<1>2. PICK g : /\ Distinct(s) = g[n] /\ g[1] = <<s[1]>>
               /\ \A i \in 2 .. n :
                    g[i] = IF g[i - 1][Len(g[i - 1])] # s[i] THEN Append(g[i - 1], s[i])
                           ELSE g[i - 1]
  BY DistinctLoop
<1>3. Good(g[1], 1)
  <2>1. g[1] \in Seq(0 .. M) /\ Len(g[1]) = 1 /\ g[1][1] = s[1]
    BY <1>1, <1>2
  <2> QED
    BY <2>1
<1>4. ASSUME NEW i \in 2 .. n, Good(g[i - 1], i - 1) PROVE Good(g[i], i)
  <2> DEFINE v == g[i - 1]
             w == g[i]
  <2>1. /\ v \in Seq(0 .. M) /\ Len(v) \in Nat /\ Len(v) <= i - 1 /\ Len(v) >= 1
        /\ v[Len(v)] = s[i - 1]
    BY <1>4
  <2>2. \A k, l \in 1 .. Len(v) : k < l => v[k] < v[l]
    BY <1>4
  <2>3. \A k \in 1 .. Len(v) : \E j \in 1 .. i - 1 : v[k] = s[j]
    BY <1>4
  <2>4. \A j \in 1 .. i - 1 : \E k \in 1 .. Len(v) : v[k] = s[j]
    BY <1>4
  <2>5. w = IF v[Len(v)] # s[i] THEN Append(v, s[i]) ELSE v
    BY <1>2
  <2>6. i \in 1 .. n /\ i - 1 \in 1 .. n /\ s[i] \in 0 .. M /\ s[i - 1] \in 0 .. M /\ s[i - 1] <= s[i]
    BY <1>1
  <2> HIDE DEF v, w
  <2>7. CASE v[Len(v)] = s[i]
    <3>1. w = v
      BY <2>5, <2>7
    <3>2. \A k \in 1 .. Len(w) : \E j \in 1 .. i : w[k] = s[j]
      BY <1>1, <2>3, <3>1
    <3>3. ASSUME NEW j \in 1 .. i PROVE \E k \in 1 .. Len(w) : w[k] = s[j]
      <4>1. CASE j = i
        <5>1. Len(v) \in 1 .. Len(w)
          BY <2>1, <3>1
        <5> QED
          BY <2>7, <3>1, <4>1, <5>1
      <4>2. CASE j # i
        <5>1. j \in 1 .. i - 1
          BY <1>1, <4>2
        <5> QED
          BY <2>4, <3>1, <5>1
      <4> QED
        BY <4>1, <4>2
    <3>4. w \in Seq(0 .. M) /\ Len(w) <= i /\ Len(w) >= 1 /\ w[Len(w)] = s[i]
      BY <2>1, <2>6, <2>7, <3>1
    <3> QED
      BY <2>2, <3>1, <3>2, <3>3, <3>4 DEF w
  <2>8. CASE v[Len(v)] # s[i]
    <3>1. /\ w \in Seq(0 .. M) /\ Len(w) = Len(v) + 1 /\ w[Len(v) + 1] = s[i]
          /\ \A k \in 1 .. Len(v) : w[k] = v[k]
      BY <2>1, <2>5, <2>6, <2>8
    <3>2. \A k \in 1 .. Len(v) : v[k] \in Int
      BY <2>1
    <3>3. ASSUME NEW k \in 1 .. Len(w), NEW l \in 1 .. Len(w), k < l PROVE w[k] < w[l]
      <4>1. k \in 1 .. Len(v)
        BY <2>1, <3>1, <3>3
      <4>2. CASE l = Len(v) + 1
        <5>1. v[k] <= v[Len(v)]
          <6>1. CASE k = Len(v)
            BY <3>2, <4>1, <6>1
          <6>2. CASE k # Len(v)
            <7>1. k < Len(v) /\ Len(v) \in 1 .. Len(v)
              BY <2>1, <4>1, <6>2
            <7>2. v[k] < v[Len(v)] /\ v[k] \in Int /\ v[Len(v)] \in Int
              BY <2>2, <3>2, <4>1, <7>1
            <7> QED
              BY <7>2
          <6> QED
            BY <6>1, <6>2
        <5>2. v[k] \in Int /\ v[Len(v)] < s[i] /\ v[Len(v)] \in Int /\ s[i] \in Int
          BY <2>1, <2>6, <2>8, <3>2, <4>1
        <5> QED
          BY <3>1, <4>1, <4>2, <5>1, <5>2
      <4>3. CASE l # Len(v) + 1
        <5>1. l \in 1 .. Len(v)
          BY <2>1, <3>1, <4>3
        <5> QED
          BY <2>2, <3>1, <3>3, <4>1, <5>1
      <4> QED
        BY <4>2, <4>3
    <3>4. ASSUME NEW k \in 1 .. Len(w) PROVE \E j \in 1 .. i : w[k] = s[j]
      <4>1. CASE k = Len(v) + 1
        <5>1. i \in 1 .. i
          BY <2>6
        <5> QED
          BY <3>1, <4>1, <5>1
      <4>2. CASE k # Len(v) + 1
        <5>1. k \in 1 .. Len(v)
          BY <2>1, <3>1, <4>2
        <5>2. PICK j \in 1 .. i - 1 : v[k] = s[j]
          BY <2>3, <5>1
        <5>3. j \in 1 .. i
          BY <1>1
        <5> QED
          BY <3>1, <5>1, <5>2, <5>3
      <4> QED
        BY <4>1, <4>2
    <3>5. ASSUME NEW j \in 1 .. i PROVE \E k \in 1 .. Len(w) : w[k] = s[j]
      <4>1. CASE j = i
        <5>1. Len(v) + 1 \in 1 .. Len(w)
          BY <2>1, <3>1
        <5> QED
          BY <3>1, <4>1, <5>1
      <4>2. CASE j # i
        <5>1. j \in 1 .. i - 1
          BY <1>1, <4>2
        <5>2. PICK k \in 1 .. Len(v) : v[k] = s[j]
          BY <2>4, <5>1
        <5>3. k \in 1 .. Len(w)
          BY <2>1, <3>1
        <5> QED
          BY <3>1, <5>2, <5>3
      <4> QED
        BY <4>1, <4>2
    <3>6. Len(w) <= i /\ Len(w) >= 1 /\ w[Len(w)] = s[i]
      BY <2>1, <3>1
    <3> QED
      BY <3>1, <3>3, <3>4, <3>5, <3>6 DEF w
  <2> QED
    BY <2>7, <2>8
<1> HIDE DEF Good
<1>5. \A i \in 1 .. n : Good(g[i], i)
  <2> DEFINE P == {i \in 0 .. n : i # 0 => Good(g[i], i)}
  <2>1. 0 \in P
    BY <1>1
  <2>2. ASSUME NEW i \in 1 .. n, i - 1 \in P PROVE i \in P
    <3>1. CASE i = 1
      BY <1>3, <3>1
    <3>2. CASE i # 1
      <4>1. i \in 2 .. n /\ i - 1 # 0
        BY <3>2
      <4>2. Good(g[i - 1], i - 1)
        BY <2>2, <4>1
      <4> QED
        BY <1>4, <4>1, <4>2
    <3> QED
      BY <3>1, <3>2
  <2>3. \A i \in 0 .. n : i \in P
    <3> HIDE DEF P, n
    <3> QED
      BY <1>1, <2>1, <2>2, Upward
  <2>4. \A i \in 1 .. n : i \in 0 .. n /\ i # 0
    OBVIOUS
  <2> QED
    BY <2>3, <2>4
<1>6. Good(Distinct(s), n)
  <2>1. n \in 1 .. n
    BY <1>1
  <2> QED
    BY <1>2, <1>5, <2>1
<1> QED
  BY <1>6 DEF Good

LEMMA ArrayIsSeq ==
  ASSUME NEW s \in Arrays
  PROVE  /\ s \in Seq(0 .. MaxName) /\ Len(s) \in 0 .. MaxList /\ Len(s) \in Nat
         /\ DOMAIN s = 1 .. Len(s) /\ \A i \in 1 .. Len(s) : s[i] \in Name
<1>1. PICK n \in 0 .. MaxList : s \in [1 .. n -> Name]
  BY DEF Arrays
<1>2. n \in Nat /\ s = [i \in 1 .. n |-> s[i]] /\ DOMAIN s = 1 .. n
      /\ \A i \in 1 .. n : s[i] \in Name
  BY <1>1, NameAssumption, UnsetAssumption
<1>3. \A i \in 1 .. n : s[i] \in 0 .. MaxName
  BY <1>2, NameAssumption, UnsetAssumption DEF Name
<1>4. s \in Seq(0 .. MaxName) /\ Len(s) = n
  <2> DEFINE S == 0 .. MaxName
  <2>1. \A i \in 1 .. n : s[i] \in S
    BY <1>3
  <2> HIDE DEF S
  <2>2. s \in Seq(S) /\ Len(s) = n
    BY <1>2, <2>1, IndexedIsSeq
  <2> QED
    BY <2>2 DEF S
<1> QED
  BY <1>1, <1>2, <1>4

LEMMA SeqIsArray ==
  ASSUME NEW s \in Seq(Name), Len(s) <= MaxList
  PROVE  s \in Arrays
<1>1. Len(s) \in 0 .. MaxList /\ s \in [1 .. Len(s) -> Name]
  BY NameAssumption, UnsetAssumption
<1> QED
  BY <1>1 DEF Arrays

LEMMA SameMembers ==
  ASSUME NEW f, NEW D, NEW g, NEW E,
         \A k \in D : f[k] # 0, \A k \in D : \E j \in E : f[k] = g[j],
         \A j \in E : g[j] # 0 => \E k \in D : f[k] = g[j]
  PROVE  {f[k] : k \in D} = {g[j] : j \in E} \ {0}
<1>1. ASSUME NEW x \in {f[k] : k \in D} PROVE x \in {g[j] : j \in E} \ {0}
  <2>1. PICK k \in D : x = f[k]
    OBVIOUS
  <2>2. PICK j \in E : f[k] = g[j]
    OBVIOUS
  <2> QED
    BY <2>1, <2>2
<1>2. ASSUME NEW x \in {g[j] : j \in E} \ {0} PROVE x \in {f[k] : k \in D}
  <2>1. PICK j \in E : x = g[j] /\ g[j] # 0
    OBVIOUS
  <2>2. PICK k \in D : f[k] = g[j]
    BY <2>1
  <2> QED
    BY <2>1, <2>2
<1> QED
  BY <1>1, <1>2

(* The list that co_set_env_list makes of name. *)
Made(name) ==
  IF Len(Named(name)) > 1 THEN Distinct(Sorted(Named(name))) ELSE Named(name)

LEMMA MadeFacts ==
  ASSUME NEW len \in 0 .. MaxList, NEW name \in [1 .. len -> 0 .. MaxName]
  PROVE  /\ Made(name) \in Arrays
         /\ \A i, j \in DOMAIN Made(name) : i < j => Made(name)[i] < Made(name)[j]
         /\ {Made(name)[i] : i \in DOMAIN Made(name)} = {name[i] : i \in 1 .. len} \ {0}
<1> DEFINE a == Named(name)
           b == Sorted(a)
           c == Distinct(b)
           d == Made(name)
<1>1. MaxName \in Nat /\ MaxList \in Nat /\ len \in Nat
  BY NameAssumption, UnsetAssumption
<1>2. name \in Seq(0 .. MaxName) /\ Len(name) = len
  BY <1>1
<1>3. /\ a \in Seq(1 .. MaxName) /\ Len(a) <= len
      /\ \A k \in 1 .. Len(a) : \E j \in 1 .. len : a[k] = name[j]
      /\ \A j \in 1 .. len : name[j] # 0 => \E k \in 1 .. Len(a) : a[k] = name[j]
  BY <1>1, <1>2, NamedFacts
<1> HIDE DEF a
<1>4. Len(a) \in Nat /\ a \in Seq(0 .. MaxName) /\ DOMAIN a = 1 .. Len(a)
      /\ \A k \in 1 .. Len(a) : a[k] \in 1 .. MaxName
  <2>1. \A k \in 1 .. Len(a) : a[k] \in 1 .. MaxName /\ a[k] \in 0 .. MaxName
    BY <1>1, <1>3
  <2>2. Len(a) \in Nat /\ a = [k \in 1 .. Len(a) |-> a[k]]
    BY <1>3
  <2>3. a \in Seq(0 .. MaxName)
    <3> DEFINE S == 0 .. MaxName
    <3>1. \A k \in 1 .. Len(a) : a[k] \in S
      BY <2>1
    <3> HIDE DEF S
    <3>2. a \in Seq(S)
      BY <2>2, <3>1, IndexedIsSeq
    <3> QED
      BY <3>2 DEF S
  <2> QED
    BY <1>3, <2>1, <2>2, <2>3
<1>5. Made(name) = IF Len(a) > 1 THEN c ELSE a
  BY Zenon DEF Made, a
<1>6. CASE Len(a) > 1
  <2>1. /\ b \in Seq(0 .. MaxName) /\ Len(b) = Len(a)
        /\ \A i \in 1 .. Len(a) : \E j \in 1 .. Len(a) : b[i] = a[j]
        /\ \A j \in 1 .. Len(a) : \E i \in 1 .. Len(a) : b[i] = a[j]
        /\ \A i, j \in 1 .. Len(a) : i < j => b[i] <= b[j]
    BY <1>1, <1>4, SortedFacts
  <2> HIDE DEF b
  <2>2. Len(b) >= 1 /\ \A i, j \in 1 .. Len(b) : i < j => b[i] <= b[j]
    BY <1>6, <2>1, <1>4
  <2>3. /\ c \in Seq(0 .. MaxName) /\ Len(c) <= Len(b)
        /\ \A i, j \in 1 .. Len(c) : i < j => c[i] < c[j]
        /\ \A k \in 1 .. Len(c) : \E j \in 1 .. Len(b) : c[k] = b[j]
        /\ \A j \in 1 .. Len(b) : \E k \in 1 .. Len(c) : c[k] = b[j]
    BY <1>1, <2>1, <2>2, DistinctFacts
  <2> HIDE DEF c
  <2>4. \A k \in 1 .. Len(c) : \E j \in 1 .. Len(a) : c[k] = a[j]
    BY <2>1, <2>3
  <2>5. \A j \in 1 .. Len(a) : \E k \in 1 .. Len(c) : c[k] = a[j]
    BY <2>1, <2>3
  <2>6. Len(c) \in Nat /\ DOMAIN c = 1 .. Len(c) /\ Len(c) <= MaxList
    BY <1>1, <1>3, <1>4, <2>1, <2>3
  <2>7. \A k \in 1 .. Len(c) : c[k] \in Name
    BY <1>4, <2>4 DEF Name
  <2>8. c \in Arrays
    <3>1. c = [k \in 1 .. Len(c) |-> c[k]]
      BY <2>3
    <3>2. c \in Seq(Name)
      BY <2>6, <2>7, <3>1, IndexedIsSeq
    <3> QED
      BY <2>6, <3>2, SeqIsArray
  <2>9. {c[i] : i \in 1 .. Len(c)} = {name[i] : i \in 1 .. len} \ {0}
    <3>1. ASSUME NEW k \in 1 .. Len(c) PROVE c[k] # 0 /\ \E j \in 1 .. len : c[k] = name[j]
      BY <1>3, <1>4, <2>4
    <3>2. ASSUME NEW j \in 1 .. len, name[j] # 0 PROVE \E k \in 1 .. Len(c) : c[k] = name[j]
      <4>1. PICK m \in 1 .. Len(a) : a[m] = name[j]
        BY <1>3, <3>2
      <4>2. PICK k \in 1 .. Len(c) : c[k] = a[m]
        BY <2>5
      <4> QED
        BY <4>1, <4>2
    <3>3. /\ \A k \in 1 .. Len(c) : c[k] # 0
          /\ \A k \in 1 .. Len(c) : \E j \in 1 .. len : c[k] = name[j]
          /\ \A j \in 1 .. len : name[j] # 0 => \E k \in 1 .. Len(c) : c[k] = name[j]
      BY <3>1, <3>2
    <3> DEFINE D == 1 .. Len(c)
               E == 1 .. len
    <3>4. /\ \A k \in D : c[k] # 0
          /\ \A k \in D : \E j \in E : c[k] = name[j]
          /\ \A j \in E : name[j] # 0 => \E k \in D : c[k] = name[j]
      BY <3>3, Zenon
    <3> HIDE DEF D, E
    <3>5. {c[k] : k \in D} = {name[j] : j \in E} \ {0}
      BY <3>4, SameMembers
    <3> QED
      BY <3>5 DEF D, E
  <2> QED
    BY <1>5, <1>6, <2>3, <2>6, <2>8, <2>9
<1>7. CASE ~(Len(a) > 1)
  <2>1. a \in Arrays
    <3>1. a \in Seq(Name) /\ Len(a) <= MaxList
      BY <1>1, <1>3, <1>4 DEF Name
    <3> QED
      BY <3>1, SeqIsArray
  <2>2. \A i, j \in 1 .. Len(a) : ~(i < j)
    BY <1>4, <1>7
  <2>3. {a[i] : i \in 1 .. Len(a)} = {name[i] : i \in 1 .. len} \ {0}
    <3>1. \A k \in 1 .. Len(a) : a[k] # 0
      BY <1>4
    <3> QED
      BY <1>3, <3>1, SameMembers
  <2> QED
    BY <1>4, <1>5, <1>7, <2>1, <2>2, <2>3
<1> QED
  BY <1>6, <1>7

---------------------------------------------------------------------------
Place(n) == IF sysenv = Unset THEN 0 ELSE bsearch(sysenv, n)

LEMMA PlaceFacts ==
  ASSUME EnvTypeOK, NEW n \in Name
  PROVE  \/ Place(n) = 0 /\ n \notin Names
         \/ /\ Place(n) # 0 /\ Place(n) > 0 /\ n \in Names
            /\ sysenv # Unset /\ Place(n) \in DOMAIN sysenv /\ sysenv[Place(n)] = n
            /\ (CHOOSE i \in DOMAIN sysenv : sysenv[i] = n) = Place(n)
<1>1. CASE sysenv = Unset
  BY <1>1 DEF Place, Names
<1>2. CASE sysenv # Unset
  <2>1. /\ sysenv \in Arrays
        /\ \A i, j \in DOMAIN sysenv : i < j => sysenv[i] < sysenv[j]
    BY <1>2 DEF EnvTypeOK
  <2>2. /\ sysenv \in Seq(0 .. MaxName) /\ DOMAIN sysenv = 1 .. Len(sysenv)
        /\ \A i \in 1 .. Len(sysenv) : sysenv[i] \in Name
        /\ Len(sysenv) \in Nat
    BY <2>1, ArrayIsSeq
  <2>3. MaxName \in Nat /\ n \in Int /\ \A i \in 1 .. Len(sysenv) : sysenv[i] \in Int
    BY <2>2, NameAssumption, UnsetAssumption DEF Name
  <2>4. \/ bsearch(sysenv, n) = 0 /\ \A j \in 1 .. Len(sysenv) : sysenv[j] # n
        \/ bsearch(sysenv, n) \in 1 .. Len(sysenv) /\ sysenv[bsearch(sysenv, n)] = n
    <3>1. \A i, j \in 1 .. Len(sysenv) : i < j => sysenv[i] < sysenv[j]
      BY <2>1, <2>2
    <3> QED
      BY <2>2, <2>3, <3>1, BsearchFacts
  <2>5. Place(n) = bsearch(sysenv, n)
    BY <1>2, Zenon DEF Place
  <2>6. Names = {sysenv[i] : i \in DOMAIN sysenv}
    BY <1>2 DEF Names
  <2>7. CASE Place(n) = 0
    BY <2>2, <2>4, <2>5, <2>6, <2>7
  <2>8. CASE Place(n) # 0
    <3>1. Place(n) \in 1 .. Len(sysenv) /\ sysenv[Place(n)] = n
      BY <2>4, <2>5, <2>8
    <3>2. ASSUME NEW i \in DOMAIN sysenv, sysenv[i] = n PROVE i = Place(n)
      <4>1. ~(i < Place(n)) /\ ~(Place(n) < i)
        BY <2>1, <2>2, <2>3, <3>1, <3>2
      <4> QED
        BY <2>2, <3>1, <4>1
    <3>3. (CHOOSE i \in DOMAIN sysenv : sysenv[i] = n) = Place(n)
      BY <2>2, <3>1, <3>2
    <3> QED
      BY <1>2, <2>2, <2>6, <2>8, <3>1, <3>3
  <2> QED
    BY <2>7, <2>8
<1> QED
  BY <1>1, <1>2

(* The private variables that the arrays implement, as Private has them.    *)
Priv == [co \in Co |-> [n \in Name |->
           IF n \notin Names \/ pvEnv[co] = Unset THEN Unset
           ELSE pvEnv[co][CHOOSE i \in DOMAIN sysenv : sysenv[i] = n]]]

LEMMA CopyFacts ==
  ASSUME EnvTypeOK, sysenv # Unset, NEW co \in Co
  PROVE  /\ Copy(co) \in Values /\ Copy(co) # Unset
         /\ Copy(co) \in [DOMAIN sysenv -> Value \cup {Unset}]
<1>1. PICK n \in 0 .. MaxList : DOMAIN sysenv = 1 .. n
  <2>1. sysenv \in Arrays
    BY DEF EnvTypeOK
  <2> QED
    BY <2>1 DEF Arrays
<1>2. Copy(co) \in [DOMAIN sysenv -> Value \cup {Unset}]
  <2>1. CASE pvEnv[co] = Unset
    BY <2>1 DEF Copy
  <2>2. CASE pvEnv[co] # Unset
    <3>1. pvEnv[co] \in Values /\ DOMAIN pvEnv[co] = DOMAIN sysenv
      BY <2>2 DEF EnvTypeOK
    <3>2. PICK m \in 0 .. MaxList : pvEnv[co] \in [1 .. m -> Value \cup {Unset}]
      BY <3>1 DEF Values
    <3> QED
      BY <2>2, <3>1, <3>2 DEF Copy
  <2> QED
    BY <2>1, <2>2
<1>3. Copy(co) \in Values
  BY <1>1, <1>2 DEF Values
<1> QED
  BY <1>2, <1>3, NameAssumption, UnsetAssumption

LEMMA NoListTyped == EnvInit => EnvTypeOK
  BY DEF EnvInit, EnvTypeOK

(* A value stored in a copy leaves it an array of values. *)
LEMMA StoredFacts ==
  ASSUME EnvTypeOK, sysenv # Unset, NEW co \in Co,
         NEW i \in DOMAIN sysenv, NEW v \in Value \cup {Unset}
  PROVE  /\ [Copy(co) EXCEPT ![i] = v] \in Values
         /\ [Copy(co) EXCEPT ![i] = v] # Unset
         /\ [Copy(co) EXCEPT ![i] = v] \in [DOMAIN sysenv -> Value \cup {Unset}]
<1>1. PICK n \in 0 .. MaxList : DOMAIN sysenv = 1 .. n
  <2>1. sysenv \in Arrays
    BY DEF EnvTypeOK
  <2> QED
    BY <2>1 DEF Arrays
<1>2. [Copy(co) EXCEPT ![i] = v] \in [DOMAIN sysenv -> Value \cup {Unset}]
  <2>1. Copy(co) \in [DOMAIN sysenv -> Value \cup {Unset}]
    BY CopyFacts
  <2> QED
    BY <2>1
<1>3. [Copy(co) EXCEPT ![i] = v] \in Values
  BY <1>1, <1>2 DEF Values
<1> QED
  BY <1>2, <1>3, NameAssumption, UnsetAssumption

(* A step that gives co the array a keeps the types. *)
LEMMA ArrayTyped ==
  ASSUME EnvTypeOK, sysenv # Unset, NEW co \in Co, NEW a \in Values,
         DOMAIN a = DOMAIN sysenv, pvEnv' = [pvEnv EXCEPT ![co] = a], sysenv' = sysenv
  PROVE  /\ pvEnv' \in [Co -> Values \cup {Unset}]
         /\ \A c \in Co : pvEnv'[c] # Unset => sysenv' # Unset /\ DOMAIN pvEnv'[c] = DOMAIN sysenv'
<1>1. pvEnv \in [Co -> Values \cup {Unset}]
      /\ \A c \in Co : pvEnv[c] # Unset => sysenv # Unset /\ DOMAIN pvEnv[c] = DOMAIN sysenv
  BY DEF EnvTypeOK
<1> QED
  BY <1>1

LEMMA EnvStep ==
  ASSUME EnvTypeOK, [EnvNext]_envVars
  PROVE  EnvTypeOK'
<1>0. /\ sysenv \in Arrays \cup {Unset}
      /\ sysenv # Unset => \A i, j \in DOMAIN sysenv : i < j => sysenv[i] < sysenv[j]
      /\ pvEnv \in [Co -> Values \cup {Unset}]
      /\ \A co \in Co : pvEnv[co] # Unset => sysenv # Unset /\ DOMAIN pvEnv[co] = DOMAIN sysenv
      /\ shared \in [Name -> Value \cup {Unset}]
      /\ got \in Value \cup {Unset}
  BY DEF EnvTypeOK
<1>1. ASSUME NEW len \in 0 .. MaxList, NEW name \in [1 .. len -> 0 .. MaxName],
             co_set_env_list(name)
      PROVE  EnvTypeOK'
  <2>1. sysenv = Unset /\ sysenv' = Made(name) /\ UNCHANGED <<pvEnv, shared, got>>
    BY <1>1 DEF co_set_env_list, Made
  <2>2. /\ sysenv' \in Arrays
        /\ \A i, j \in DOMAIN sysenv' : i < j => sysenv'[i] < sysenv'[j]
    BY <2>1, MadeFacts
  <2>3. \A co \in Co : pvEnv'[co] = Unset
    BY <1>0, <2>1
  <2> QED
    BY <1>0, <2>1, <2>2, <2>3 DEF EnvTypeOK
<1>2. ASSUME NEW co \in Co, NEW n \in Name, getenv(co, n)
      PROVE  EnvTypeOK'
  <2>1. /\ pvEnv' = IF sysenv = Unset THEN pvEnv ELSE [pvEnv EXCEPT ![co] = Copy(co)]
        /\ got' = IF Place(n) > 0 THEN Copy(co)[Place(n)] ELSE shared[n]
        /\ sysenv' = sysenv /\ shared' = shared
    BY <1>2 DEF getenv, Place
  <2>2. got' \in Value \cup {Unset}
    <3>1. CASE Place(n) = 0
      BY <1>0, <2>1, <3>1
    <3>2. CASE Place(n) # 0
      <4>1. Place(n) > 0 /\ sysenv # Unset /\ Place(n) \in DOMAIN sysenv
        BY <3>2, PlaceFacts
      <4>2. Copy(co) \in [DOMAIN sysenv -> Value \cup {Unset}]
        BY <4>1, CopyFacts
      <4> QED
        BY <2>1, <4>1, <4>2
    <3> QED
      BY <3>1, <3>2
  <2>3. CASE sysenv = Unset
    BY <1>0, <2>1, <2>2, <2>3 DEF EnvTypeOK
  <2>4. CASE sysenv # Unset
    <3>1. Copy(co) \in Values /\ DOMAIN Copy(co) = DOMAIN sysenv
      BY <2>4, CopyFacts
    <3>2. /\ pvEnv' \in [Co -> Values \cup {Unset}]
          /\ \A c \in Co : pvEnv'[c] # Unset => sysenv' # Unset /\ DOMAIN pvEnv'[c] = DOMAIN sysenv'
      BY <2>1, <2>4, <3>1, ArrayTyped
    <3> QED
      BY <1>0, <2>1, <2>2, <3>2 DEF EnvTypeOK
  <2> QED
    BY <2>3, <2>4
<1>3. ASSUME NEW co \in Co, NEW n \in Name, NEW v \in Value \cup {Unset}, NEW put \in BOOLEAN,
             pvEnv' = IF sysenv = Unset THEN pvEnv
                      ELSE [pvEnv EXCEPT ![co] =
                              IF Place(n) > 0 /\ put THEN [Copy(co) EXCEPT ![Place(n)] = v]
                              ELSE Copy(co)],
             shared' = shared \/ shared' = [shared EXCEPT ![n] = v],
             UNCHANGED <<sysenv, got>>
      PROVE  EnvTypeOK'
  <2>1. shared' \in [Name -> Value \cup {Unset}]
    BY <1>0, <1>3
  <2>2. CASE sysenv = Unset
    BY <1>0, <1>3, <2>1, <2>2 DEF EnvTypeOK
  <2>3. CASE sysenv # Unset
    <3> DEFINE a == IF Place(n) > 0 /\ put THEN [Copy(co) EXCEPT ![Place(n)] = v]
                    ELSE Copy(co)
    <3>1. a \in Values /\ DOMAIN a = DOMAIN sysenv
      <4>1. CASE Place(n) > 0 /\ put
        <5>1. Place(n) # 0
          BY <4>1
        <5>2. Place(n) \in DOMAIN sysenv
          BY <5>1, PlaceFacts
        <5> QED
          BY <2>3, <4>1, <5>2, StoredFacts
      <4>2. CASE ~(Place(n) > 0 /\ put)
        BY <2>3, <4>2, CopyFacts
      <4> QED
        BY <4>1, <4>2
    <3>2. pvEnv' = [pvEnv EXCEPT ![co] = a]
      BY <1>3, <2>3
    <3> HIDE DEF a
    <3>3. /\ pvEnv' \in [Co -> Values \cup {Unset}]
          /\ \A c \in Co : pvEnv'[c] # Unset => sysenv' # Unset /\ DOMAIN pvEnv'[c] = DOMAIN sysenv'
      BY <1>3, <2>3, <3>1, <3>2, ArrayTyped
    <3> QED
      BY <1>0, <1>3, <2>1, <3>3 DEF EnvTypeOK
  <2> QED
    BY <2>2, <2>3
<1>4. ASSUME NEW co \in Co, NEW n \in Name, unsetenv(co, n)
      PROVE  EnvTypeOK'
  <2>1. /\ pvEnv' = IF sysenv = Unset THEN pvEnv
                    ELSE [pvEnv EXCEPT ![co] = IF Place(n) > 0 THEN [Copy(co) EXCEPT ![Place(n)] = Unset]
                                               ELSE Copy(co)]
        /\ shared' = shared \/ shared' = [shared EXCEPT ![n] = Unset]
        /\ UNCHANGED <<sysenv, got>>
    BY <1>4 DEF unsetenv, Place
  <2>2. pvEnv' = IF sysenv = Unset THEN pvEnv
                 ELSE [pvEnv EXCEPT ![co] = IF Place(n) > 0 /\ TRUE THEN [Copy(co) EXCEPT ![Place(n)] = Unset]
                                            ELSE Copy(co)]
    BY <2>1
  <2> QED
    BY <1>3, <2>1, <2>2
<1>5. ASSUME NEW co \in Co, NEW n \in Name, NEW v \in Value, NEW overwrite \in BOOLEAN,
             setenv(co, n, v, overwrite)
      PROVE  EnvTypeOK'
  <2> DEFINE put == overwrite \/ Copy(co)[Place(n)] = Unset
  <2>1. /\ pvEnv' = IF sysenv = Unset THEN pvEnv
                    ELSE [pvEnv EXCEPT ![co] = IF Place(n) > 0 /\ put THEN [Copy(co) EXCEPT ![Place(n)] = v]
                                               ELSE Copy(co)]
        /\ shared' = shared \/ shared' = [shared EXCEPT ![n] = v]
        /\ UNCHANGED <<sysenv, got>>
    BY <1>5 DEF setenv, Place
  <2>2. put \in BOOLEAN /\ v \in Value \cup {Unset}
    OBVIOUS
  <2> HIDE DEF put
  <2> QED
    BY <1>3, <2>1, <2>2
<1>6. CASE UNCHANGED envVars
  BY <1>0, <1>6 DEF envVars, EnvTypeOK
<1> QED
  BY <1>1, <1>2, <1>4, <1>5, <1>6 DEF EnvNext

LEMMA PrivValue ==
  ASSUME EnvTypeOK, NEW co \in Co, NEW n \in Name
  PROVE  Priv[co][n] = IF Place(n) = 0 \/ pvEnv[co] = Unset THEN Unset ELSE pvEnv[co][Place(n)]
<1>1. Priv[co][n] = IF n \notin Names \/ pvEnv[co] = Unset THEN Unset
                    ELSE pvEnv[co][CHOOSE i \in DOMAIN sysenv : sysenv[i] = n]
  BY DEF Priv
<1>2. CASE Place(n) = 0
  <2>1. n \notin Names
    BY <1>2, PlaceFacts
  <2> QED
    BY <1>1, <1>2, <2>1
<1>3. CASE Place(n) # 0
  <2>1. n \in Names /\ (CHOOSE i \in DOMAIN sysenv : sysenv[i] = n) = Place(n)
    BY <1>3, PlaceFacts
  <2> QED
    BY <1>1, <1>3, <2>1
<1> QED
  BY <1>2, <1>3

PrivRead ==
  \A co \in Co, n \in Name :
    Priv[co][n] = IF Place(n) = 0 \/ pvEnv[co] = Unset THEN Unset ELSE pvEnv[co][Place(n)]

LEMMA PrivValues == EnvTypeOK => PrivRead
  BY PrivValue DEF PrivRead

LEMMA PrivValuesNext == EnvTypeOK' => PrivRead'
  BY PrivValues, PTL

LEMMA PrivValueNext ==
  ASSUME EnvTypeOK', NEW co \in Co, NEW n \in Name
  PROVE  Priv'[co][n] = IF Place(n)' = 0 \/ pvEnv'[co] = Unset THEN Unset ELSE pvEnv'[co][Place(n)']
<1>1. PrivRead'
  BY PrivValuesNext
<1> QED
  BY <1>1 DEF PrivRead

(* What a coroutine reads in its copy is its private variable. *)
LEMMA CopyValue ==
  ASSUME EnvTypeOK, NEW co \in Co, NEW n \in Name, Place(n) # 0
  PROVE  Copy(co)[Place(n)] = Priv[co][n]
<1>1. sysenv # Unset /\ Place(n) \in DOMAIN sysenv
  BY PlaceFacts
<1>2. Priv[co][n] = IF pvEnv[co] = Unset THEN Unset ELSE pvEnv[co][Place(n)]
  BY PrivValue
<1> QED
  BY <1>1, <1>2 DEF Copy

(* Taking a copy changes no private variable. *)
LEMMA CopiedPriv ==
  ASSUME EnvTypeOK, EnvTypeOK', sysenv' = sysenv, NEW co \in Co,
         pvEnv' = IF sysenv = Unset THEN pvEnv ELSE [pvEnv EXCEPT ![co] = Copy(co)]
  PROVE  Priv' = Priv
<1>1. pvEnv \in [Co -> Values \cup {Unset}]
  BY DEF EnvTypeOK
<1>2. ASSUME NEW c \in Co, NEW n \in Name PROVE Priv'[c][n] = Priv[c][n]
  <2>1. Place(n)' = Place(n)
    BY DEF Place, bsearch
  <2>2. Priv[c][n] = IF Place(n) = 0 \/ pvEnv[c] = Unset THEN Unset ELSE pvEnv[c][Place(n)]
    BY PrivValue
  <2>3. Priv'[c][n] = IF Place(n) = 0 \/ pvEnv'[c] = Unset THEN Unset ELSE pvEnv'[c][Place(n)]
    BY <2>1, PrivValueNext
  <2>4. CASE Place(n) = 0 \/ sysenv = Unset \/ c # co
    BY <1>1, <2>2, <2>3, <2>4
  <2>5. CASE Place(n) # 0 /\ sysenv # Unset /\ c = co
    <3>1. pvEnv'[co] = Copy(co) /\ Copy(co) # Unset
      BY <1>1, <2>5, CopyFacts
    <3>2. Copy(co)[Place(n)] = Priv[co][n]
      BY <2>5, CopyValue
    <3> QED
      BY <2>3, <2>5, <3>1, <3>2
  <2> QED
    BY <2>4, <2>5
<1>3. Priv = [c \in Co |-> [n \in Name |-> Priv[c][n]]]
      /\ Priv' = [c \in Co |-> [n \in Name |-> Priv'[c][n]]]
  BY DEF Priv
<1>4. [c \in Co |-> [n \in Name |-> Priv'[c][n]]] = [c \in Co |-> [n \in Name |-> Priv[c][n]]]
  BY <1>2
<1> QED
  BY <1>3, <1>4

(* Storing v in the copy of co sets its private variable n. *)
LEMMA StoredPriv ==
  ASSUME EnvTypeOK, EnvTypeOK', sysenv' = sysenv, NEW co \in Co,
         NEW n \in Name, NEW v \in Value \cup {Unset}, Place(n) # 0,
         pvEnv' = [pvEnv EXCEPT ![co] = [Copy(co) EXCEPT ![Place(n)] = v]]
  PROVE  Priv' = [Priv EXCEPT ![co][n] = v]
<1> DEFINE a == [Copy(co) EXCEPT ![Place(n)] = v]
<1>1. pvEnv \in [Co -> Values \cup {Unset}]
  BY DEF EnvTypeOK
<1>2. sysenv # Unset /\ Place(n) \in DOMAIN sysenv /\ sysenv[Place(n)] = n
  BY PlaceFacts
<1>3. /\ a # Unset /\ a[Place(n)] = v
      /\ \A i \in DOMAIN sysenv : i # Place(n) => a[i] = Copy(co)[i]
  <2>1. Copy(co) \in [DOMAIN sysenv -> Value \cup {Unset}] /\ a # Unset
    BY <1>2, CopyFacts, StoredFacts
  <2> QED
    BY <1>2, <2>1
<1>4. pvEnv'[co] = a /\ \A c \in Co : c # co => pvEnv'[c] = pvEnv[c]
  BY <1>1
<1> HIDE DEF a
<1>5. ASSUME NEW c \in Co, NEW m \in Name
      PROVE  Priv'[c][m] = IF c = co /\ m = n THEN v ELSE Priv[c][m]
  <2>1. Place(m)' = Place(m)
    BY DEF Place, bsearch
  <2>2. Priv[c][m] = IF Place(m) = 0 \/ pvEnv[c] = Unset THEN Unset ELSE pvEnv[c][Place(m)]
    BY PrivValue
  <2>3. Priv'[c][m] = IF Place(m) = 0 \/ pvEnv'[c] = Unset THEN Unset ELSE pvEnv'[c][Place(m)]
    BY <2>1, PrivValueNext
  <2>4. CASE c # co \/ Place(m) = 0
    BY <1>4, <2>2, <2>3, <2>4
  <2>5. CASE c = co /\ Place(m) # 0
    <3>1. Priv'[c][m] = a[Place(m)]
      BY <1>3, <1>4, <2>3, <2>5
    <3>2. CASE m = n
      BY <1>3, <2>5, <3>1, <3>2
    <3>3. CASE m # n
      <4>1. Place(m) \in DOMAIN sysenv /\ sysenv[Place(m)] = m
        BY <2>5, PlaceFacts
      <4>2. Place(m) # Place(n)
        BY <1>2, <3>3, <4>1
      <4>3. Copy(co)[Place(m)] = Priv[co][m]
        BY <2>5, CopyValue
      <4> QED
        BY <1>3, <2>5, <3>1, <3>3, <4>1, <4>2, <4>3
    <3> QED
      BY <3>2, <3>3
  <2> QED
    BY <2>4, <2>5
<1>6. Priv = [c \in Co |-> [m \in Name |-> Priv[c][m]]]
      /\ Priv' = [c \in Co |-> [m \in Name |-> Priv'[c][m]]]
  BY DEF Priv
<1> DEFINE q == [Priv EXCEPT ![co][n] = v]
<1>7. q = [c \in Co |-> [m \in Name |-> IF c = co /\ m = n THEN v ELSE Priv[c][m]]]
  BY <1>6
<1> HIDE DEF q
<1>8. Priv' = [c \in Co |-> [m \in Name |-> IF c = co /\ m = n THEN v ELSE Priv[c][m]]]
  BY <1>5, <1>6
<1> QED
  BY <1>7, <1>8 DEF q

---------------------------------------------------------------------------
LEMMA EnvInitMaps == EnvInit => Private!Init
<1> SUFFICES ASSUME EnvInit PROVE Private!Init
  OBVIOUS
<1>1. Names = {}
  BY DEF EnvInit, Names
<1>2. Priv = [co \in Co |-> [n \in Name |-> Unset]]
  BY <1>1 DEF Priv
<1> QED
  BY <1>1, <1>2 DEF EnvInit, Private!Init, Private!Env, Priv

LEMMA EnvStepMaps ==
  ASSUME EnvTypeOK, EnvTypeOK', [EnvNext]_envVars
  PROVE  [Private!Next]_Private!vars
<1>1. ASSUME NEW len \in 0 .. MaxList, NEW name \in [1 .. len -> 0 .. MaxName],
             co_set_env_list(name)
      PROVE  Private!SetList
  <2>1. sysenv = Unset /\ UNCHANGED <<pvEnv, shared, got>>
    BY <1>1 DEF co_set_env_list
  <2>2. Names = {}
    BY <2>1 DEF Names
  <2>3. Names' \in SUBSET Name
    <3>1. CASE sysenv' = Unset
      BY <3>1 DEF Names
    <3>2. CASE sysenv' # Unset
      <4>1. sysenv' \in Arrays
        BY <3>2 DEF EnvTypeOK
      <4>2. \A i \in DOMAIN sysenv' : sysenv'[i] \in Name
        BY <4>1 DEF Arrays
      <4> QED
        BY <3>2, <4>2 DEF Names
    <3> QED
      BY <3>1, <3>2
  <2>4. Priv' = Priv
    <3>1. \A co \in Co : pvEnv[co] = Unset /\ pvEnv'[co] = Unset
      BY <2>1 DEF EnvTypeOK
    <3>2. Priv = [co \in Co |-> [n \in Name |-> Unset]]
      BY <3>1 DEF Priv
    <3>3. Priv' = [co \in Co |-> [n \in Name |-> Unset]]
      BY <3>1 DEF Priv
    <3> QED
      BY <3>2, <3>3
  <2> QED
    BY <2>1, <2>2, <2>3, <2>4 DEF Private!SetList, Priv
<1>2. ASSUME NEW co \in Co, NEW n \in Name, getenv(co, n)
      PROVE  Private!Get(co, n)
  <2>1. /\ pvEnv' = IF sysenv = Unset THEN pvEnv ELSE [pvEnv EXCEPT ![co] = Copy(co)]
        /\ got' = IF Place(n) > 0 THEN Copy(co)[Place(n)] ELSE shared[n]
        /\ sysenv' = sysenv /\ shared' = shared
    BY <1>2 DEF getenv, Place
  <2>2. Priv' = Priv
    BY <2>1, CopiedPriv
  <2>3. Names' = Names
    BY <2>1 DEF Names
  <2>4. got' = IF n \in Names THEN Priv[co][n] ELSE shared[n]
    <3>1. CASE Place(n) = 0
      <4>1. n \notin Names
        BY <3>1, PlaceFacts
      <4> QED
        BY <2>1, <3>1, <4>1
    <3>2. CASE Place(n) # 0
      <4>1. n \in Names /\ Place(n) > 0
        BY <3>2, PlaceFacts
      <4> QED
        BY <2>1, <3>2, <4>1, CopyValue
    <3> QED
      BY <3>1, <3>2
  <2> QED
    BY <2>1, <2>2, <2>3, <2>4 DEF Private!Get, Priv
<1>3. ASSUME NEW co \in Co, NEW n \in Name, NEW v \in Value \cup {Unset}, NEW old \in BOOLEAN,
             sysenv' = sysenv, got' = got,
             pvEnv' = IF sysenv = Unset THEN pvEnv
                      ELSE [pvEnv EXCEPT ![co] =
                              IF Place(n) > 0 /\ (~old \/ Copy(co)[Place(n)] = Unset)
                              THEN [Copy(co) EXCEPT ![Place(n)] = v] ELSE Copy(co)],
             shared' = IF Place(n) = 0 /\ (~old \/ shared[n] = Unset)
                       THEN [shared EXCEPT ![n] = v] ELSE shared
      PROVE  Private!Set(co, n, v, old)
  <2>1. Names' = Names
    BY <1>3 DEF Names
  <2>2. CASE Place(n) = 0
    <3>1. n \notin Names
      BY <2>2, PlaceFacts
    <3>2. pvEnv' = IF sysenv = Unset THEN pvEnv ELSE [pvEnv EXCEPT ![co] = Copy(co)]
      BY <1>3, <2>2
    <3>3. Priv' = Priv
      BY <1>3, <3>2, CopiedPriv
    <3>4. shared' = IF old /\ shared[n] # Unset THEN shared ELSE [shared EXCEPT ![n] = v]
      BY <1>3, <2>2
    <3> QED
      BY <1>3, <2>1, <3>1, <3>3, <3>4 DEF Private!Set, Priv
  <2>3. CASE Place(n) # 0
    <3>1. n \in Names /\ Place(n) > 0 /\ sysenv # Unset
      BY <2>3, PlaceFacts
    <3>2. shared' = shared
      BY <1>3, <2>3
    <3>3. Priv' = IF old /\ Priv[co][n] # Unset THEN Priv ELSE [Priv EXCEPT ![co][n] = v]
      <4>1. Copy(co)[Place(n)] = Priv[co][n]
        BY <2>3, CopyValue
      <4>2. CASE old /\ Priv[co][n] # Unset
        <5>1. pvEnv' = IF sysenv = Unset THEN pvEnv ELSE [pvEnv EXCEPT ![co] = Copy(co)]
          BY <1>3, <4>1, <4>2
        <5>2. Priv' = Priv
          BY <1>3, <5>1, CopiedPriv
        <5> QED
          BY <4>2, <5>2
      <4>3. CASE ~(old /\ Priv[co][n] # Unset)
        <5>1. pvEnv' = [pvEnv EXCEPT ![co] = [Copy(co) EXCEPT ![Place(n)] = v]]
          BY <1>3, <3>1, <4>1, <4>3
        <5>2. Priv' = [Priv EXCEPT ![co][n] = v]
          BY <1>3, <2>3, <5>1, StoredPriv
        <5> QED
          BY <4>3, <5>2
      <4> QED
        BY <4>2, <4>3
    <3> QED
      BY <1>3, <2>1, <3>1, <3>2, <3>3 DEF Private!Set, Priv
  <2> QED
    BY <2>2, <2>3
<1>4. ASSUME NEW co \in Co, NEW n \in Name, unsetenv(co, n)
      PROVE  Private!Set(co, n, Unset, FALSE)
  <2>1. /\ pvEnv' = IF sysenv = Unset THEN pvEnv
                    ELSE [pvEnv EXCEPT ![co] = IF Place(n) > 0 THEN [Copy(co) EXCEPT ![Place(n)] = Unset]
                                               ELSE Copy(co)]
        /\ shared' = IF Place(n) = 0 THEN [shared EXCEPT ![n] = Unset] ELSE shared
        /\ sysenv' = sysenv /\ got' = got
    BY <1>4 DEF unsetenv, Place
  <2>2. pvEnv' = IF sysenv = Unset THEN pvEnv
                 ELSE [pvEnv EXCEPT ![co] =
                         IF Place(n) > 0 /\ (~FALSE \/ Copy(co)[Place(n)] = Unset)
                         THEN [Copy(co) EXCEPT ![Place(n)] = Unset] ELSE Copy(co)]
    BY <2>1
  <2>3. shared' = IF Place(n) = 0 /\ (~FALSE \/ shared[n] = Unset)
                  THEN [shared EXCEPT ![n] = Unset] ELSE shared
    BY <2>1
  <2>4. FALSE \in BOOLEAN /\ Unset \in Value \cup {Unset}
    OBVIOUS
  <2> QED
    BY <1>3, <2>1, <2>2, <2>3, <2>4
<1>5. ASSUME NEW co \in Co, NEW n \in Name, NEW v \in Value, NEW overwrite \in BOOLEAN,
             setenv(co, n, v, overwrite)
      PROVE  Private!Set(co, n, v, ~overwrite)
  <2> DEFINE old == ~overwrite
  <2>1. /\ pvEnv' = IF sysenv = Unset THEN pvEnv
                    ELSE [pvEnv EXCEPT ![co] =
                            IF Place(n) > 0 /\ (overwrite \/ Copy(co)[Place(n)] = Unset)
                            THEN [Copy(co) EXCEPT ![Place(n)] = v] ELSE Copy(co)]
        /\ shared' = IF Place(n) = 0 /\ (overwrite \/ shared[n] = Unset)
                     THEN [shared EXCEPT ![n] = v] ELSE shared
        /\ sysenv' = sysenv /\ got' = got
    BY <1>5 DEF setenv, Place
  <2>2. old \in BOOLEAN /\ (~old <=> overwrite) /\ v \in Value \cup {Unset}
    OBVIOUS
  <2> HIDE DEF old
  <2>3. pvEnv' = IF sysenv = Unset THEN pvEnv
                 ELSE [pvEnv EXCEPT ![co] =
                         IF Place(n) > 0 /\ (~old \/ Copy(co)[Place(n)] = Unset)
                         THEN [Copy(co) EXCEPT ![Place(n)] = v] ELSE Copy(co)]
    BY <2>1, <2>2
  <2>4. shared' = IF Place(n) = 0 /\ (~old \/ shared[n] = Unset)
                  THEN [shared EXCEPT ![n] = v] ELSE shared
    BY <2>1, <2>2
  <2>5. Private!Set(co, n, v, old)
    BY <1>3, <2>1, <2>2, <2>3, <2>4
  <2> QED
    BY <2>5 DEF old
<1>6. CASE UNCHANGED envVars
  BY <1>6 DEF envVars, Private!vars, Names
<1> QED
  <2>1. CASE UNCHANGED envVars
    BY <1>6, <2>1
  <2>2. CASE \E len \in 0 .. MaxList : \E name \in [1 .. len -> 0 .. MaxName] : co_set_env_list(name)
    <3>1. Private!SetList
      BY <1>1, <2>2
    <3> QED
      BY <3>1 DEF Private!Next
  <2>3. ASSUME NEW co \in Co, NEW n \in Name, getenv(co, n)
        PROVE  Private!Next
    BY <1>2, <2>3 DEF Private!Next
  <2>4. ASSUME NEW co \in Co, NEW n \in Name, unsetenv(co, n)
        PROVE  Private!Next
    BY <1>4, <2>4 DEF Private!Next
  <2>5. ASSUME NEW co \in Co, NEW n \in Name, NEW v \in Value, NEW overwrite \in BOOLEAN,
               setenv(co, n, v, overwrite)
        PROVE  Private!Next
    <3>1. Private!Set(co, n, v, ~overwrite)
      BY <1>5, <2>5
    <3> DEFINE old == ~overwrite
    <3>2. old \in BOOLEAN
      BY overwrite = TRUE \/ overwrite = FALSE
    <3>3. Private!Set(co, n, v, old) /\ v \in Value \cup {Unset}
      BY <3>1
    <3> HIDE DEF old
    <3> QED
      BY <3>2, <3>3 DEF Private!Next
  <2> QED
    BY <2>1, <2>2, <2>3, <2>4, <2>5 DEF EnvNext

(* Of a list of any length, with repetitions and empty names in any places, *)
(* co_set_env_list keeps exactly the names that are not empty, each once    *)
(* and in order: its qsort and its loop with lp and lq.                     *)
THEOREM ListCorrect ==
  ASSUME NEW len \in 0 .. MaxList, NEW name \in [1 .. len -> 0 .. MaxName],
         co_set_env_list(name)
  PROVE  /\ {sysenv'[i] : i \in DOMAIN sysenv'} = {name[i] : i \in 1 .. len} \ {0}
         /\ \A i, j \in DOMAIN sysenv' : i < j => sysenv'[i] < sysenv'[j]
<1>1. sysenv' = Made(name)
  BY Zenon DEF co_set_env_list, Made
<1>2. /\ {Made(name)[i] : i \in DOMAIN Made(name)} = {name[i] : i \in 1 .. len} \ {0}
      /\ \A i, j \in DOMAIN Made(name) : i < j => Made(name)[i] < Made(name)[j]
  BY MadeFacts
<1> QED
  BY <1>1, <1>2, Zenon

(* The types of the environment: the names that bsearch searches are sorted, *)
(* and a coroutine's array has a value for each (co_set_env_list, setenv,    *)
(* unsetenv, getenv).                                                        *)
THEOREM EnvTypeCorrect == EnvSpec => []EnvTypeOK
<1>1. EnvInit => EnvTypeOK
  BY NoListTyped
<1>2. EnvTypeOK /\ [EnvNext]_envVars => EnvTypeOK'
  BY EnvStep
<1> QED
  BY <1>1, <1>2, PTL DEF EnvSpec

(* A listed variable is private to a coroutine and any other is the          *)
(* process's: setenv, unsetenv and getenv on the sorted arrays, with the     *)
(* copy at a coroutine's first call and bsearch, do what PrivateEnv says.    *)
THEOREM PrivateCorrect == EnvSpec => PrivateSpec
<1>1. EnvInit => Private!Init
  BY EnvInitMaps
<1>2. EnvTypeOK /\ EnvTypeOK' /\ [EnvNext]_envVars => [Private!Next]_Private!vars
  BY EnvStepMaps
<1>3. EnvSpec => []EnvTypeOK
  BY EnvTypeCorrect
<1> QED
  BY <1>1, <1>2, <1>3, PTL DEF EnvSpec, PrivateSpec, Private!Spec

---------------------------------------------------------------------------
(* The hash ring.                                                          *)
LEMMA MinIs ==
  ASSUME NEW S \in SUBSET Nat, NEW x \in S, \A y \in S : x <= y
  PROVE  Min(S) = x
<1>1. \A z \in S : (\A y \in S : z <= y) => z = x
  <2> SUFFICES ASSUME NEW z \in S, \A y \in S : z <= y PROVE z = x
    OBVIOUS
  <2>1. z <= x /\ x <= z /\ z \in Nat /\ x \in Nat
    OBVIOUS
  <2> QED
    BY <2>1
<1> QED
  BY <1>1, Zenon DEF Min

(* The point c of points is where the key h belongs. *)
Successor(points, h, c) ==
  /\ c \in points
  /\ \/ c >= h /\ \A p \in points : p >= h => c <= p
     \/ \A p \in points : ~(p >= h) /\ c <= p

LEMMA ClockwiseIs ==
  ASSUME NEW D \in SUBSET Nat, NEW h \in Nat, NEW c, Successor(D, h, c)
  PROVE  Clockwise(D, h) = c
<1> DEFINE after == {p \in D : p >= h}
<1>1. CASE c >= h /\ \A p \in D : p >= h => c <= p
  <2>1. after \in SUBSET Nat /\ c \in after /\ \A p \in after : c <= p
    BY <1>1 DEF Successor
  <2>2. Min(after) = c /\ after # {}
    <3> HIDE DEF after
    <3> QED
      BY <2>1, MinIs
  <2> QED
    BY <2>2, Zenon DEF Clockwise
<1>2. CASE \A p \in D : ~(p >= h) /\ c <= p
  <2>1. after = {} /\ c \in D
    BY <1>2 DEF Successor
  <2>2. Min(D) = c
    BY <1>2, <2>1, MinIs
  <2> QED
    BY <2>1, <2>2, Zenon DEF Clockwise
<1> QED
  BY <1>1, <1>2 DEF Successor

LEMMA ClockwiseFacts ==
  ASSUME NEW D \in SUBSET Nat, D # {}, NEW h \in Nat
  PROVE  Successor(D, h, Clockwise(D, h))
<1>1. \E c : Successor(D, h, c)
  <2>1. CASE \E p \in D : p >= h
    <3> DEFINE after == {p \in D : p >= h}
    <3>1. after \in SUBSET Nat /\ after # {}
      BY <2>1
    <3>2. PICK c \in after : \A p \in after : c <= p
      <4> HIDE DEF after
      <4> QED
        BY <3>1, SmallestNat
    <3>3. c \in D /\ c >= h /\ \A p \in D : p >= h => c <= p
      BY <3>2
    <3> QED
      BY <3>3 DEF Successor
  <2>2. CASE ~ \E p \in D : p >= h
    <3>1. PICK c \in D : \A p \in D : c <= p
      BY SmallestNat
    <3> QED
      BY <2>2, <3>1 DEF Successor
  <2> QED
    BY <2>1, <2>2
<1>2. PICK c : Successor(D, h, c)
  BY <1>1
<1>3. Clockwise(D, h) = c
  BY <1>2, ClockwiseIs
<1> QED
  BY <1>2, <1>3

---------------------------------------------------------------------------
(* Get on an index in order: how far the search goes, and what it finds.    *)
NonDecreasing(s) == \A i, j \in 1 .. Len(s) : i < j => s[i] <= s[j]

LEMMA SearchFacts ==
  ASSUME hashSortNodes \in Seq(0 .. MAXI), hashSortNodes # <<>>,
         NonDecreasing(hashSortNodes), NEW h \in 0 .. MAXI
  PROVE  /\ searchByIndex(h) + 1 \in 1 .. Len(hashSortNodes)
         /\ Successor(Range(hashSortNodes), h, hashSortNodes[searchByIndex(h) + 1])
<1> DEFINE s == hashSortNodes
           n == Len(s)
           k == SortSearch(s, h)
           i == searchByIndex(h)
<1>1. /\ n \in Nat /\ n > 0 /\ DOMAIN s = 1 .. n /\ \A j \in 1 .. n : s[j] \in 0 .. MAXI
      /\ MAXI \in Nat /\ h \in Int
  BY SizeAssumption
<1>2. k \in 0 .. n /\ \A j \in 1 .. n : j <= k <=> s[j] < h
  <2>1. s \in Seq(0 .. MAXI) /\ \A a, b \in 1 .. Len(s) : a < b => s[a] <= s[b]
    BY DEF NonDecreasing
  <2> HIDE DEF s
  <2> QED
    BY <1>1, <2>1, SortSearchFacts
<1>3. i = IF k >= n THEN k % n ELSE k
  BY Zenon DEF searchByIndex
<1>4. Range(s) = {s[j] : j \in 1 .. n}
  BY <1>1 DEF Range
<1>5. \A a, b \in 1 .. n : a <= b => s[a] <= s[b]
  <2> SUFFICES ASSUME NEW a \in 1 .. n, NEW b \in 1 .. n, a <= b PROVE s[a] <= s[b]
    OBVIOUS
  <2>1. s[a] \in Int /\ s[b] \in Int
    BY <1>1
  <2>2. CASE a = b
    BY <2>1, <2>2
  <2>3. CASE a # b
    BY <2>3 DEF NonDecreasing
  <2> QED
    BY <2>2, <2>3
<1> HIDE DEF s, n, k, i
<1>6. CASE k = n
  <2>1. n % n = 0
    BY <1>1
  <2>2. i + 1 = 1 /\ 1 \in 1 .. n
    BY <1>1, <1>3, <1>6, <2>1
  <2>3. \A j \in 1 .. n : ~(s[j] >= h) /\ s[1] <= s[j]
    <3> SUFFICES ASSUME NEW j \in 1 .. n PROVE ~(s[j] >= h) /\ s[1] <= s[j]
      OBVIOUS
    <3>1. s[j] < h /\ s[j] \in Int
      BY <1>1, <1>2, <1>6
    <3>2. s[1] <= s[j]
      BY <1>1, <1>5, <2>2
    <3> QED
      BY <1>1, <3>1, <3>2
  <2>4. Successor(Range(s), h, s[i + 1])
    BY <1>4, <2>2, <2>3 DEF Successor
  <2> QED
    BY <2>2, <2>4 DEF s, n, i
<1>7. CASE k # n
  <2>1. i = k /\ k + 1 \in 1 .. n
    BY <1>1, <1>2, <1>3, <1>7
  <2>2. s[k + 1] >= h
    <3>1. ~(k + 1 <= k) /\ s[k + 1] \in Int
      BY <1>1, <1>2, <2>1
    <3>2. ~(s[k + 1] < h)
      BY <1>2, <2>1, <3>1
    <3> QED
      BY <1>1, <3>1, <3>2
  <2>3. \A j \in 1 .. n : s[j] >= h => s[k + 1] <= s[j]
    <3> SUFFICES ASSUME NEW j \in 1 .. n, s[j] >= h PROVE s[k + 1] <= s[j]
      OBVIOUS
    <3>1. ~(s[j] < h)
      BY <1>1
    <3>2. k + 1 <= j
      BY <1>2, <3>1
    <3> QED
      BY <1>5, <2>1, <3>2
  <2>4. Successor(Range(s), h, s[i + 1])
    BY <1>4, <2>1, <2>2, <2>3 DEF Successor
  <2> QED
    BY <2>1, <2>4 DEF s, n, i
<1> QED
  BY <1>6, <1>7

(* A node of the ring owns all its points, if no two points collide. *)
PointsOwned ==
  Injective => \A m \in nodes : \A p \in Points(m) : p \in DOMAIN circle /\ circle[p] = m

(* The index holds the points of the circle, in order. *)
RingInv ==
  /\ RingTypeOK
  /\ Range(hashSortNodes) = DOMAIN circle
  /\ NonDecreasing(hashSortNodes)
  /\ PointsOwned

LEMMA PointFacts ==
  ASSUME crc \in [Node \X Replicas -> Hash], NEW m \in Node
  PROVE  /\ ReplicaKeys(m) \in Seq(Hash) /\ Len(ReplicaKeys(m)) = nodesReplicas
         /\ Points(m) = {crc[<<m, i>>] : i \in Replicas}
         /\ Points(m) \in SUBSET Hash /\ Points(m) # {}
         /\ Points(m) = {ReplicaKeys(m)[i] : i \in 1 .. nodesReplicas}
<1> DEFINE r == ReplicaKeys(m)
<1>1. nodesReplicas \in Nat \ {0} /\ Replicas = 0 .. nodesReplicas - 1
  BY SizeAssumption DEF Replicas
<1>2. r = [i \in 1 .. nodesReplicas |-> crc[<<m, i - 1>>]]
  BY DEF ReplicaKeys, getReplicaKey
<1>3. /\ DOMAIN r = 1 .. nodesReplicas
      /\ \A i \in 1 .. nodesReplicas : i - 1 \in Replicas /\ r[i] = crc[<<m, i - 1>>]
  BY <1>1, <1>2
<1>4. r = [i \in 1 .. nodesReplicas |-> r[i]]
  BY <1>2, <1>3
<1>5. \A i \in 1 .. nodesReplicas : r[i] \in Hash
  BY <1>3
<1>6. Points(m) = {r[i] : i \in DOMAIN r}
  BY DEF Points, Range
<1> HIDE DEF r
<1>7. r \in Seq(Hash) /\ Len(r) = nodesReplicas
  BY <1>1, <1>4, <1>5, IndexedIsSeq
<1>8. Points(m) = {r[i] : i \in 1 .. nodesReplicas}
  BY <1>3, <1>6
<1>9. {r[i] : i \in 1 .. nodesReplicas} = {crc[<<m, i>>] : i \in Replicas}
  <2>1. ASSUME NEW i \in Replicas PROVE i + 1 \in 1 .. nodesReplicas /\ r[i + 1] = crc[<<m, i>>]
    <3>1. i + 1 \in 1 .. nodesReplicas /\ (i + 1) - 1 = i
      BY <1>1
    <3> QED
      BY <1>3, <3>1
  <2> QED
    BY <1>3, <2>1
<1>10. Points(m) # {} /\ Points(m) \in SUBSET Hash
  <2>1. 1 \in 1 .. nodesReplicas
    BY <1>1
  <2> QED
    BY <1>5, <1>8, <2>1
<1> QED
  BY <1>7, <1>8, <1>9, <1>10 DEF r

(* Points of different nodes are different, if no two points collide. *)
LEMMA PointsDiffer ==
  ASSUME crc \in [Node \X Replicas -> Hash], Injective,
         NEW m \in Node, NEW o \in Node, m # o, NEW p \in Points(m)
  PROVE  p \notin Points(o)
<1> SUFFICES ASSUME p \in Points(o) PROVE FALSE
  OBVIOUS
<1>0. /\ Points(m) = {crc[<<m, i>>] : i \in Replicas}
      /\ Points(o) = {crc[<<o, i>>] : i \in Replicas}
  BY PointFacts
<1>1. PICK i \in Replicas : p = crc[<<m, i>>]
  BY <1>0
<1>2. PICK j \in Replicas : p = crc[<<o, j>>]
  BY <1>0
<1>3. <<m, i>> \in DOMAIN crc /\ <<o, j>> \in DOMAIN crc
  OBVIOUS
<1>4. <<m, i>> = <<o, j>>
  BY <1>1, <1>2, <1>3 DEF Injective
<1> QED
  BY <1>4

LEMMA EmptyRing == ASSUME NewConsistent PROVE RingInv
<1>1. /\ crc \in [Node \X Replicas -> Hash]
      /\ nodes = {} /\ circle = <<>> /\ hashSortNodes = <<>>
  BY DEF NewConsistent
<1>2. DOMAIN circle = {} /\ hashSortNodes \in Seq(Hash) /\ Len(hashSortNodes) = 0
      /\ DOMAIN hashSortNodes = {}
  BY <1>1
<1>3. circle \in [DOMAIN circle -> nodes]
  BY <1>1
<1>4. RingTypeOK
  BY <1>1, <1>2, <1>3 DEF RingTypeOK
<1>5. Range(hashSortNodes) = DOMAIN circle
  BY <1>2 DEF Range
<1>6. NonDecreasing(hashSortNodes)
  BY <1>2 DEF NonDecreasing
<1> QED
  BY <1>1, <1>4, <1>5, <1>6 DEF RingInv, PointsOwned

LEMMA RingAdd ==
  ASSUME RingInv, NEW m \in Node, AddNode(m)
  PROVE  RingInv'
<1> DEFINE keys == ReplicaKeys(m)
           s == hashSortNodes \o keys
           t == Sorted(s)
<1>1. /\ m \notin nodes /\ nodes' = nodes \cup {m} /\ crc' = crc
      /\ circle' = [p \in Points(m) \cup DOMAIN circle |->
                      IF p \in Points(m) THEN m ELSE circle[p]]
      /\ hashSortNodes' = t
  BY Zenon DEF AddNode, CircleWith
<1>2. /\ crc \in [Node \X Replicas -> Hash] /\ nodes \subseteq Node
      /\ circle \in [DOMAIN circle -> nodes] /\ DOMAIN circle \subseteq Hash
      /\ hashSortNodes \in Seq(Hash)
      /\ Range(hashSortNodes) = DOMAIN circle
  BY DEF RingInv, RingTypeOK
<1>3. /\ keys \in Seq(Hash)
      /\ Points(m) = {keys[i] : i \in 1 .. Len(keys)}
      /\ Points(m) \in SUBSET Hash
  BY <1>2, PointFacts
<1> HIDE DEF keys
<1>4. /\ s \in Seq(Hash) /\ Len(s) = Len(hashSortNodes) + Len(keys)
      /\ Len(keys) \in Nat /\ Len(hashSortNodes) \in Nat
      /\ \A i \in 1 .. Len(hashSortNodes) : s[i] = hashSortNodes[i]
      /\ \A i \in 1 .. Len(keys) : s[Len(hashSortNodes) + i] = keys[i]
  BY <1>2, <1>3
<1>5. {s[i] : i \in 1 .. Len(s)} = DOMAIN circle \cup Points(m)
  <2>0. DOMAIN hashSortNodes = 1 .. Len(hashSortNodes)
    BY <1>2
  <2>1. DOMAIN circle = {hashSortNodes[i] : i \in 1 .. Len(hashSortNodes)}
    BY <1>2, <2>0 DEF Range
  <2> HIDE DEF s
  <2>2. ASSUME NEW i \in 1 .. Len(s) PROVE s[i] \in DOMAIN circle \cup Points(m)
    <3>1. CASE i <= Len(hashSortNodes)
      BY <1>4, <2>1, <3>1
    <3>2. CASE ~(i <= Len(hashSortNodes))
      <4>1. i - Len(hashSortNodes) \in 1 .. Len(keys)
            /\ Len(hashSortNodes) + (i - Len(hashSortNodes)) = i
        BY <1>4, <3>2
      <4>2. s[i] = keys[i - Len(hashSortNodes)]
        BY <1>4, <4>1
      <4> QED
        BY <1>3, <4>1, <4>2
    <3> QED
      BY <3>1, <3>2
  <2>3. ASSUME NEW p \in DOMAIN circle PROVE \E i \in 1 .. Len(s) : s[i] = p
    <3>1. PICK i \in 1 .. Len(hashSortNodes) : p = hashSortNodes[i]
      BY <2>1
    <3>2. i \in 1 .. Len(s)
      BY <1>4
    <3> QED
      BY <1>4, <3>1, <3>2
  <2>4. ASSUME NEW p \in Points(m) PROVE \E i \in 1 .. Len(s) : s[i] = p
    <3>1. PICK i \in 1 .. Len(keys) : p = keys[i]
      BY <1>3
    <3>2. Len(hashSortNodes) + i \in 1 .. Len(s)
      BY <1>4
    <3> QED
      BY <1>4, <3>1, <3>2
  <2> QED
    BY <2>2, <2>3, <2>4
<1> HIDE DEF s
<1>6. /\ t \in Seq(Hash) /\ Len(t) = Len(s) /\ DOMAIN t = 1 .. Len(t)
      /\ \A i \in 1 .. Len(s) : \E j \in 1 .. Len(s) : t[i] = s[j]
      /\ \A j \in 1 .. Len(s) : \E i \in 1 .. Len(s) : t[i] = s[j]
      /\ \A i, j \in 1 .. Len(s) : i < j => t[i] <= t[j]
  <2>1. MAXI \in Nat /\ s \in Seq(0 .. MAXI) /\ Hash = 0 .. MAXI
    BY <1>4, SizeAssumption DEF Hash
  <2>2. /\ t \in Seq(0 .. MAXI) /\ Len(t) = Len(s)
        /\ \A i \in 1 .. Len(s) : \E j \in 1 .. Len(s) : t[i] = s[j]
        /\ \A j \in 1 .. Len(s) : \E i \in 1 .. Len(s) : t[i] = s[j]
        /\ \A i, j \in 1 .. Len(s) : i < j => t[i] <= t[j]
    BY <2>1, SortedFacts
  <2>3. DOMAIN t = 1 .. Len(t)
    <3> HIDE DEF t
    <3> QED
      BY <2>2
  <2> QED
    BY <2>1, <2>2, <2>3
<1> HIDE DEF t
<1>7. Range(hashSortNodes)' = DOMAIN circle'
  <2>1. {t[i] : i \in 1 .. Len(t)} = {s[i] : i \in 1 .. Len(s)}
    BY <1>6
  <2>2. DOMAIN circle' = Points(m) \cup DOMAIN circle
    BY <1>1
  <2>3. Range(hashSortNodes)' = {t[i] : i \in DOMAIN t}
    BY <1>1 DEF Range
  <2> QED
    BY <1>5, <1>6, <2>1, <2>2, <2>3
<1>8. NonDecreasing(hashSortNodes)'
  BY <1>1, <1>6 DEF NonDecreasing
<1>9. /\ DOMAIN circle' = Points(m) \cup DOMAIN circle
      /\ \A p \in Points(m) : circle'[p] = m
      /\ \A p \in DOMAIN circle \ Points(m) : circle'[p] = circle[p]
  BY <1>1
<1>10. RingTypeOK'
  <2>1. circle' \in [DOMAIN circle' -> nodes']
    <3>1. \A p \in DOMAIN circle' : circle'[p] \in nodes'
      BY <1>1, <1>2, <1>9
    <3>2. circle' = [p \in DOMAIN circle' |-> circle'[p]]
      BY <1>1
    <3> QED
      BY <3>1, <3>2
  <2>2. /\ crc' \in [Node \X Replicas -> Hash] /\ nodes' \subseteq Node
        /\ DOMAIN circle' \subseteq Hash /\ hashSortNodes' \in Seq(Hash)
    BY <1>1, <1>2, <1>3, <1>6, <1>9
  <2> QED
    BY <2>1, <2>2 DEF RingTypeOK, Hash, Replicas
<1>11. PointsOwned'
  <2>1. Injective' <=> Injective
    BY <1>1 DEF Injective
  <2>2. \A o : Points(o)' = Points(o)
    BY <1>1 DEF Points, ReplicaKeys, getReplicaKey, Range
  <2>3. ASSUME Injective, NEW o \in nodes', NEW p \in Points(o)
        PROVE  p \in DOMAIN circle' /\ circle'[p] = o
    <3>1. CASE o = m
      BY <1>9, <2>3, <3>1
    <3>2. CASE o # m
      <4>1. o \in nodes /\ o \in Node
        BY <1>1, <1>2, <3>2
      <4>2. p \notin Points(m)
        BY <1>2, <2>3, <3>2, <4>1, PointsDiffer
      <4>3. p \in DOMAIN circle /\ circle[p] = o
        BY <2>3, <4>1 DEF RingInv, PointsOwned
      <4> QED
        BY <1>9, <4>2, <4>3
    <3> QED
      BY <3>1, <3>2
  <2> QED
    BY <2>1, <2>2, <2>3 DEF PointsOwned
<1> QED
  BY <1>7, <1>8, <1>10, <1>11 DEF RingInv

LEMMA RingRemove ==
  ASSUME RingInv, NEW m \in Node, RemoveNode(m)
  PROVE  RingInv'
<1> DEFINE kept == DOMAIN circle \ Points(m)
           t == Ascending(kept)
<1>1. /\ m \notin nodes /\ nodes' = nodes \ {m} /\ crc' = crc
      /\ circle' = [p \in kept |-> circle[p]]
      /\ hashSortNodes' = t
  BY Zenon DEF RemoveNode, refreshHashSortNode
<1>2. /\ crc \in [Node \X Replicas -> Hash] /\ nodes \subseteq Node
      /\ circle \in [DOMAIN circle -> nodes] /\ DOMAIN circle \subseteq Hash
  BY DEF RingInv, RingTypeOK
<1>3. kept \in SUBSET Hash /\ kept \in SUBSET DOMAIN circle
  BY <1>2
<1>4. /\ t \in Seq(kept) /\ DOMAIN t = 1 .. Len(t) /\ Len(t) \in Nat
      /\ \A x \in kept : \E i \in 1 .. Len(t) : t[i] = x
      /\ \A i, j \in 1 .. Len(t) : i < j => t[i] < t[j]
  <2>1. MAXI \in Nat /\ kept \in SUBSET (0 .. MAXI)
    BY <1>3, SizeAssumption DEF Hash
  <2> HIDE DEF kept
  <2>2. /\ t \in Seq(kept)
        /\ \A x \in kept : \E i \in 1 .. Len(t) : t[i] = x
        /\ \A i, j \in 1 .. Len(t) : i < j => t[i] < t[j]
    BY <2>1, AscendingFacts
  <2> HIDE DEF t
  <2> QED
    BY <2>2
<1>5. \A i \in 1 .. Len(t) : t[i] \in kept
  <2> HIDE DEF t, kept
  <2> QED
    BY <1>4
<1>6. DOMAIN circle' = kept /\ \A p \in kept : circle'[p] = circle[p]
  BY <1>1
<1> HIDE DEF t
<1>7. Range(hashSortNodes)' = DOMAIN circle'
  <2>1. Range(hashSortNodes)' = {t[i] : i \in DOMAIN t}
    BY <1>1 DEF Range
  <2> HIDE DEF kept
  <2> QED
    BY <1>4, <1>5, <1>6, <2>1
<1>8. NonDecreasing(hashSortNodes)'
  <2>1. ASSUME NEW i \in 1 .. Len(t), NEW j \in 1 .. Len(t), i < j PROVE t[i] <= t[j]
    <3>1. t[i] \in Int /\ t[j] \in Int
      BY <1>3, <1>5 DEF Hash
    <3>2. t[i] < t[j]
      BY <1>4, <2>1
    <3> QED
      BY <3>1, <3>2
  <2> QED
    BY <1>1, <2>1 DEF NonDecreasing
<1>9. nodes' = nodes
  BY <1>1
<1>10. RingTypeOK'
  <2>1. circle' \in [DOMAIN circle' -> nodes']
    <3>1. \A p \in DOMAIN circle' : circle'[p] \in nodes'
      BY <1>2, <1>3, <1>6, <1>9
    <3>2. circle' = [p \in DOMAIN circle' |-> circle'[p]]
      BY <1>1
    <3> QED
      BY <3>1, <3>2
  <2>2. hashSortNodes' \in Seq(Hash)
    <3>1. t \in Seq(kept) /\ kept \in SUBSET Hash
      BY <1>3, <1>4
    <3>2. \A i \in 1 .. Len(t) : t[i] \in Hash
      BY <1>3, <1>5
    <3> HIDE DEF kept
    <3>3. t = [i \in 1 .. Len(t) |-> t[i]]
      BY <3>1
    <3> QED
      BY <1>1, <1>4, <3>2, <3>3, IndexedIsSeq
  <2>3. /\ crc' \in [Node \X Replicas -> Hash] /\ nodes' \subseteq Node
        /\ DOMAIN circle' \subseteq Hash
    BY <1>1, <1>2, <1>3, <1>6
  <2> QED
    BY <2>1, <2>2, <2>3 DEF RingTypeOK, Hash, Replicas
<1>11. PointsOwned'
  <2>1. Injective' <=> Injective
    BY <1>1 DEF Injective
  <2>2. \A o : Points(o)' = Points(o)
    BY <1>1 DEF Points, ReplicaKeys, getReplicaKey, Range
  <2>3. ASSUME Injective, NEW o \in nodes', NEW p \in Points(o)
        PROVE  p \in DOMAIN circle' /\ circle'[p] = o
    <3>1. o \in nodes /\ o \in Node /\ o # m
      BY <1>1, <1>2
    <3>2. p \notin Points(m)
      BY <1>2, <2>3, <3>1, PointsDiffer
    <3>3. p \in DOMAIN circle /\ circle[p] = o
      BY <2>3, <3>1 DEF RingInv, PointsOwned
    <3> QED
      BY <1>6, <3>2, <3>3
  <2> QED
    BY <2>1, <2>2, <2>3 DEF PointsOwned
<1> QED
  BY <1>7, <1>8, <1>10, <1>11 DEF RingInv

LEMMA RingStep ==
  ASSUME RingInv, [RingNext]_ringVars
  PROVE  RingInv'
<1>1. ASSUME NEW m \in Node, AddNode(m) PROVE RingInv'
  BY <1>1, RingAdd
<1>2. ASSUME NEW m \in Node, RemoveNode(m) PROVE RingInv'
  BY <1>2, RingRemove
<1>3. ASSUME UNCHANGED ringVars PROVE RingInv'
  <2>1. crc' = crc /\ nodes' = nodes /\ circle' = circle /\ hashSortNodes' = hashSortNodes
    BY <1>3 DEF ringVars
  <2>2. RingTypeOK' /\ Range(hashSortNodes)' = DOMAIN circle' /\ NonDecreasing(hashSortNodes)'
    BY <2>1 DEF RingInv, RingTypeOK, Hash, Replicas, Range, NonDecreasing
  <2>3. PointsOwned'
    <3>1. Injective' <=> Injective
      BY <2>1 DEF Injective
    <3>2. \A o : Points(o)' = Points(o)
      BY <2>1 DEF Points, ReplicaKeys, getReplicaKey, Range
    <3> QED
      BY <2>1, <3>1, <3>2 DEF RingInv, PointsOwned
  <2> QED
    BY <2>2, <2>3 DEF RingInv
<1>4. CASE RingNext
  <2>1. PICK m \in Node : AddNode(m) \/ RemoveNode(m) \/ Refuse(m)
    BY <1>4 DEF RingNext
  <2> QED
    BY <1>1, <1>2, <1>3, <2>1 DEF Refuse
<1> QED
  BY <1>3, <1>4

(* What Get returns is the node of the clockwise successor. *)
LEMMA GetFacts ==
  ASSUME RingInv, CanGet, NEW h \in Hash
  PROVE  /\ DOMAIN circle # {} /\ DOMAIN circle \in SUBSET Nat /\ h \in Nat
         /\ Successor(DOMAIN circle, h, Clockwise(DOMAIN circle, h))
         /\ Get(h) = circle[Clockwise(DOMAIN circle, h)]
<1> DEFINE c == hashSortNodes[searchByIndex(h) + 1]
<1>1. /\ hashSortNodes \in Seq(0 .. MAXI) /\ hashSortNodes # <<>>
      /\ NonDecreasing(hashSortNodes) /\ h \in 0 .. MAXI
      /\ Range(hashSortNodes) = DOMAIN circle /\ DOMAIN circle \subseteq 0 .. MAXI
  BY DEF RingInv, RingTypeOK, CanGet, Hash
<1>2. Successor(DOMAIN circle, h, c)
  BY <1>1, SearchFacts
<1>3. DOMAIN circle \in SUBSET Nat /\ h \in Nat
  BY <1>1, SizeAssumption
<1>4. Get(h) = circle[c]
  BY Zenon DEF Get
<1> HIDE DEF c
<1>5. Clockwise(DOMAIN circle, h) = c
  BY <1>2, <1>3, ClockwiseIs
<1>6. c \in DOMAIN circle
  BY <1>2 DEF Successor
<1> QED
  BY <1>2, <1>3, <1>4, <1>5, <1>6

LEMMA RingSuccessor ==
  ASSUME RingInv
  PROVE  GetIsSuccessor
<1>1. RingTypeOK /\ Range(hashSortNodes) = DOMAIN circle
  BY DEF RingInv
<1>2. ASSUME CanGet, NEW h \in Hash
      PROVE  Get(h) = circle[Clockwise(DOMAIN circle, h)]
  BY <1>2, GetFacts
<1> QED
  BY <1>1, <1>2, Zenon DEF GetIsSuccessor

LEMMA RingMembers ==
  ASSUME RingInv
  PROVE  MembersServed
<1> SUFFICES ASSUME Injective, NEW m \in nodes
             PROVE  /\ \A p \in Points(m) : circle[p] = m
                    /\ \E h \in Hash : Get(h) = m
  BY Zenon DEF MembersServed
<1>1. m \in Node /\ crc \in [Node \X Replicas -> Hash]
  BY DEF RingInv, RingTypeOK
<1>2. \A p \in Points(m) : p \in DOMAIN circle /\ circle[p] = m
  BY DEF RingInv, PointsOwned
<1>3. Points(m) \in SUBSET Hash /\ Points(m) # {}
  BY <1>1, PointFacts
<1>4. PICK p \in Points(m) : TRUE
  BY <1>3
<1>5. p \in Hash /\ p \in DOMAIN circle /\ circle[p] = m
  BY <1>2, <1>3, <1>4
<1>6. CanGet
  <2>1. Range(hashSortNodes) = DOMAIN circle
    BY DEF RingInv
  <2>2. hashSortNodes # <<>>
    <3> SUFFICES ASSUME hashSortNodes = <<>> PROVE FALSE
      OBVIOUS
    <3>1. DOMAIN hashSortNodes = {}
      OBVIOUS
    <3> QED
      BY <1>5, <2>1, <3>1 DEF Range
  <2> QED
    BY <2>2 DEF CanGet
<1>7. /\ DOMAIN circle \in SUBSET Nat /\ p \in Nat
      /\ Get(p) = circle[Clockwise(DOMAIN circle, p)]
  BY <1>5, <1>6, GetFacts
<1>8. Successor(DOMAIN circle, p, p)
  BY <1>5, <1>7 DEF Successor
<1>9. Clockwise(DOMAIN circle, p) = p
  BY <1>7, <1>8, ClockwiseIs
<1>10. Get(p) = m
  BY <1>5, <1>7, <1>9
<1> QED
  BY <1>2, <1>5, <1>10

(* A successor among more points is a new point, or the one it was. *)
LEMMA MorePoints ==
  ASSUME NEW D \in SUBSET Nat, NEW P \in SUBSET Nat, NEW h \in Nat,
         NEW c, Successor(P \cup D, h, c), c \notin P,
         NEW d, Successor(D, h, d)
  PROVE  c = d
<1>1. c \in D /\ d \in D /\ c \in Nat /\ d \in Nat
  BY DEF Successor
<1>2. CASE c >= h
  <2>1. \A p \in D : p >= h => c <= p
    BY <1>1, <1>2 DEF Successor
  <2>2. d >= h /\ \A p \in D : p >= h => d <= p
    BY <1>1, <1>2 DEF Successor
  <2> QED
    BY <1>1, <1>2, <2>1, <2>2
<1>3. CASE ~(c >= h)
  <2>1. \A p \in D : ~(p >= h) /\ c <= p
    BY <1>1, <1>3 DEF Successor
  <2>2. \A p \in D : d <= p
    BY <1>1, <2>1 DEF Successor
  <2> QED
    BY <1>1, <2>1, <2>2
<1> QED
  BY <1>2, <1>3

GotRight ==
  CanGet =>
    \A h \in Hash :
      /\ Successor(DOMAIN circle, h, Clockwise(DOMAIN circle, h))
      /\ Get(h) = circle[Clockwise(DOMAIN circle, h)]

LEMMA RingGot == RingInv => GotRight
  BY GetFacts DEF GotRight

LEMMA RingGotNext == RingInv' => GotRight'
  BY RingGot, PTL

LEMMA RingMonotone ==
  ASSUME RingInv, RingInv', [RingNext]_ringVars,
         nodes' # nodes, CanGet, NEW h \in Hash
  PROVE  Get(h)' = Get(h) \/ Get(h)' \in nodes' \ nodes
<1>1. PICK m \in Node : AddNode(m)
  <2>1. RingNext
    BY DEF ringVars
  <2>2. PICK m \in Node : AddNode(m) \/ RemoveNode(m) \/ Refuse(m)
    BY <2>1 DEF RingNext
  <2>3. RemoveNode(m) => nodes' = nodes
    BY Zenon DEF RemoveNode
  <2>4. Refuse(m) => nodes' = nodes
    BY DEF Refuse, ringVars
  <2> QED
    BY <2>2, <2>3, <2>4
<1> DEFINE P == Points(m)
           D == DOMAIN circle
           c == Clockwise(P \cup D, h)
           d == Clockwise(D, h)
<1>2. /\ m \notin nodes /\ nodes' = nodes \cup {m}
      /\ circle' = [p \in P \cup D |-> IF p \in P THEN m ELSE circle[p]]
      /\ hashSortNodes' = Sorted(hashSortNodes \o ReplicaKeys(m))
  BY <1>1, Zenon DEF AddNode, CircleWith
<1>3. DOMAIN circle' = P \cup D
  BY <1>2
<1>4. /\ Successor(D, h, d) /\ Get(h) = circle[d]
      /\ D \in SUBSET Nat /\ h \in Nat
  BY GetFacts
<1>5. P \in SUBSET Hash /\ Hash \in SUBSET Nat
  BY PointFacts, SizeAssumption DEF RingInv, RingTypeOK, Hash
<1>6. CanGet'
  <2>1. d \in D
    BY <1>4 DEF Successor
  <2>2. Range(hashSortNodes)' = P \cup D
    BY <1>3 DEF RingInv
  <2>3. hashSortNodes' # <<>>
    <3> SUFFICES ASSUME hashSortNodes' = <<>> PROVE FALSE
      OBVIOUS
    <3>1. DOMAIN hashSortNodes' = {}
      OBVIOUS
    <3>2. Range(hashSortNodes)' = {}
      BY <3>1 DEF Range
    <3> QED
      BY <2>1, <2>2, <3>2
  <2> QED
    BY <1>2, <2>3 DEF CanGet
<1>7. Successor(P \cup D, h, c) /\ Get(h)' = circle'[c]
  <2>1. GotRight'
    BY RingGotNext, SizeAssumption
  <2>2. Hash' = Hash
    BY DEF Hash
  <2> QED
    BY <1>3, <1>6, <2>1, <2>2 DEF GotRight
<1> HIDE DEF c, d
<1>8. c \in P \cup D
  BY <1>7 DEF Successor
<1>9. CASE c \in P
  BY <1>2, <1>7, <1>9
<1>10. CASE c \notin P
  <2>1. c = d
    <3> HIDE DEF P, D
    <3> QED
      BY <1>4, <1>5, <1>7, <1>10, MorePoints
  <2> QED
    BY <1>2, <1>4, <1>7, <1>8, <1>10, <2>1
<1> QED
  BY <1>9, <1>10

LEMMA RingInvariant == RingSpec => []RingInv
<1>1. NewConsistent => RingInv
  BY EmptyRing
<1>2. RingInv /\ [RingNext]_ringVars => RingInv'
  BY RingStep
<1> QED
  BY <1>1, <1>2, PTL DEF RingSpec

(* However nodes came and collided, Get finds the key's clockwise successor *)
(* among the points of the circle (Add, Remove, searchByIndex), on a ring   *)
(* of any size.                                                             *)
THEOREM SuccessorCorrect == RingSpec => []GetIsSuccessor
<1>1. RingInv => GetIsSuccessor
  BY RingSuccessor
<1> QED
  BY <1>1, RingInvariant, PTL

(* Without collisions every node of the ring keeps its points, and Get sends *)
(* it some key, whatever Remove was called with.                             *)
THEOREM MembersCorrect == RingSpec => []MembersServed
<1>1. RingInv => MembersServed
  BY RingMembers
<1> QED
  BY <1>1, RingInvariant, PTL

(* A new node takes keys for itself and moves none between the others, with  *)
(* and without collisions (Add, Get).                                        *)
THEOREM MonotoneCorrect == RingSpec => Monotone
<1>1. RingInv /\ RingInv' /\ [RingNext]_ringVars =>
        [ nodes' # nodes /\ CanGet =>
            \A h \in Hash : Get(h)' = Get(h) \/ Get(h)' \in nodes' \ nodes ]_ringVars
  BY RingMonotone
<1> QED
  BY <1>1, RingInvariant, PTL DEF Monotone, RingSpec
=============================================================================
