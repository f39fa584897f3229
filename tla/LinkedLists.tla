---------------------------- MODULE LinkedLists ----------------------------
(***************************************************************************)
(* The intrusive doubly linked lists of co_routine.cpp, pointer by         *)
(* pointer.  A heap is a record of the fields of the lists (head, tail)    *)
(* and of their items (pPrev, pNext, pLink); each template function is an  *)
(* operator from heaps to heaps.                                           *)
(***************************************************************************)
EXTENDS Integers, Sequences, SequencesExt

CONSTANT NULL

(* The heap in which lists[l] is the sequence of the items of list l. *)
Beside(lists, List, x, d) ==
  IF \E l \in List : \E n \in DOMAIN lists[l] : lists[l][n] = x /\ n + d \in DOMAIN lists[l]
  THEN LET l == CHOOSE l \in List : x \in ToSet(lists[l])
           n == CHOOSE n \in DOMAIN lists[l] : lists[l][n] = x
       IN  lists[l][n + d]
  ELSE NULL

HeapOf(lists, List, Node) ==
  [head  |-> [l \in List |-> IF lists[l] = <<>> THEN NULL ELSE Head(lists[l])],
   tail  |-> [l \in List |-> IF lists[l] = <<>> THEN NULL ELSE Last(lists[l])],
   pPrev |-> [x \in Node |-> Beside(lists, List, x, -1)],
   pNext |-> [x \in Node |-> Beside(lists, List, x, 1)],
   pLink |-> [x \in Node |-> IF \E l \in List : x \in ToSet(lists[l])
                             THEN CHOOSE l \in List : x \in ToSet(lists[l])
                             ELSE NULL]]

(* p->field = v; Put tests p first. *)
Set(field, p, v) == [field EXCEPT ![p] = v]
Put(field, p, v) == IF p = NULL THEN field ELSE Set(field, p, v)

Cleared(h, x) == [h EXCEPT !.pPrev = Set(h.pPrev, x, NULL),
                           !.pNext = Set(h.pNext, x, NULL),
                           !.pLink = Set(h.pLink, x, NULL)]

(* Fault: the tail stays with an item that goes. *)
RemoveFromLinkHeadOnly(h, x) ==
  LET l == h.pLink[x]
      p == h.pPrev[x]
      n == h.pNext[x]
  IN  IF l = NULL THEN h
      ELSE Cleared([h EXCEPT !.head = IF x = h.head[l] THEN Set(h.head, l, n) ELSE h.head,
                             !.pNext = Put(h.pNext, p, n),
                             !.pPrev = Put(h.pPrev, n, p)], x)

RemoveFromLink(h, x) ==
  LET l == h.pLink[x]
      p == h.pPrev[x]
      n == h.pNext[x]
      before == IF x = h.head[l]
                THEN [h EXCEPT !.head = Set(h.head, l, n), !.pPrev = Put(h.pPrev, n, NULL)]
                ELSE [h EXCEPT !.pNext = Put(h.pNext, p, n)]
      after  == IF x = h.tail[l]
                THEN [before EXCEPT !.tail = Set(h.tail, l, p),
                                    !.pNext = Put(before.pNext, p, NULL)]
                ELSE [before EXCEPT !.pPrev = Set(before.pPrev, n, p)]
  IN  IF l = NULL THEN h ELSE Cleared(after, x)

(* An item that is in a list already stays there. *)
AddTail(h, l, x) ==
  LET t == h.tail[l] IN
  IF h.pLink[x] # NULL THEN h
  ELSE [h EXCEPT !.head  = IF t = NULL THEN Set(h.head, l, x) ELSE h.head,
                 !.tail  = Set(h.tail, l, x),
                 !.pNext = Put(Set(h.pNext, x, NULL), t, x),
                 !.pPrev = Set(h.pPrev, x, t),
                 !.pLink = Set(h.pLink, x, l)]

PopHead(h, l) ==
  LET x == h.head[l]
      rest == IF x = h.tail[l] THEN NULL ELSE h.pNext[x]
      popped == [h EXCEPT !.head = Set(h.head, l, rest),
                          !.tail = IF rest = NULL THEN Set(h.tail, l, NULL) ELSE h.tail,
                          !.pPrev = Put(h.pPrev, rest, NULL)]
  IN  IF x = NULL THEN h ELSE Cleared(popped, x)

(* The items from x on, along pNext. *)
Chain(h, x) ==
  LET from[y \in DOMAIN h.pNext \cup {NULL}] ==
        IF y = NULL THEN {} ELSE {y} \cup from[h.pNext[y]]
  IN  from[x]

Join(h, l, other) ==
  LET lp == h.head[other]
      t  == h.tail[l]
  IN  IF lp = NULL THEN h
      ELSE [h EXCEPT !.pLink = [x \in DOMAIN h.pLink |->
                                  IF x \in Chain(h, lp) THEN l ELSE h.pLink[x]],
                     !.pNext = Put(h.pNext, t, lp),
                     !.pPrev = Set(h.pPrev, lp, t),
                     !.head  = Set(IF t = NULL THEN Set(h.head, l, lp) ELSE h.head,
                                   other, NULL),
                     !.tail  = Set(Set(h.tail, l, h.tail[other]), other, NULL)]
============================================================================
