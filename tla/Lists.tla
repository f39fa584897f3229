------------------------------- MODULE Lists -------------------------------
(***************************************************************************)
(* libco threads its items on intrusive doubly linked lists (AddTail,      *)
(* PopHead, Join, RemoveFromLink).  A list is modelled by the sequence of  *)
(* its items: AddTail is Append, PopHead is Tail, Join is \o and           *)
(* RemoveFromLink is RemoveAt.  An intrusive list cannot hold an item      *)
(* twice.                                                                  *)
(***************************************************************************)
EXTENDS Integers, Sequences, SequencesExt

Once(s) == \A m, n \in DOMAIN s : s[m] = s[n] => m = n

(* What is left of the sequence s, in its order, when the members of S go.  *)
Keeps(t, s, S) ==
  /\ Once(t) /\ ToSet(t) = ToSet(s) \ S
  /\ \A m, n \in DOMAIN t : m < n =>
       \E i, j \in DOMAIN s : i < j /\ s[i] = t[m] /\ s[j] = t[n]

(* The sequence t is s followed by the members of S, once each. *)
Extends(s, t, S) ==
  LET new == Len(s) + 1 .. Len(t) IN
  /\ Len(s) <= Len(t)
  /\ \A n \in DOMAIN s : t[n] = s[n]
  /\ {t[n] : n \in new} = S
  /\ \A m, n \in new : t[m] = t[n] => m = n
============================================================================
