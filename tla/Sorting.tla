------------------------------ MODULE Sorting ------------------------------
(***************************************************************************)
(* The sorts and binary searches that the code calls: sort.Slice and       *)
(* sort.Search of Go, qsort and bsearch of C, on numbers.                  *)
(***************************************************************************)
EXTENDS Integers, Sequences, FiniteSets

Below(s, x) == Cardinality({j \in DOMAIN s : s[j] < x})

(* The i-th of the sorted sequence is what fewer than i are below, and at   *)
(* least i are not above.                                                   *)
Sorted(s) == [i \in 1 .. Len(s) |-> CHOOSE x \in {s[j] : j \in DOMAIN s} :
                                      Below(s, x) < i /\ i <= Below(s, x + 1)]

(* The members of a set, sorted. *)
Ascending(S) == [i \in 1 .. Cardinality(S) |->
                 CHOOSE x \in S : Cardinality({y \in S : y < x}) = i - 1]

(* sort.Search(len(s), func(i int) bool { return s[i] >= h }): the index it *)
(* returns, from 0; its answer is right only if s is sorted.                *)
SortSearch(s, h) ==
  LET search[r \in (0 .. Len(s)) \X (0 .. Len(s))] ==
        LET mid == (r[1] + r[2]) \div 2
        IN  IF r[1] >= r[2] THEN r[1]
            ELSE IF s[mid + 1] < h THEN search[<<mid + 1, r[2]>>]
            ELSE search[<<r[1], mid>>]
  IN  search[<<0, Len(s)>>]

(* bsearch: the place of n in s, or 0. *)
bsearch(s, n) ==
  LET search[r \in (0 .. Len(s)) \X (0 .. Len(s))] ==
        LET mid == (r[1] + r[2]) \div 2
        IN  IF r[1] >= r[2] THEN 0
            ELSE IF s[mid + 1] = n THEN mid + 1
            ELSE IF s[mid + 1] < n THEN search[<<mid + 1, r[2]>>]
            ELSE search[<<r[1], mid>>]
  IN  search[<<0, Len(s)>>]
=============================================================================
