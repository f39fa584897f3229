---------------------------- MODULE ListLemmas ----------------------------
(***************************************************************************)
(* What the list operations do to the members of a list, what the sorts    *)
(* and binary searches return, and the inductions they need.               *)
(***************************************************************************)
EXTENDS Lists, Sorting, FiniteSetTheorems, SequenceTheorems,
        WellFoundedInduction, TLAPS

LEMMA RemoveAtIndices ==
  ASSUME NEW S, NEW s \in Seq(S), NEW n \in 1 .. Len(s)
  PROVE  /\ RemoveAt(s, n) \in Seq(S)
         /\ Len(RemoveAt(s, n)) = Len(s) - 1
         /\ \A m \in 1 .. Len(s) - 1 :
              RemoveAt(s, n)[m] = IF m < n THEN s[m] ELSE s[m + 1]
<1> DEFINE a == SubSeq(s, 1, n - 1)
           b == SubSeq(s, n + 1, Len(s))
<1>1. Len(s) \in Nat
  OBVIOUS
<1>2. /\ a \in Seq(S) /\ Len(a) = n - 1
      /\ \A m \in 1 .. n - 1 : a[m] = s[m]
  BY <1>1, SubSeqProperties
<1>3. /\ b \in Seq(S) /\ Len(b) = Len(s) - n
      /\ \A m \in 1 .. Len(s) - n : b[m] = s[m + n]
  BY <1>1, SubSeqProperties
<1> HIDE DEF a, b
<1>4. /\ a \o b \in Seq(S) /\ Len(a \o b) = Len(a) + Len(b)
      /\ \A m \in 1 .. Len(a) + Len(b) :
            (a \o b)[m] = IF m <= Len(a) THEN a[m] ELSE b[m - Len(a)]
  BY <1>2, <1>3, ConcatProperties
<1>5. RemoveAt(s, n) = a \o b
  BY DEF RemoveAt, a, b
<1>6. ASSUME NEW m \in 1 .. Len(s) - 1
      PROVE  (a \o b)[m] = IF m < n THEN s[m] ELSE s[m + 1]
  <2>1. m \in 1 .. Len(a) + Len(b)
    BY <1>1, <1>2, <1>3
  <2>2. CASE m < n
    BY <1>1, <1>2, <1>4, <2>1, <2>2
  <2>3. CASE ~(m < n)
    <3>1. m - (n - 1) \in 1 .. Len(s) - n /\ (m - (n - 1)) + n = m + 1
      BY <1>1, <2>3
    <3>2. b[m - (n - 1)] = s[m + 1]
      BY <1>3, <3>1
    <3> QED
      BY <1>1, <1>2, <1>4, <2>1, <2>3, <3>2
  <2> QED
    BY <2>2, <2>3
<1> QED
  BY <1>1, <1>2, <1>3, <1>4, <1>5, <1>6

(* Each list operation keeps a list free of duplicates, and adds or        *)
(* removes exactly the member it names.                                    *)
LEMMA RemoveMembers ==
  ASSUME NEW S, NEW s \in Seq(S), NEW n \in 1 .. Len(s), Once(s)
  PROVE  /\ ToSet(RemoveAt(s, n)) = ToSet(s) \ {s[n]}
         /\ Once(RemoveAt(s, n))
<1> DEFINE r == RemoveAt(s, n)
<1>1. /\ r \in Seq(S) /\ Len(r) = Len(s) - 1
      /\ \A m \in 1 .. Len(s) - 1 : r[m] = IF m < n THEN s[m] ELSE s[m + 1]
  BY RemoveAtIndices
<1> HIDE DEF r
<1>2. /\ DOMAIN r = 1 .. Len(s) - 1 /\ DOMAIN s = 1 .. Len(s) /\ Len(s) \in Nat
  BY <1>1
<1>3. ASSUME NEW x \in ToSet(r)
      PROVE  x \in ToSet(s) \ {s[n]}
  BY <1>1, <1>2 DEF ToSet, Once
<1>4. ASSUME NEW m \in DOMAIN s, m # n
      PROVE  s[m] \in ToSet(r)
  <2>1. CASE m < n
    BY <1>1, <1>2, <2>1 DEF ToSet
  <2>2. CASE m > n
    <3>1. m - 1 \in DOMAIN r /\ r[m - 1] = s[m]
      BY <1>1, <1>2, <2>2
    <3> QED
      BY <3>1 DEF ToSet
  <2> QED
    BY <1>2, <1>4, <2>1, <2>2
<1>5. Once(r)
  <2>1. \A m \in DOMAIN r : \/ m < n /\ m \in DOMAIN s /\ r[m] = s[m]
                            \/ m >= n /\ m + 1 \in DOMAIN s /\ r[m] = s[m + 1]
    BY <1>1, <1>2
  <2>2. ASSUME NEW m \in DOMAIN r, NEW k \in DOMAIN r, r[m] = r[k]
        PROVE  m = k
    BY <1>2, <2>1, <2>2 DEF Once
  <2> QED
    BY <2>2 DEF Once
<1>6. ToSet(s) \ {s[n]} \subseteq ToSet(r)
  BY <1>4 DEF ToSet
<1> QED
  BY <1>3, <1>5, <1>6 DEF r

LEMMA AppendMembers ==
  ASSUME NEW S, NEW s \in Seq(S), NEW e \in S, Once(s), e \notin ToSet(s)
  PROVE  ToSet(Append(s, e)) = ToSet(s) \cup {e} /\ Once(Append(s, e))
<1> DEFINE r == Append(s, e)
<1>1. /\ DOMAIN r = 1 .. Len(s) + 1 /\ DOMAIN s = 1 .. Len(s) /\ Len(s) \in Nat
      /\ \A m \in 1 .. Len(s) : r[m] = s[m]
      /\ r[Len(s) + 1] = e
  BY AppendProperties
<1> HIDE DEF r
<1>2. ToSet(r) = ToSet(s) \cup {e}
  BY <1>1 DEF ToSet
<1>3. Once(r)
  BY <1>1 DEF ToSet, Once
<1> QED
  BY <1>2, <1>3 DEF r

LEMMA ConcatMembers ==
  ASSUME NEW S, NEW s \in Seq(S), NEW t \in Seq(S)
  PROVE  /\ ToSet(s \o t) = ToSet(s) \cup ToSet(t)
         /\ Once(s) /\ Once(t) /\ ToSet(s) \cap ToSet(t) = {} => Once(s \o t)
<1> DEFINE r == s \o t
<1>1. /\ DOMAIN r = 1 .. Len(s) + Len(t) /\ Len(s) \in Nat /\ Len(t) \in Nat
      /\ DOMAIN s = 1 .. Len(s) /\ DOMAIN t = 1 .. Len(t)
      /\ \A m \in DOMAIN s : m \in DOMAIN r /\ r[m] = s[m]
      /\ \A m \in DOMAIN t : m + Len(s) \in DOMAIN r /\ r[m + Len(s)] = t[m]
  BY ConcatProperties
<1>2. \A m \in DOMAIN r : \/ m \in DOMAIN s
                          \/ m - Len(s) \in DOMAIN t /\ r[m] = t[m - Len(s)]
  BY ConcatProperties
<1> HIDE DEF r
<1>3. ToSet(r) = ToSet(s) \cup ToSet(t)
  BY <1>1, <1>2 DEF ToSet
<1>4. ASSUME Once(s), Once(t), ToSet(s) \cap ToSet(t) = {},
             NEW m \in DOMAIN r, NEW n \in DOMAIN r, r[m] = r[n]
      PROVE  m = n
  <2>1. CASE m \in DOMAIN s /\ n \in DOMAIN s
    BY <1>1, <1>4, <2>1 DEF Once
  <2>2. CASE m \notin DOMAIN s /\ n \notin DOMAIN s
    <3>1. /\ m - Len(s) \in DOMAIN t /\ n - Len(s) \in DOMAIN t
          /\ t[m - Len(s)] = t[n - Len(s)]
      BY <1>2, <1>4, <2>2
    <3>2. m - Len(s) = n - Len(s)
      BY <1>4, <3>1 DEF Once
    <3>3. m \in Int /\ n \in Int /\ Len(s) \in Int
      BY <1>1
    <3> QED
      BY <3>2, <3>3
  <2>3. \A x \in DOMAIN s : r[x] \in ToSet(s)
    BY <1>1 DEF ToSet
  <2>4. \A x \in DOMAIN r : x \notin DOMAIN s => r[x] \in ToSet(t)
    BY <1>2 DEF ToSet
  <2>5. m \in DOMAIN s <=> n \in DOMAIN s
    BY <1>4, <2>3, <2>4
  <2> QED
    BY <2>1, <2>2, <2>5
<1> QED
  BY <1>3, <1>4 DEF Once, r

LEMMA TailMembers ==
  ASSUME NEW S, NEW s \in Seq(S), s # <<>>, Once(s)
  PROVE  ToSet(Tail(s)) = ToSet(s) \ {Head(s)} /\ Once(Tail(s))
<1> DEFINE r == Tail(s)
<1>1. /\ DOMAIN r = 1 .. Len(s) - 1 /\ DOMAIN s = 1 .. Len(s) /\ Len(s) \in Nat \ {0}
      /\ \A m \in 1 .. Len(s) - 1 : r[m] = s[m + 1]
      /\ Head(s) = s[1]
  BY HeadTailProperties, EmptySeq
<1> HIDE DEF r
<1>2. ASSUME NEW m \in DOMAIN s, m # 1
      PROVE  s[m] \in ToSet(r)
  <2>1. m - 1 \in DOMAIN r /\ r[m - 1] = s[m]
    BY <1>1, <1>2
  <2> QED
    BY <2>1 DEF ToSet
<1>3. ToSet(r) = ToSet(s) \ {Head(s)}
  <2>1. ToSet(s) \ {Head(s)} \subseteq ToSet(r)
    BY <1>1, <1>2 DEF ToSet
  <2>2. ASSUME NEW m \in DOMAIN r
        PROVE  r[m] \in ToSet(s) /\ r[m] # Head(s)
    <3>1. m + 1 \in DOMAIN s /\ m + 1 # 1 /\ 1 \in DOMAIN s /\ r[m] = s[m + 1]
      BY <1>1, <2>2
    <3> QED
      BY <1>1, <3>1 DEF ToSet, Once
  <2> QED
    BY <2>1, <2>2 DEF ToSet
<1>4. Once(r)
  BY <1>1 DEF Once
<1> QED
  BY <1>3, <1>4 DEF r

LEMMA EmptyMembers ==
  ASSUME NEW S, NEW s \in Seq(S), ToSet(s) = {}
  PROVE  s = <<>>
<1>1. DOMAIN s = 1 .. Len(s) /\ Len(s) \in Nat
  OBVIOUS
<1>2. DOMAIN s = {}
  BY DEF ToSet
<1>3. Len(s) = 0
  BY <1>1, <1>2
<1> QED
  BY <1>3, EmptySeq

(* A concatenation keeps its first part and adds the members of the second. *)
LEMMA ConcatExtends ==
  ASSUME NEW S, NEW s \in Seq(S), NEW t \in Seq(S), Once(s \o t)
  PROVE  Extends(s, s \o t, ToSet(t))
<1> DEFINE r == s \o t
           new == Len(s) + 1 .. Len(r)
<1>1. /\ r \in Seq(S) /\ Len(r) = Len(s) + Len(t)
      /\ Len(s) \in Nat /\ Len(t) \in Nat
      /\ DOMAIN s = 1 .. Len(s) /\ DOMAIN t = 1 .. Len(t) /\ DOMAIN r = 1 .. Len(r)
      /\ \A n \in 1 .. Len(s) + Len(t) :
           r[n] = IF n <= Len(s) THEN s[n] ELSE t[n - Len(s)]
  BY ConcatProperties
<1> HIDE DEF r
<1>2. \A n \in DOMAIN s : r[n] = s[n]
  BY <1>1
<1>3. ASSUME NEW n \in new
      PROVE  n - Len(s) \in DOMAIN t /\ r[n] = t[n - Len(s)]
  BY <1>1
<1>4. ASSUME NEW n \in DOMAIN t
      PROVE  n + Len(s) \in new /\ r[n + Len(s)] = t[n]
  <2>1. n + Len(s) \in new /\ n \in 1 .. Len(t) /\ n + Len(s) - Len(s) = n
    BY <1>1
  <2> QED
    BY <1>3, <2>1
<1>5. {r[n] : n \in new} = ToSet(t)
  <2>1. ASSUME NEW n \in new PROVE r[n] \in ToSet(t)
    BY <1>3 DEF ToSet
  <2>2. ASSUME NEW n \in DOMAIN t PROVE t[n] \in {r[m] : m \in new}
    BY <1>4
  <2> QED
    BY <2>1, <2>2 DEF ToSet
<1>6. \A m, n \in new : r[m] = r[n] => m = n
  <2>1. new \subseteq DOMAIN r
    BY <1>1
  <2> QED
    BY <2>1 DEF Once, r
<1>7. Len(s) <= Len(r)
  BY <1>1
<1> QED
  BY <1>2, <1>5, <1>6, <1>7 DEF Extends, r

LEMMA FrontMembers ==
  ASSUME NEW S, NEW s \in Seq(S), s # <<>>, Once(s)
  PROVE  /\ Front(s) \in Seq(S) /\ Once(Front(s))
         /\ ToSet(Front(s)) = ToSet(s) \ {Last(s)}
         /\ Last(s) \in ToSet(s) /\ Last(s) \in S
<1> DEFINE r == Front(s)
<1>1. /\ DOMAIN s = 1 .. Len(s) /\ Len(s) \in Nat \ {0}
      /\ \A m \in 1 .. Len(s) : s[m] \in S
  OBVIOUS
<1>2. /\ r \in Seq(S) /\ Len(r) = Len(s) - 1
      /\ \A m \in 1 .. Len(s) - 1 : r[m] = s[m]
  BY <1>1, SubSeqProperties DEF Front
<1>3. DOMAIN r = 1 .. Len(s) - 1
  BY <1>2
<1>4. Last(s) = s[Len(s)]
  BY DEF Last
<1> HIDE DEF r
<1>5. Once(r)
  BY <1>1, <1>2, <1>3 DEF Once
<1>6. \A m \in 1 .. Len(s) - 1 : s[m] # s[Len(s)]
  BY <1>1 DEF Once
<1>7. ToSet(r) = {s[m] : m \in 1 .. Len(s) - 1}
  BY <1>2, <1>3 DEF ToSet
<1>8. ToSet(s) = {s[m] : m \in 1 .. Len(s) - 1} \cup {s[Len(s)]}
  BY <1>1 DEF ToSet
<1>9. ToSet(r) = ToSet(s) \ {Last(s)}
  BY <1>4, <1>6, <1>7, <1>8
<1> QED
  BY <1>1, <1>2, <1>4, <1>5, <1>8, <1>9 DEF r

LEMMA RemoveFirstMembers ==
  ASSUME NEW S, NEW s \in Seq(S), NEW e, Once(s)
  PROVE  /\ RemoveFirst(s, e) \in Seq(S)
         /\ ToSet(RemoveFirst(s, e)) = ToSet(s) \ {e}
         /\ Once(RemoveFirst(s, e))
<1>1. DOMAIN s = 1 .. Len(s) /\ Len(s) \in Nat
  OBVIOUS
<1>2. CASE \E n \in 1 .. Len(s) : s[n] = e
  <2>1. PICK n \in 1 .. Len(s) : s[n] = e
    BY <1>2
  <2>2. {m \in 1 .. Len(s) : s[m] = e} = {n}
    BY <1>1, <2>1 DEF Once
  <2>3. Min({n}) = n
    BY <2>1 DEF Min
  <2>4. SelectInSeq(s, LAMBDA v : v = e) = n
    BY <2>2, <2>3 DEF SelectInSeq
  <2>5. RemoveFirst(s, e) = RemoveAt(s, n)
    BY <1>2, <2>4 DEF RemoveFirst
  <2> QED
    BY <2>1, <2>5, RemoveMembers, RemoveAtIndices
<1>3. CASE ~ \E n \in 1 .. Len(s) : s[n] = e
  <2>1. RemoveFirst(s, e) = s
    BY <1>3 DEF RemoveFirst
  <2>2. e \notin ToSet(s)
    BY <1>1, <1>3 DEF ToSet
  <2> QED
    BY <2>1, <2>2
<1> QED
  BY <1>2, <1>3

LEMMA SeqOfSeq ==
  ASSUME NEW S, NEW n \in Nat, NEW s \in SeqOf(S, n)
  PROVE  s \in Seq(S)
<1>1. PICK m \in 0 .. n : s \in [1 .. m -> S]
  BY DEF SeqOf
<1> QED
  BY <1>1

LEMMA EmptyOnce == Once(<<>>) /\ ToSet(<<>>) = {}
BY DEF Once, ToSet

LEMMA HeadMember ==
  ASSUME NEW S, NEW s \in Seq(S), s # <<>>
  PROVE  Head(s) \in S /\ Head(s) \in ToSet(s) /\ Tail(s) \in Seq(S)
<1>1. Len(s) \in Nat \ {0} /\ DOMAIN s = 1 .. Len(s) /\ Head(s) = s[1]
  OBVIOUS
<1> QED
  BY <1>1 DEF ToSet

---------------------------------------------------------------------------
LEMMA SmallestNat ==
  ASSUME NEW T \in SUBSET Nat, T # {}
  PROVE  \E n \in T : \A m \in T : n <= m
<1>1. PICK n \in T : \A m \in T : ~(<<m, n>> \in OpToRel(<, Nat))
  BY NatLessThanWellFounded, WFMin
<1>2. \A m \in T : ~(m < n)
  BY <1>1 DEF OpToRel
<1> QED
  BY <1>2

(* A function from 1 .. n to S is a sequence. *)
LEMMA IndexedIsSeq ==
  ASSUME NEW S, NEW n \in Nat, NEW s, s = [i \in 1 .. n |-> s[i]],
         \A i \in 1 .. n : s[i] \in S
  PROVE  s \in Seq(S) /\ Len(s) = n
<1>1. s \in [1 .. n -> S]
  OBVIOUS
<1> QED
  BY <1>1

(* What holds of r as soon as it holds of all of smaller rank holds of all. *)
LEMMA RankInduction ==
  ASSUME NEW D, NEW rank, \A r \in D : rank[r] \in Nat, NEW P,
         \A r \in D : (\A q \in D : rank[q] < rank[r] => q \in P) => r \in P
  PROVE  \A r \in D : r \in P
<1> DEFINE T == {rank[r] : r \in {r \in D : r \notin P}}
<1>1. SUFFICES ASSUME T # {} PROVE FALSE
  OBVIOUS
<1>2. T \in SUBSET Nat
  OBVIOUS
<1>3. PICK n \in T : \A m \in T : n <= m
  BY <1>1, <1>2, SmallestNat
<1>4. PICK r \in D : r \notin P /\ rank[r] = n
  BY <1>3
<1>5. \A q \in D : rank[q] < rank[r] => q \in P
  <2> SUFFICES ASSUME NEW q \in D, rank[q] < rank[r], q \notin P PROVE FALSE
    OBVIOUS
  <2>1. rank[q] \in T
    OBVIOUS
  <2>2. n <= rank[q] /\ n \in Nat /\ rank[q] \in Nat
    BY <1>2, <1>3, <2>1
  <2> QED
    BY <1>4, <2>2
<1> QED
  BY <1>4, <1>5

LEMMA Upward ==
  ASSUME NEW n \in Nat, NEW P, 0 \in P, \A i \in 1 .. n : i - 1 \in P => i \in P
  PROVE  \A i \in 0 .. n : i \in P
<1> DEFINE T == {i \in 0 .. n : i \notin P}
<1>1. SUFFICES ASSUME T # {} PROVE FALSE
  OBVIOUS
<1>2. T \in SUBSET Nat
  OBVIOUS
<1>3. PICK i \in T : \A m \in T : i <= m
  BY <1>1, <1>2, SmallestNat
<1>4. i \in 1 .. n /\ i - 1 \in 0 .. n /\ ~(i <= i - 1)
  BY <1>3
<1>5. i - 1 \notin T
  BY <1>3, <1>4
<1> QED
  BY <1>3, <1>4, <1>5

(* A loop of n rounds that starts from v0: Step is a round. *)
Loop(n, v0, Step, g) ==
  g[0] = v0 /\ \A i \in 1 .. n : g[i] = Step[<<g[i - 1], i>>]

LEMMA LoopExists ==
  ASSUME NEW n \in Nat, NEW v0, NEW Step
  PROVE  \E g : Loop(n, v0, Step, g)
<1> DEFINE P == {m \in 0 .. n : \E g : Loop(m, v0, Step, g)}
<1>1. 0 \in P
  <2> DEFINE g == [i \in 0 .. 0 |-> v0]
  <2>1. Loop(0, v0, Step, g)
    BY DEF Loop
  <2> HIDE DEF g
  <2> QED
    BY <2>1
<1>2. ASSUME NEW m \in 1 .. n, m - 1 \in P PROVE m \in P
  <2>1. PICK g : Loop(m - 1, v0, Step, g)
    BY <1>2
  <2> DEFINE h == [i \in 0 .. m |-> IF i = m THEN Step[<<g[m - 1], m>>] ELSE g[i]]
  <2>2. h[m] = Step[<<g[m - 1], m>>] /\ \A i \in 0 .. m - 1 : h[i] = g[i]
    BY <1>2
  <2> HIDE DEF h
  <2>3. h[0] = v0
    BY <1>2, <2>1, <2>2 DEF Loop
  <2>4. ASSUME NEW i \in 1 .. m PROVE h[i] = Step[<<h[i - 1], i>>]
    <3>1. i - 1 \in 0 .. m - 1
      BY <1>2
    <3>2. h[i - 1] = g[i - 1]
      BY <2>2, <3>1
    <3>3. CASE i = m
      BY <2>2, <3>2, <3>3
    <3>4. CASE i # m
      <4>1. i \in 0 .. m - 1 /\ i \in 1 .. m - 1
        BY <1>2, <3>4
      <4>2. h[i] = g[i] /\ g[i] = Step[<<g[i - 1], i>>]
        BY <2>1, <2>2, <4>1 DEF Loop
      <4> QED
        BY <3>2, <4>2
    <3> QED
      BY <3>3, <3>4
  <2>5. Loop(m, v0, Step, h)
    BY <2>3, <2>4 DEF Loop
  <2> QED
    BY <2>5
<1>3. \A m \in 0 .. n : m \in P
  <2> HIDE DEF P
  <2> QED
    BY <1>1, <1>2, Upward
<1> QED
  BY <1>3

---------------------------------------------------------------------------
LEMMA Crossing ==
  ASSUME NEW M \in Nat, NEW f \in [0 .. M + 1 -> Nat], f[0] = 0,
         NEW i \in Nat \ {0}, i <= f[M + 1]
  PROVE  \E m \in 0 .. M : f[m] < i /\ i <= f[m + 1]
<1> DEFINE T == {m \in 0 .. M + 1 : i <= f[m]}
<1>1. T \in SUBSET Nat /\ M + 1 \in T
  OBVIOUS
<1>2. PICK n \in T : \A m \in T : n <= m
  BY <1>1, SmallestNat
<1>3. n # 0 /\ n \in 1 .. M + 1
  BY <1>2
<1>4. n - 1 \in 0 .. M /\ n - 1 \notin T
  BY <1>2, <1>3
<1>5. f[n - 1] \in Nat /\ ~(i <= f[n - 1])
  BY <1>4
<1> QED
  BY <1>2, <1>4, <1>5

LEMMA BelowFacts ==
  ASSUME NEW s \in Seq(Nat)
  PROVE  /\ \A x \in Int : Below(s, x) \in 0 .. Len(s)
         /\ \A x, y \in Int : x <= y => Below(s, x) <= Below(s, y)
         /\ \A j \in 1 .. Len(s) : Below(s, s[j]) < Below(s, s[j] + 1)
         /\ \A x \in Int : (\A j \in 1 .. Len(s) : s[j] # x) => Below(s, x + 1) = Below(s, x)
         /\ Below(s, 0) = 0
         /\ \A x \in Int : (\A j \in 1 .. Len(s) : s[j] < x) => Below(s, x) = Len(s)
<1>1. /\ Len(s) \in Nat /\ DOMAIN s = 1 .. Len(s) /\ \A j \in 1 .. Len(s) : s[j] \in Nat
      /\ IsFiniteSet(1 .. Len(s)) /\ Cardinality(1 .. Len(s)) = Len(s)
  <2>1. Len(s) \in Nat /\ DOMAIN s = 1 .. Len(s) /\ \A j \in 1 .. Len(s) : s[j] \in Nat
    OBVIOUS
  <2>2. IsFiniteSet(1 .. Len(s)) /\ Cardinality(1 .. Len(s)) = Len(s)
    BY <2>1, FS_Interval
  <2> QED
    BY <2>1, <2>2
<1> DEFINE B(x) == {j \in 1 .. Len(s) : s[j] < x}
<1>2. \A x : Below(s, x) = Cardinality(B(x))
  BY <1>1 DEF Below
<1>3. \A x : B(x) \in SUBSET (1 .. Len(s))
  OBVIOUS
<1>4. \A x : IsFiniteSet(B(x)) /\ Cardinality(B(x)) \in Nat /\ Cardinality(B(x)) <= Len(s)
  BY <1>1, <1>3, FS_Subset, FS_CardinalityType
<1>5. \A x \in Int : Below(s, x) \in 0 .. Len(s)
  <2> HIDE DEF B
  <2> QED
    BY <1>1, <1>2, <1>4
<1>6. ASSUME NEW x \in Int, NEW y \in Int, x <= y PROVE Below(s, x) <= Below(s, y)
  <2>1. B(x) \in SUBSET B(y)
    BY <1>1, <1>6
  <2>2. IsFiniteSet(B(y))
    BY <1>4
  <2>3. Cardinality(B(x)) <= Cardinality(B(y))
    BY <2>1, <2>2, FS_Subset
  <2> HIDE DEF B
  <2> QED
    BY <1>2, <2>3
<1>7. ASSUME NEW j \in 1 .. Len(s) PROVE Below(s, s[j]) < Below(s, s[j] + 1)
  <2>1. B(s[j]) \in SUBSET B(s[j] + 1) /\ j \in B(s[j] + 1) /\ j \notin B(s[j])
    BY <1>1, <1>7
  <2>2. Cardinality(B(s[j])) <= Cardinality(B(s[j] + 1))
    BY <1>4, <2>1, FS_Subset
  <2>3. Cardinality(B(s[j])) # Cardinality(B(s[j] + 1))
    BY <1>4, <2>1, FS_Subset
  <2> HIDE DEF B
  <2> QED
    BY <1>2, <1>4, <2>2, <2>3
<1>8. ASSUME NEW x \in Int, \A j \in 1 .. Len(s) : s[j] # x PROVE Below(s, x + 1) = Below(s, x)
  <2>1. B(x + 1) = B(x)
    BY <1>1, <1>8
  <2> QED
    BY <1>2, <2>1
<1>9. Below(s, 0) = 0
  <2>1. B(0) = {}
    BY <1>1
  <2> QED
    BY <1>2, <2>1, FS_EmptySet
<1>10. ASSUME NEW x \in Int, \A j \in 1 .. Len(s) : s[j] < x PROVE Below(s, x) = Len(s)
  <2>1. B(x) = 1 .. Len(s)
    BY <1>10
  <2> QED
    BY <1>1, <1>2, <2>1
<1> QED
  BY <1>5, <1>6, <1>7, <1>8, <1>9, <1>10

(* Sorted has the members of s, in their order. *)
LEMMA SortedFacts ==
  ASSUME NEW M \in Nat, NEW s \in Seq(0 .. M)
  PROVE  /\ Sorted(s) \in Seq(0 .. M)
         /\ Len(Sorted(s)) = Len(s)
         /\ \A i \in 1 .. Len(s) : \E j \in 1 .. Len(s) : Sorted(s)[i] = s[j]
         /\ \A j \in 1 .. Len(s) : \E i \in 1 .. Len(s) : Sorted(s)[i] = s[j]
         /\ \A i, j \in 1 .. Len(s) : i < j => Sorted(s)[i] <= Sorted(s)[j]
<1> DEFINE S == {s[j] : j \in DOMAIN s}
           Ith(x, i) == Below(s, x) < i /\ i <= Below(s, x + 1)
           t == [i \in 1 .. Len(s) |-> CHOOSE x \in S : Ith(x, i)]
<1>1. /\ Len(s) \in Nat /\ DOMAIN s = 1 .. Len(s) /\ \A j \in 1 .. Len(s) : s[j] \in 0 .. M
      /\ s \in Seq(Nat) /\ S \in SUBSET (0 .. M)
  <2>1. Len(s) \in Nat /\ DOMAIN s = 1 .. Len(s) /\ \A j \in 1 .. Len(s) : s[j] \in 0 .. M
    OBVIOUS
  <2>2. \A j \in 1 .. Len(s) : s[j] \in Nat
    BY <2>1
  <2>3. s \in Seq(Nat)
    BY <2>2, SeqDef
  <2> QED
    BY <2>1, <2>3
<1>2. \A x \in Int : Below(s, x) \in 0 .. Len(s) /\ Below(s, x) \in Int
  BY <1>1, BelowFacts
<1>21. \A x, y \in Int : x <= y => Below(s, x) <= Below(s, y)
  BY <1>1, BelowFacts, Zenon
<1>22. \A j \in 1 .. Len(s) : Below(s, s[j]) < Below(s, s[j] + 1)
  BY <1>1, BelowFacts, Zenon
<1>23. \A x \in Int : (\A j \in 1 .. Len(s) : s[j] # x) => Below(s, x + 1) = Below(s, x)
  BY <1>1, BelowFacts, Zenon
<1>24. Below(s, 0) = 0 /\ \A x \in Int : (\A j \in 1 .. Len(s) : s[j] < x) => Below(s, x) = Len(s)
  BY <1>1, BelowFacts, Zenon
<1>3. Sorted(s) = t
  BY DEF Sorted
<1>4. ASSUME NEW i \in 1 .. Len(s) PROVE \E x \in S : Ith(x, i)
  <2> DEFINE f == [m \in 0 .. M + 1 |-> Below(s, m)]
  <2>1. /\ f \in [0 .. M + 1 -> Nat]
        /\ \A m \in 0 .. M + 1 : f[m] = Below(s, m)
    <3>1. \A m \in 0 .. M + 1 : m \in Int /\ (Below(s, m) \in 0 .. Len(s) => Below(s, m) \in Nat)
      BY <1>1
    <3> QED
      BY <1>2, <3>1
  <2>2. f[0] = 0 /\ f[M + 1] = Len(s)
    <3>1. \A j \in 1 .. Len(s) : s[j] < M + 1
      BY <1>1
    <3> QED
      BY <1>1, <1>24, <2>1, <3>1
  <2> HIDE DEF f
  <2>3. i \in Nat \ {0} /\ i <= f[M + 1]
    BY <1>1, <2>2
  <2>4. PICK m \in 0 .. M : f[m] < i /\ i <= f[m + 1]
    BY <2>1, <2>2, <2>3, Crossing
  <2>5. Below(s, m) < i /\ i <= Below(s, m + 1)
    BY <2>1, <2>4
  <2>6. \E j \in 1 .. Len(s) : s[j] = m
    <3>1. Below(s, m + 1) # Below(s, m)
      BY <1>1, <1>2, <2>5
    <3> QED
      BY <1>23, <3>1
  <2> QED
    BY <1>1, <2>5, <2>6
<1>5. \A i \in 1 .. Len(s) : t[i] \in S /\ Ith(t[i], i)
  <2> SUFFICES ASSUME NEW i \in 1 .. Len(s) PROVE t[i] \in S /\ Ith(t[i], i)
    OBVIOUS
  <2>1. t[i] = CHOOSE x \in S : Ith(x, i)
    OBVIOUS
  <2> HIDE DEF S, Ith, t
  <2> QED
    BY <1>4, <2>1
<1>6. t \in Seq(0 .. M) /\ Len(t) = Len(s)
  <2>1. DOMAIN t = 1 .. Len(s)
    OBVIOUS
  <2>2. \A i \in 1 .. Len(s) : t[i] \in 0 .. M
    BY <1>1, <1>5
  <2>3. t = [i \in 1 .. Len(s) |-> t[i]]
    OBVIOUS
  <2> HIDE DEF t
  <2> QED
    BY <1>1, <2>2, <2>3, IndexedIsSeq
<1> HIDE DEF t
<1>7. \A i \in 1 .. Len(s) : \E j \in 1 .. Len(s) : t[i] = s[j]
  BY <1>1, <1>5
<1>8. ASSUME NEW j \in 1 .. Len(s) PROVE \E i \in 1 .. Len(s) : t[i] = s[j]
  <2> DEFINE i == Below(s, s[j]) + 1
  <2>1. s[j] \in Int /\ s[j] + 1 \in Int
    BY <1>1
  <2>2. Below(s, s[j]) \in 0 .. Len(s) /\ Below(s, s[j] + 1) \in 0 .. Len(s)
    BY <1>2, <2>1
  <2>3. i \in 1 .. Len(s) /\ Below(s, s[j]) < i /\ i <= Below(s, s[j] + 1)
    BY <1>1, <1>22, <2>2
  <2>4. t[i] \in Int /\ Ith(t[i], i)
    BY <1>1, <1>5, <2>3
  <2> HIDE DEF i
  <2>5. ~(t[i] < s[j])
    <3> SUFFICES ASSUME t[i] < s[j] PROVE FALSE
      OBVIOUS
    <3>1. t[i] + 1 <= s[j] /\ t[i] + 1 \in Int
      BY <2>1, <2>4
    <3>2. Below(s, t[i] + 1) <= Below(s, s[j])
      BY <1>21, <2>1, <3>1
    <3>3. Below(s, t[i] + 1) \in Int
      BY <1>2, <3>1
    <3> QED
      BY <1>1, <2>2, <2>3, <2>4, <3>2, <3>3
  <2>6. ~(s[j] < t[i])
    <3> SUFFICES ASSUME s[j] < t[i] PROVE FALSE
      OBVIOUS
    <3>1. s[j] + 1 <= t[i]
      BY <2>1, <2>4
    <3>2. Below(s, s[j] + 1) <= Below(s, t[i])
      BY <1>21, <2>1, <2>4, <3>1
    <3>3. Below(s, t[i]) \in Int
      BY <1>2, <2>4
    <3> QED
      BY <1>1, <2>2, <2>3, <2>4, <3>2, <3>3
  <2> QED
    BY <2>1, <2>3, <2>4, <2>5, <2>6
<1>9. ASSUME NEW i \in 1 .. Len(s), NEW j \in 1 .. Len(s), i < j PROVE t[i] <= t[j]
  <2> SUFFICES ASSUME ~(t[i] <= t[j]) PROVE FALSE
    OBVIOUS
  <2>0. t[i] \in Int /\ t[j] \in Int
    BY <1>1, <1>5
  <2>1. t[i] \in Int /\ t[j] + 1 \in Int /\ t[j] + 1 <= t[i]
    BY <2>0
  <2>2. Below(s, t[i]) < i /\ j <= Below(s, t[j] + 1)
    BY <1>5
  <2>3. Below(s, t[j] + 1) <= Below(s, t[i])
    BY <1>21, <2>1
  <2>4. Below(s, t[j] + 1) \in Int /\ Below(s, t[i]) \in Int
    BY <1>2, <2>1
  <2> QED
    BY <1>1, <1>9, <2>2, <2>3, <2>4
<1> QED
  BY <1>3, <1>6, <1>7, <1>8, <1>9

(* The members of a set, in order. *)
LEMMA AscendingFacts ==
  ASSUME NEW M \in Nat, NEW S \in SUBSET (0 .. M)
  PROVE  /\ IsFiniteSet(S)
         /\ Ascending(S) \in Seq(S)
         /\ Len(Ascending(S)) = Cardinality(S)
         /\ \A x \in S : \E i \in 1 .. Len(Ascending(S)) : Ascending(S)[i] = x
         /\ \A i, j \in 1 .. Len(Ascending(S)) : i < j => Ascending(S)[i] < Ascending(S)[j]
<1> DEFINE B(x) == {y \in S : y < x}
           rank(x) == Cardinality(B(x))
           n == Cardinality(S)
           t == [i \in 1 .. n |-> CHOOSE x \in S : rank(x) = i - 1]
<1>0. \A y \in S : y \in Int /\ 0 <= y /\ y <= M
  OBVIOUS
<1>1. IsFiniteSet(S) /\ n \in Nat
  <2>1. IsFiniteSet(0 .. M)
    BY FS_Interval
  <2>2. IsFiniteSet(S)
    BY <2>1, FS_Subset
  <2> QED
    BY <2>2, FS_CardinalityType
<1>2. \A x \in Int : IsFiniteSet(B(x)) /\ rank(x) \in Nat /\ rank(x) <= n
  <2> SUFFICES ASSUME NEW x \in Int PROVE IsFiniteSet(B(x)) /\ rank(x) \in Nat /\ rank(x) <= n
    OBVIOUS
  <2>1. B(x) \in SUBSET S
    OBVIOUS
  <2> HIDE DEF B
  <2> QED
    BY <1>1, <2>1, FS_Subset, FS_CardinalityType
<1>3. ASSUME NEW x \in Int, NEW y \in Int, x <= y PROVE rank(x) <= rank(y)
  <2>1. B(x) \in SUBSET B(y)
    <3>1. \A z \in S : z < x => z < y
      BY <1>0, <1>3
    <3> QED
      BY <3>1, Zenon
  <2>2. IsFiniteSet(B(y))
    BY <1>2
  <2> HIDE DEF B
  <2> QED
    BY <2>1, <2>2, FS_Subset
<1>4. ASSUME NEW x \in S PROVE rank(x + 1) = rank(x) + 1
  <2>1. B(x + 1) = B(x) \cup {x} /\ x \notin B(x)
    <3>1. ~(x < x) /\ \A z \in S : z < x + 1 <=> (z < x \/ z = x)
      BY <1>0
    <3> QED
      BY <3>1, Zenon
  <2>2. IsFiniteSet(B(x))
    BY <1>0, <1>2
  <2> HIDE DEF B
  <2> QED
    BY <2>1, <2>2, FS_AddElement
<1>5. ASSUME NEW x \in Int, x \notin S PROVE rank(x + 1) = rank(x)
  <2>1. B(x + 1) = B(x)
    <3>1. \A z \in S : z < x + 1 <=> z < x
      BY <1>0, <1>5
    <3> QED
      BY <3>1, Zenon
  <2> QED
    BY <2>1
<1>6. rank(0) = 0 /\ rank(M + 1) = n
  <2>1. B(0) = {} /\ B(M + 1) = S
    <3>1. \A z \in S : ~(z < 0) /\ z < M + 1
      BY <1>0
    <3> QED
      BY <3>1, Zenon
  <2>2. Cardinality(B(0)) = 0
    BY <2>1, FS_EmptySet
  <2> QED
    BY <2>1, <2>2
<1> HIDE DEF B, rank
<1>7. ASSUME NEW i \in 1 .. n PROVE \E x \in S : rank(x) = i - 1
  <2> DEFINE f == [m \in 0 .. M + 1 |-> rank(m)]
  <2>1. f \in [0 .. M + 1 -> Nat] /\ \A m \in 0 .. M + 1 : f[m] = rank(m)
    BY <1>2
  <2>2. f[0] = 0 /\ f[M + 1] = n /\ i \in Nat \ {0} /\ i <= f[M + 1]
    BY <1>1, <1>6, <2>1
  <2> HIDE DEF f
  <2>3. PICK m \in 0 .. M : f[m] < i /\ i <= f[m + 1]
    BY <2>1, <2>2, Crossing
  <2>4. rank(m) < i /\ i <= rank(m + 1)
    BY <2>1, <2>3
  <2>5. m \in S
    <3>1. rank(m) # rank(m + 1)
      BY <1>1, <1>2, <2>4
    <3> QED
      BY <1>5, <3>1
  <2>6. rank(m) = i - 1
    BY <1>1, <1>2, <1>4, <2>4, <2>5
  <2> QED
    BY <2>5, <2>6
<1>8. \A i \in 1 .. n : t[i] \in S /\ rank(t[i]) = i - 1
  <2> SUFFICES ASSUME NEW i \in 1 .. n PROVE t[i] \in S /\ rank(t[i]) = i - 1
    OBVIOUS
  <2>1. t[i] = CHOOSE x \in S : rank(x) = i - 1
    OBVIOUS
  <2> HIDE DEF t
  <2> QED
    BY <1>7, <2>1
<1>9. t \in Seq(S) /\ Len(t) = n
  <2>1. t = [i \in 1 .. n |-> t[i]]
    OBVIOUS
  <2> HIDE DEF t, n
  <2> QED
    BY <1>1, <1>8, <2>1, IndexedIsSeq
<1>10. Ascending(S) = t
  BY Zenon DEF Ascending, t, rank, B, n
<1> HIDE DEF t, n
<1>11. ASSUME NEW x \in S PROVE \E i \in 1 .. n : t[i] = x
  <2> DEFINE i == rank(x) + 1
  <2>1. x \in Int /\ x + 1 \in Int /\ rank(x) \in Nat
    BY <1>0, <1>2
  <2>2. i \in 1 .. n /\ i - 1 = rank(x)
    BY <1>1, <1>2, <1>4, <2>1
  <2> HIDE DEF i
  <2>3. t[i] \in S /\ rank(t[i]) = rank(x)
    BY <1>8, <2>2
  <2>4. t[i] \in Int /\ rank(t[i]) \in Nat
    BY <1>0, <1>2, <2>3
  <2>5. ~(t[i] < x)
    <3> SUFFICES ASSUME t[i] < x PROVE FALSE
      OBVIOUS
    <3>1. t[i] + 1 \in Int /\ t[i] + 1 <= x
      BY <2>1, <2>4
    <3>2. rank(t[i] + 1) <= rank(x)
      BY <1>3, <2>1, <3>1
    <3> QED
      BY <1>4, <2>1, <2>3, <2>4, <3>2
  <2>6. ~(x < t[i])
    <3> SUFFICES ASSUME x < t[i] PROVE FALSE
      OBVIOUS
    <3>1. x + 1 <= t[i]
      BY <2>1, <2>4
    <3>2. rank(x + 1) <= rank(t[i])
      BY <1>3, <2>1, <2>4, <3>1
    <3> QED
      BY <1>4, <2>1, <2>3, <2>4, <3>2
  <2> QED
    BY <2>1, <2>2, <2>4, <2>5, <2>6
<1>12. ASSUME NEW i \in 1 .. n, NEW j \in 1 .. n, i < j PROVE t[i] < t[j]
  <2> SUFFICES ASSUME ~(t[i] < t[j]) PROVE FALSE
    OBVIOUS
  <2>1. t[i] \in Int /\ t[j] \in Int
    BY <1>0, <1>8
  <2>2. rank(t[j]) <= rank(t[i])
    BY <1>3, <2>1
  <2>3. rank(t[j]) = j - 1 /\ rank(t[i]) = i - 1
    BY <1>8
  <2> QED
    BY <1>1, <1>12, <2>2, <2>3
<1> QED
  BY <1>1, <1>9, <1>10, <1>11, <1>12 DEF n

---------------------------------------------------------------------------
(* The two halves of a range that is searched. *)
LEMMA Halves ==
  ASSUME NEW n \in Nat, NEW r \in (0 .. n) \X (0 .. n), r[1] < r[2]
  PROVE  LET mid == (r[1] + r[2]) \div 2
         IN  /\ r[1] \in 0 .. n /\ r[2] \in 0 .. n
             /\ mid \in Int /\ r[1] <= mid /\ mid < r[2]
             /\ mid + 1 \in 1 .. n
             /\ <<mid + 1, r[2]>> \in (0 .. n) \X (0 .. n)
             /\ <<r[1], mid>> \in (0 .. n) \X (0 .. n)
<1>1. r[1] \in 0 .. n /\ r[2] \in 0 .. n
  OBVIOUS
<1> QED
  BY <1>1

(* How far a range is from being empty. *)
Rank(n) == [r \in (0 .. n) \X (0 .. n) |-> r[2] + n - r[1]]

LEMMA RankFacts ==
  ASSUME NEW n \in Nat
  PROVE  /\ Rank(n) \in [(0 .. n) \X (0 .. n) -> 0 .. 2 * n]
         /\ \A r \in (0 .. n) \X (0 .. n) :
              LET mid == (r[1] + r[2]) \div 2
              IN  r[1] < r[2] => /\ Rank(n)[<<mid + 1, r[2]>>] < Rank(n)[r]
                                 /\ Rank(n)[<<r[1], mid>>] < Rank(n)[r]
<1>1. ASSUME NEW r \in (0 .. n) \X (0 .. n) PROVE Rank(n)[r] = r[2] + n - r[1] /\ Rank(n)[r] \in 0 .. 2 * n
  <2>1. r[1] \in 0 .. n /\ r[2] \in 0 .. n
    OBVIOUS
  <2>2. Rank(n)[r] = r[2] + n - r[1]
    BY DEF Rank
  <2> QED
    BY <2>1, <2>2
<1>2. Rank(n) \in [(0 .. n) \X (0 .. n) -> 0 .. 2 * n]
  <2>1. Rank(n) = [r \in (0 .. n) \X (0 .. n) |-> Rank(n)[r]]
    BY DEF Rank
  <2> QED
    BY <1>1, <2>1
<1>3. ASSUME NEW r \in (0 .. n) \X (0 .. n), r[1] < r[2], NEW mid, mid = (r[1] + r[2]) \div 2
      PROVE  Rank(n)[<<mid + 1, r[2]>>] < Rank(n)[r] /\ Rank(n)[<<r[1], mid>>] < Rank(n)[r]
  <2>1. /\ r[1] \in 0 .. n /\ r[2] \in 0 .. n
        /\ mid \in Int /\ r[1] <= mid /\ mid < r[2]
        /\ <<mid + 1, r[2]>> \in (0 .. n) \X (0 .. n)
        /\ <<r[1], mid>> \in (0 .. n) \X (0 .. n)
    BY <1>3, Halves
  <2>2. /\ Rank(n)[<<mid + 1, r[2]>>] = r[2] + n - (mid + 1)
        /\ Rank(n)[<<r[1], mid>>] = mid + n - r[1]
        /\ Rank(n)[r] = r[2] + n - r[1]
    BY <1>1, <2>1
  <2> QED
    BY <2>1, <2>2
<1> QED
  BY <1>2, <1>3

---------------------------------------------------------------------------
(* A search that halves its range until it stops exists. *)
Halving(n, Here, Stop, Up, g) ==
  \A r \in (0 .. n) \X (0 .. n) :
    LET mid == (r[1] + r[2]) \div 2
    IN  g[r] = IF r \in Stop THEN Here[r]
               ELSE IF r \in Up THEN g[<<mid + 1, r[2]>>]
               ELSE g[<<r[1], mid>>]

LEMMA HalvingExists ==
  ASSUME NEW n \in Nat, NEW Here, NEW Stop, NEW Up,
         \A r \in (0 .. n) \X (0 .. n) : r[1] >= r[2] => r \in Stop
  PROVE  \E g : Halving(n, Here, Stop, Up, g)
<1> DEFINE D == (0 .. n) \X (0 .. n)
           lo(r) == <<(r[1] + r[2]) \div 2 + 1, r[2]>>
           hi(r) == <<r[1], (r[1] + r[2]) \div 2>>
           Body(g, r) == IF r \in Stop THEN Here[r] ELSE IF r \in Up THEN g[lo(r)] ELSE g[hi(r)]
           rank == Rank(n)
           Upto(d) == \E g : \A r \in D : rank[r] < d => g[r] = Body(g, r)
           T == {d \in Nat : ~Upto(d)}
<1>1. ASSUME NEW r \in D, r \notin Stop
      PROVE  lo(r) \in D /\ hi(r) \in D /\ rank[lo(r)] < rank[r] /\ rank[hi(r)] < rank[r]
  <2>1. r[1] < r[2]
    <3>1. r[1] \in 0 .. n /\ r[2] \in 0 .. n /\ ~(r[1] >= r[2])
      BY <1>1
    <3> QED
      BY <3>1
  <2> QED
    BY <2>1, Halves, RankFacts
<1>2. \A r \in D : rank[r] \in Nat /\ rank[r] < 2 * n + 1
  <2>1. rank \in [D -> 0 .. 2 * n]
    BY RankFacts, Zenon
  <2> QED
    BY <2>1
<1> HIDE DEF D, lo, hi, rank
<1>3. Upto(0)
  <2>1. \A r \in D : ~(rank[r] < 0)
    BY <1>2
  <2> QED
    BY <2>1
<1>4. ASSUME NEW d \in Nat, Upto(d) PROVE Upto(d + 1)
  <2>1. PICK g : \A r \in D : rank[r] < d => g[r] = Body(g, r)
    BY <1>4
  <2> DEFINE h == [r \in D |-> Body(g, r)]
  <2>2. \A r \in D : h[r] = Body(g, r)
    OBVIOUS
  <2> HIDE DEF h
  <2>3. \A q \in D : rank[q] < d => h[q] = g[q]
    BY <2>1, <2>2
  <2>4. ASSUME NEW r \in D, rank[r] < d + 1 PROVE h[r] = Body(h, r)
    <3>1. CASE r \in Stop
      BY <2>2, <3>1
    <3>2. CASE r \notin Stop
      <4>1. rank[lo(r)] < d /\ rank[hi(r)] < d
        BY <1>1, <1>2, <2>4, <3>2
      <4>2. h[lo(r)] = g[lo(r)] /\ h[hi(r)] = g[hi(r)]
        BY <1>1, <2>3, <3>2, <4>1
      <4> QED
        BY <2>2, <4>2
    <3> QED
      BY <3>1, <3>2
  <2> QED
    BY <2>4
<1> HIDE DEF Upto
<1>5. ASSUME NEW d \in T, \A e \in T : d <= e PROVE FALSE
  <2>1. d \in Nat /\ d # 0 /\ ~Upto(d)
    BY <1>3
  <2>2. d - 1 \in Nat /\ ~(d <= d - 1) /\ (d - 1) + 1 = d
    BY <2>1
  <2>3. Upto(d - 1)
    BY <1>5, <2>2
  <2> QED
    BY <1>4, <2>1, <2>2, <2>3
<1>6. T = {}
  BY <1>5, SmallestNat
<1>7. Upto(2 * n + 1)
  BY <1>6
<1>8. PICK g : \A r \in D : g[r] = Body(g, r)
  BY <1>2, <1>7 DEF Upto
<1> QED
  BY <1>8, Zenon DEF Halving, Body, lo, hi, D

(* The search of sort.Search for h, among the points of s. *)
Searching(s, h, g) ==
  g = [r \in (0 .. Len(s)) \X (0 .. Len(s)) |->
        LET mid == (r[1] + r[2]) \div 2
        IN  IF r[1] >= r[2] THEN r[1]
            ELSE IF s[mid + 1] < h THEN g[<<mid + 1, r[2]>>]
            ELSE g[<<r[1], mid>>]]

LEMMA SearchExists ==
  ASSUME NEW M \in Nat, NEW s \in Seq(0 .. M), NEW h \in Int
  PROVE  \E g : Searching(s, h, g)
<1> DEFINE n == Len(s)
           D == (0 .. n) \X (0 .. n)
           Here == [r \in D |-> r[1]]
           Stop == {r \in D : r[1] >= r[2]}
           Up == {r \in D : s[(r[1] + r[2]) \div 2 + 1] < h}
<1>1. n \in Nat /\ Here \in [D -> 0 .. n] /\ \A r \in D : r[1] >= r[2] => r \in Stop
  OBVIOUS
<1>2. \A r \in D : /\ r \in Stop <=> r[1] >= r[2]
                   /\ r \in Up <=> s[(r[1] + r[2]) \div 2 + 1] < h
                   /\ Here[r] = r[1]
  OBVIOUS
<1> HIDE DEF n, Here, Stop, Up
<1>3. PICK f : Halving(n, Here, Stop, Up, f)
  BY <1>1, HalvingExists
<1> DEFINE g == [r \in D |-> f[r]]
           k == [r \in D |-> LET mid == (r[1] + r[2]) \div 2
                             IN  IF r[1] >= r[2] THEN r[1]
                                 ELSE IF s[mid + 1] < h THEN g[<<mid + 1, r[2]>>]
                                 ELSE g[<<r[1], mid>>]]
<1>4. ASSUME NEW r \in D PROVE g[r] = k[r]
  <2> DEFINE mid == (r[1] + r[2]) \div 2
  <2>1. f[r] = IF r[1] >= r[2] THEN r[1]
               ELSE IF s[mid + 1] < h THEN f[<<mid + 1, r[2]>>]
               ELSE f[<<r[1], mid>>]
    BY <1>2, <1>3 DEF Halving
  <2>2. ~(r[1] >= r[2]) => <<mid + 1, r[2]>> \in D /\ <<r[1], mid>> \in D
    <3>1. r[1] \in 0 .. n /\ r[2] \in 0 .. n
      OBVIOUS
    <3>2. ~(r[1] >= r[2]) => r[1] < r[2]
      BY <1>1, <3>1
    <3> QED
      BY <1>1, <3>2, Halves
  <2>3. ~(r[1] >= r[2]) => /\ f[<<mid + 1, r[2]>>] = g[<<mid + 1, r[2]>>]
                           /\ f[<<r[1], mid>>] = g[<<r[1], mid>>]
    <3> HIDE DEF D, mid
    <3> QED
      BY <2>2
  <2>4. g[r] = f[r]
    OBVIOUS
  <2>5. k[r] = IF r[1] >= r[2] THEN r[1]
               ELSE IF s[mid + 1] < h THEN g[<<mid + 1, r[2]>>]
               ELSE g[<<r[1], mid>>]
    OBVIOUS
  <2> HIDE DEF g, k, mid, D
  <2> QED
    BY <2>1, <2>3, <2>4, <2>5
<1>5. g = [r \in D |-> g[r]] /\ k = [r \in D |-> k[r]]
  OBVIOUS
<1>6. g = k
  <2> HIDE DEF g, k, D
  <2> QED
    BY <1>4, <1>5
<1> HIDE DEF g
<1>7. Searching(s, h, g)
  BY <1>6, Zenon DEF Searching, n
<1> QED
  BY <1>7

(* sort.Search finds, in a sequence in order, how many members are below h. *)
LEMMA SortSearchFacts ==
  ASSUME NEW M \in Nat, NEW s \in Seq(0 .. M), NEW h \in Int,
         \A i, j \in 1 .. Len(s) : i < j => s[i] <= s[j]
  PROVE  /\ SortSearch(s, h) \in 0 .. Len(s)
         /\ \A j \in 1 .. Len(s) : j <= SortSearch(s, h) <=> s[j] < h
<1> DEFINE n == Len(s)
           D == (0 .. n) \X (0 .. n)
           g == CHOOSE g : g = [r \in (0 .. Len(s)) \X (0 .. Len(s)) |->
                  LET mid == (r[1] + r[2]) \div 2
                  IN  IF r[1] >= r[2] THEN r[1]
                      ELSE IF s[mid + 1] < h THEN g[<<mid + 1, r[2]>>]
                      ELSE g[<<r[1], mid>>]]
           Found(k) == k \in 0 .. n /\ \A j \in 1 .. n : j <= k <=> s[j] < h
           AllBelow(a) == \A j \in 1 .. n : j <= a => s[j] < h
           NoneBelow(b) == \A j \in 1 .. n : b < j => ~(s[j] < h)
           P == {r \in D : r[1] <= r[2] /\ AllBelow(r[1]) /\ NoneBelow(r[2]) => Found(g[r])}
<1>1. SortSearch(s, h) = g[<<0, n>>]
  BY Zenon DEF SortSearch
<1>2. Searching(s, h, g)
  <2>1. \E x : Searching(s, h, x)
    BY SearchExists
  <2> QED
    BY <2>1, Zenon DEF Searching
<1> HIDE DEF g
<1>3. \A r \in D : g[r] = LET mid == (r[1] + r[2]) \div 2
                          IN  IF r[1] >= r[2] THEN r[1]
                              ELSE IF s[mid + 1] < h THEN g[<<mid + 1, r[2]>>]
                              ELSE g[<<r[1], mid>>]
  BY <1>2, Zenon DEF Searching
<1>4. n \in Nat /\ \A j \in 1 .. n : s[j] \in Int
  OBVIOUS
<1>5. \A m \in 1 .. n : s[m] < h => AllBelow(m)
  <2> SUFFICES ASSUME NEW m \in 1 .. n, s[m] < h, NEW j \in 1 .. n, j <= m PROVE s[j] < h
    OBVIOUS
  <2>1. CASE j = m
    BY <2>1
  <2>2. CASE j # m
    <3>1. j < m
      BY <2>2
    <3>2. s[j] <= s[m] /\ s[j] \in Int /\ s[m] \in Int
      BY <1>4, <3>1
    <3> QED
      BY <3>2
  <2> QED
    BY <2>1, <2>2
<1>6. \A m \in 0 .. n - 1 : ~(s[m + 1] < h) => NoneBelow(m)
  <2> SUFFICES ASSUME NEW m \in 0 .. n - 1, ~(s[m + 1] < h), NEW j \in 1 .. n, m < j
               PROVE  ~(s[j] < h)
    OBVIOUS
  <2>1. CASE j = m + 1
    BY <2>1
  <2>2. CASE j # m + 1
    <3>1. m + 1 < j /\ m + 1 \in 1 .. n
      BY <1>4, <2>2
    <3>2. s[m + 1] <= s[j] /\ s[j] \in Int /\ s[m + 1] \in Int
      BY <1>4, <3>1
    <3> QED
      BY <3>2
  <2> QED
    BY <2>1, <2>2
<1>7. \A a \in 0 .. n : AllBelow(a) /\ NoneBelow(a) => Found(a)
  BY <1>4
<1>8. AllBelow(0) /\ NoneBelow(n)
  BY <1>4
<1> HIDE DEF AllBelow, NoneBelow, Found
<1>9. ASSUME NEW r \in D, \A q \in D : Rank(n)[q] < Rank(n)[r] => q \in P
      PROVE  r \in P
  <2> SUFFICES ASSUME r[1] <= r[2], AllBelow(r[1]), NoneBelow(r[2])
               PROVE  Found(g[r])
    OBVIOUS
  <2>1. r[1] \in 0 .. n /\ r[2] \in 0 .. n /\ (r[1] >= r[2] <=> ~(r[1] < r[2]))
    BY <1>4
  <2>2. CASE r[1] = r[2]
    <3>1. g[r] = r[1]
      BY <1>3, <2>1, <2>2
    <3> QED
      BY <1>7, <2>1, <2>2, <3>1
  <2>3. CASE r[1] < r[2]
    <3> DEFINE mid == (r[1] + r[2]) \div 2
               lo == <<mid + 1, r[2]>>
               hi == <<r[1], mid>>
    <3>1. /\ mid \in Int /\ r[1] <= mid /\ mid < r[2] /\ mid + 1 \in 1 .. n
          /\ lo \in D /\ hi \in D /\ Rank(n)[lo] < Rank(n)[r] /\ Rank(n)[hi] < Rank(n)[r]
      BY <1>4, <2>3, Halves, RankFacts
    <3>2. g[r] = IF s[mid + 1] < h THEN g[lo] ELSE g[hi]
      <4> HIDE DEF D
      <4> QED
        BY <1>3, <2>1, <2>3
    <3>3. lo[1] = mid + 1 /\ lo[2] = r[2] /\ hi[1] = r[1] /\ hi[2] = mid
      OBVIOUS
    <3> HIDE DEF mid, lo, hi
    <3>4. lo \in P /\ hi \in P
      <4> HIDE DEF D, P
      <4> QED
        BY <1>9, <3>1
    <3>5. mid + 1 <= r[2] /\ mid \in 0 .. n - 1
      BY <1>4, <2>1, <3>1
    <3>6. CASE s[mid + 1] < h
      BY <1>5, <3>1, <3>2, <3>3, <3>4, <3>5, <3>6
    <3>7. CASE ~(s[mid + 1] < h)
      BY <1>6, <3>1, <3>2, <3>3, <3>4, <3>5, <3>7
    <3> QED
      BY <3>6, <3>7
  <2> QED
    BY <2>1, <2>2, <2>3
<1>10. \A r \in D : r \in P
  <2> DEFINE rank == Rank(n)
  <2>1. rank \in [D -> 0 .. 2 * n]
    BY <1>4, RankFacts, Zenon
  <2>2. \A r \in D : rank[r] \in Nat
    BY <1>4, <2>1
  <2>3. ASSUME NEW r \in D, \A q \in D : rank[q] < rank[r] => q \in P PROVE r \in P
    BY <1>9, <2>3
  <2> HIDE DEF D, P, rank
  <2> QED
    BY <2>2, <2>3, RankInduction
<1>11. <<0, n>> \in D /\ <<0, n>>[1] = 0 /\ <<0, n>>[2] = n
  BY <1>4
<1>12. Found(g[<<0, n>>])
  BY <1>4, <1>8, <1>10, <1>11
<1> QED
  BY <1>1, <1>12 DEF Found

---------------------------------------------------------------------------
(* The search of bsearch for x. *)
Bsearching(s, x, g) ==
  g = [r \in (0 .. Len(s)) \X (0 .. Len(s)) |->
        LET mid == (r[1] + r[2]) \div 2
        IN  IF r[1] >= r[2] THEN 0
            ELSE IF s[mid + 1] = x THEN mid + 1
            ELSE IF s[mid + 1] < x THEN g[<<mid + 1, r[2]>>]
            ELSE g[<<r[1], mid>>]]

LEMMA BsearchExists ==
  ASSUME NEW M \in Nat, NEW s \in Seq(0 .. M), NEW x \in Int
  PROVE  \E g : Bsearching(s, x, g)
<1> DEFINE n == Len(s)
           D == (0 .. n) \X (0 .. n)
           at(r) == s[(r[1] + r[2]) \div 2 + 1]
           Here == [r \in D |-> IF r[1] >= r[2] THEN 0 ELSE (r[1] + r[2]) \div 2 + 1]
           Stop == {r \in D : r[1] >= r[2] \/ at(r) = x}
           Up == {r \in D : at(r) < x}
<1>1. n \in Nat /\ \A r \in D : r[1] >= r[2] => r \in Stop
  OBVIOUS
<1>2. \A r \in D : /\ r \in Stop <=> (r[1] >= r[2] \/ at(r) = x)
                   /\ r \in Up <=> at(r) < x
                   /\ Here[r] = IF r[1] >= r[2] THEN 0 ELSE (r[1] + r[2]) \div 2 + 1
  OBVIOUS
<1> HIDE DEF n, Here, Stop, Up
<1>3. PICK f : Halving(n, Here, Stop, Up, f)
  BY <1>1, HalvingExists
<1> DEFINE g == [r \in D |-> f[r]]
           k == [r \in D |-> LET mid == (r[1] + r[2]) \div 2
                             IN  IF r[1] >= r[2] THEN 0
                                 ELSE IF s[mid + 1] = x THEN mid + 1
                                 ELSE IF s[mid + 1] < x THEN g[<<mid + 1, r[2]>>]
                                 ELSE g[<<r[1], mid>>]]
<1>4. ASSUME NEW r \in D PROVE g[r] = k[r]
  <2> DEFINE mid == (r[1] + r[2]) \div 2
  <2>1. f[r] = IF r[1] >= r[2] THEN 0
               ELSE IF s[mid + 1] = x THEN mid + 1
               ELSE IF s[mid + 1] < x THEN f[<<mid + 1, r[2]>>]
               ELSE f[<<r[1], mid>>]
    BY <1>2, <1>3 DEF Halving
  <2>2. ~(r[1] >= r[2]) => <<mid + 1, r[2]>> \in D /\ <<r[1], mid>> \in D
    <3>1. r[1] \in 0 .. n /\ r[2] \in 0 .. n
      OBVIOUS
    <3>2. ~(r[1] >= r[2]) => r[1] < r[2]
      BY <1>1, <3>1
    <3> QED
      BY <1>1, <3>2, Halves
  <2>3. ~(r[1] >= r[2]) => /\ f[<<mid + 1, r[2]>>] = g[<<mid + 1, r[2]>>]
                           /\ f[<<r[1], mid>>] = g[<<r[1], mid>>]
    <3> HIDE DEF D, mid
    <3> QED
      BY <2>2
  <2>4. g[r] = f[r]
    OBVIOUS
  <2>5. k[r] = IF r[1] >= r[2] THEN 0
               ELSE IF s[mid + 1] = x THEN mid + 1
               ELSE IF s[mid + 1] < x THEN g[<<mid + 1, r[2]>>]
               ELSE g[<<r[1], mid>>]
    OBVIOUS
  <2> HIDE DEF g, k, mid, D
  <2> QED
    BY <2>1, <2>3, <2>4, <2>5
<1>5. g = [r \in D |-> g[r]] /\ k = [r \in D |-> k[r]]
  OBVIOUS
<1>6. g = k
  <2> HIDE DEF g, k, D
  <2> QED
    BY <1>4, <1>5
<1> HIDE DEF g
<1>7. Bsearching(s, x, g)
  BY <1>6, Zenon DEF Bsearching, n
<1> QED
  BY <1>7

LEMMA BsearchFacts ==
  ASSUME NEW M \in Nat, NEW s \in Seq(0 .. M), NEW x \in Int,
         \A i, j \in 1 .. Len(s) : i < j => s[i] < s[j]
  PROVE  \/ bsearch(s, x) = 0 /\ \A j \in 1 .. Len(s) : s[j] # x
         \/ bsearch(s, x) \in 1 .. Len(s) /\ s[bsearch(s, x)] = x
<1> DEFINE n == Len(s)
           D == (0 .. n) \X (0 .. n)
           g == CHOOSE g : g = [r \in (0 .. Len(s)) \X (0 .. Len(s)) |->
                  LET mid == (r[1] + r[2]) \div 2
                  IN  IF r[1] >= r[2] THEN 0
                      ELSE IF s[mid + 1] = x THEN mid + 1
                      ELSE IF s[mid + 1] < x THEN g[<<mid + 1, r[2]>>]
                      ELSE g[<<r[1], mid>>]]
           Found(k) == \/ k = 0 /\ \A j \in 1 .. n : s[j] # x
                       \/ k \in 1 .. n /\ s[k] = x
           NotUpto(a) == \A j \in 1 .. n : j <= a => s[j] # x
           NotAfter(b) == \A j \in 1 .. n : b < j => s[j] # x
           P == {r \in D : r[1] <= r[2] /\ NotUpto(r[1]) /\ NotAfter(r[2]) => Found(g[r])}
<1>1. bsearch(s, x) = g[<<0, n>>]
  BY Zenon DEF bsearch
<1>2. Bsearching(s, x, g)
  <2>1. \E y : Bsearching(s, x, y)
    BY BsearchExists
  <2> QED
    BY <2>1, Zenon DEF Bsearching
<1> HIDE DEF g
<1>3. \A r \in D : g[r] = LET mid == (r[1] + r[2]) \div 2
                          IN  IF r[1] >= r[2] THEN 0
                              ELSE IF s[mid + 1] = x THEN mid + 1
                              ELSE IF s[mid + 1] < x THEN g[<<mid + 1, r[2]>>]
                              ELSE g[<<r[1], mid>>]
  BY <1>2, Zenon DEF Bsearching
<1>4. n \in Nat /\ \A j \in 1 .. n : s[j] \in Int
  OBVIOUS
<1>5. \A m \in 1 .. n : s[m] < x => NotUpto(m)
  <2> SUFFICES ASSUME NEW m \in 1 .. n, s[m] < x, NEW j \in 1 .. n, j <= m PROVE s[j] # x
    OBVIOUS
  <2>1. CASE j = m
    BY <1>4, <2>1
  <2>2. CASE j # m
    <3>1. j < m
      BY <2>2
    <3>2. s[j] < s[m] /\ s[j] \in Int /\ s[m] \in Int
      BY <1>4, <3>1
    <3> QED
      BY <3>2
  <2> QED
    BY <2>1, <2>2
<1>6. \A m \in 0 .. n - 1 : ~(s[m + 1] < x) /\ s[m + 1] # x => NotAfter(m)
  <2> SUFFICES ASSUME NEW m \in 0 .. n - 1, ~(s[m + 1] < x), s[m + 1] # x,
                      NEW j \in 1 .. n, m < j
               PROVE  s[j] # x
    OBVIOUS
  <2>1. CASE j = m + 1
    BY <2>1
  <2>2. CASE j # m + 1
    <3>1. m + 1 < j /\ m + 1 \in 1 .. n
      BY <1>4, <2>2
    <3>2. s[m + 1] < s[j] /\ s[j] \in Int /\ s[m + 1] \in Int
      BY <1>4, <3>1
    <3> QED
      BY <3>2
  <2> QED
    BY <2>1, <2>2
<1>7. \A a \in 0 .. n : NotUpto(a) /\ NotAfter(a) => Found(0)
  BY <1>4
<1>8. NotUpto(0) /\ NotAfter(n) /\ \A m \in 1 .. n : s[m] = x => Found(m)
  BY <1>4
<1> HIDE DEF NotUpto, NotAfter, Found
<1>9. ASSUME NEW r \in D, \A q \in D : Rank(n)[q] < Rank(n)[r] => q \in P
      PROVE  r \in P
  <2> SUFFICES ASSUME r[1] <= r[2], NotUpto(r[1]), NotAfter(r[2])
               PROVE  Found(g[r])
    OBVIOUS
  <2>1. r[1] \in 0 .. n /\ r[2] \in 0 .. n /\ (r[1] >= r[2] <=> ~(r[1] < r[2]))
    BY <1>4
  <2>2. CASE r[1] = r[2]
    <3>1. g[r] = 0
      BY <1>3, <2>1, <2>2
    <3> QED
      BY <1>7, <2>1, <2>2, <3>1
  <2>3. CASE r[1] < r[2]
    <3> DEFINE mid == (r[1] + r[2]) \div 2
               lo == <<mid + 1, r[2]>>
               hi == <<r[1], mid>>
    <3>1. /\ mid \in Int /\ r[1] <= mid /\ mid < r[2] /\ mid + 1 \in 1 .. n
          /\ lo \in D /\ hi \in D /\ Rank(n)[lo] < Rank(n)[r] /\ Rank(n)[hi] < Rank(n)[r]
      BY <1>4, <2>3, Halves, RankFacts
    <3>2. g[r] = IF s[mid + 1] = x THEN mid + 1 ELSE IF s[mid + 1] < x THEN g[lo] ELSE g[hi]
      <4> HIDE DEF D
      <4> QED
        BY <1>3, <2>1, <2>3
    <3>3. lo[1] = mid + 1 /\ lo[2] = r[2] /\ hi[1] = r[1] /\ hi[2] = mid
      OBVIOUS
    <3> HIDE DEF mid, lo, hi
    <3>4. lo \in P /\ hi \in P
      <4> HIDE DEF D, P
      <4> QED
        BY <1>9, <3>1
    <3>5. mid + 1 <= r[2] /\ mid \in 0 .. n - 1
      BY <1>4, <2>1, <3>1
    <3>6. CASE s[mid + 1] = x
      BY <1>8, <3>1, <3>2, <3>6
    <3>7. CASE s[mid + 1] # x /\ s[mid + 1] < x
      BY <1>5, <3>1, <3>2, <3>3, <3>4, <3>5, <3>7
    <3>8. CASE s[mid + 1] # x /\ ~(s[mid + 1] < x)
      BY <1>6, <3>1, <3>2, <3>3, <3>4, <3>5, <3>8
    <3> QED
      BY <3>6, <3>7, <3>8
  <2> QED
    BY <2>1, <2>2, <2>3
<1>10. \A r \in D : r \in P
  <2> DEFINE rank == Rank(n)
  <2>1. rank \in [D -> 0 .. 2 * n]
    BY <1>4, RankFacts, Zenon
  <2>2. \A r \in D : rank[r] \in Nat
    BY <1>4, <2>1
  <2>3. ASSUME NEW r \in D, \A q \in D : rank[q] < rank[r] => q \in P PROVE r \in P
    BY <1>9, <2>3
  <2> HIDE DEF D, P, rank
  <2> QED
    BY <2>2, <2>3, RankInduction
<1>11. <<0, n>> \in D /\ <<0, n>>[1] = 0 /\ <<0, n>>[2] = n
  BY <1>4
<1>12. Found(g[<<0, n>>])
  BY <1>4, <1>8, <1>10, <1>11
<1> QED
  BY <1>1, <1>12 DEF Found
=============================================================================
