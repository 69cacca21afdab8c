----------------------------- MODULE DataLemmas -----------------------------
(***************************************************************************)
(* Lemmas about data that the proofs of several modules need.  Induction:  *)
(* the library states it for an operator P(_); here it is stated for a set, *)
(* which every prover can instantiate, and derived from the library's      *)
(* theorem on minimal elements of well-founded relations.  With it, what a *)
(* filter keeps, what a sequence holds how often, and what FramePairing    *)
(* makes of the batches of a poll.                                         *)
(***************************************************************************)
EXTENDS FramePairing, FiniteSetTheorems, SequenceTheorems, WellFoundedInduction, TLAPS

Less == {p \in Nat \X Nat : p[1] < p[2]}

\* A nonempty set of natural numbers has a least one.
LEMMA LeastNatural == \A T \in SUBSET Nat : T # {} => \E x \in T : \A y \in T : x <= y
<1> SUFFICES ASSUME NEW T \in SUBSET Nat, T # {}
             PROVE  \E x \in T : \A y \in T : x <= y
  OBVIOUS
<1>1. Less = OpToRel(<, Nat)
  BY DEF OpToRel, Less
<1>2. IsWellFoundedOn(Less, Nat)
  BY <1>1, NatLessThanWellFounded
<1>3. PICK x \in T : \A y \in T : ~(<<y, x>> \in Less)
  BY <1>2, WFMin
<1>4. ASSUME NEW y \in T PROVE x <= y
  <2>1. x \in Nat /\ y \in Nat
    OBVIOUS
  <2>2. ~(<<y, x>> \in Less)
    BY <1>3
  <2>3. ~(y < x)
    BY <2>1, <2>2 DEF Less
  <2>4. QED
    BY <2>1, <2>3
<1>5. QED
  BY <1>4

\* A set with 0 in it, and with every number its successor, has all of them.
LEMMA InductionOnSets ==
    ASSUME NEW S, 0 \in S, \A n \in Nat : n \in S => n + 1 \in S
    PROVE  Nat \subseteq S
<1> DEFINE T == Nat \ S
<1> SUFFICES ASSUME T # {} PROVE FALSE
  OBVIOUS
<1>1. PICK x \in T : \A y \in T : x <= y
  BY LeastNatural
<1>2. x \in Nat /\ x # 0
  OBVIOUS
<1>3. x - 1 \in Nat /\ x - 1 \in S
  BY <1>1, <1>2
<1>4. QED
  BY <1>3

-----------------------------------------------------------------------------
(* What a filter has kept of the first i items of s, for i up to n, when K *)
(* are the places it keeps.                                                *)
KeptOf(s, K, n, h) ==
    h = [i \in 0 .. n |-> IF i = 0 THEN <<>>
                          ELSE IF i \in K THEN Append(h[i - 1], s[i]) ELSE h[i - 1]]

(* There is such a function, by induction on n.                            *)
LEMMA KeptExists ==
    ASSUME NEW s, NEW K
    PROVE  \A n \in Nat : \E h : KeptOf(s, K, n, h)
<1> DEFINE S == {n \in Nat : \E h : KeptOf(s, K, n, h)}
<1>1. 0 \in S
  <2>1. PICK h : h = [i \in 0 .. 0 |-> <<>>]
    OBVIOUS
  <2>2. \A i \in 0 .. 0 : i = 0
    OBVIOUS
  <2>3. h = [i \in 0 .. 0 |-> IF i = 0 THEN <<>>
                          ELSE IF i \in K THEN Append(h[i - 1], s[i]) ELSE h[i - 1]]
    BY <2>1, <2>2
  <2> QED BY <2>3 DEF KeptOf
<1>2. ASSUME NEW n \in Nat, n \in S PROVE n + 1 \in S
  <2>1. PICK h : KeptOf(s, K, n, h)
    BY <1>2
  <2>2. PICK last : last = IF n + 1 \in K THEN Append(h[n], s[n + 1]) ELSE h[n]
    OBVIOUS
  <2>3. PICK k : k = [i \in 0 .. n + 1 |-> IF i = n + 1 THEN last ELSE h[i]]
    OBVIOUS
  <2>4. \A i \in 0 .. n + 1 :
           k[i] = IF i = 0 THEN <<>> ELSE IF i \in K THEN Append(k[i - 1], s[i]) ELSE k[i - 1]
    <3> TAKE i \in 0 .. n + 1
    <3>1. CASE i = n + 1
      <4>1. i # 0 /\ i - 1 = n /\ n \in 0 .. n + 1 /\ n # n + 1
        BY <3>1
      <4>2. k[i] = last /\ k[i - 1] = h[n]
        BY <2>3, <3>1, <4>1
      <4> QED BY <2>2, <3>1, <4>1, <4>2, Zenon
    <3>2. CASE i # n + 1
      <4>1. i \in 0 .. n /\ k[i] = h[i]
        BY <2>3, <3>2
      <4>2. h[i] = IF i = 0 THEN <<>> ELSE IF i \in K THEN Append(h[i - 1], s[i]) ELSE h[i - 1]
        BY <2>1, <4>1, Zenon DEF KeptOf
      <4>3. i # 0 => i - 1 \in 0 .. n + 1 /\ i - 1 # n + 1
        BY <4>1
      <4>4. i # 0 => k[i - 1] = h[i - 1]
        BY <2>3, <4>3
      <4> QED BY <4>1, <4>2, <4>4, Zenon
    <3> QED BY <3>1, <3>2
  <2>5. k = [i \in 0 .. n + 1 |-> k[i]]
    BY <2>3
  <2>6. KeptOf(s, K, n + 1, k)
    BY <2>4, <2>5, Zenon DEF KeptOf
  <2> QED BY <2>6
<1> HIDE DEF S
<1>3. Nat \subseteq S
  BY <1>1, <1>2, InductionOnSets
<1> QED BY <1>3 DEF S

(* It ends with the items at the places in K, and with nothing else.       *)
LEMMA KeptItems ==
    ASSUME NEW D, NEW s \in Seq(D), NEW K, NEW h, KeptOf(s, K, Len(s), h)
    PROVE  /\ h[Len(s)] \in Seq(D)
           /\ \A j \in 1 .. Len(s) : j \in K => \E k \in 1 .. Len(h[Len(s)]) : h[Len(s)][k] = s[j]
           /\ \A k \in 1 .. Len(h[Len(s)]) : \E j \in K : h[Len(s)][k] = s[j] /\ j \in 1 .. Len(s)
<1> DEFINE Good(i, q) ==
             /\ q \in Seq(D)
             /\ \A j \in 1 .. i : j \in K => \E k \in 1 .. Len(q) : q[k] = s[j]
             /\ \A k \in 1 .. Len(q) : \E j \in K : q[k] = s[j] /\ j \in 1 .. i
           S == {n \in Nat : n <= Len(s) => \E q : q = h[n] /\ Good(n, q)}
<1>0. Len(s) \in Nat
  BY LenProperties
<1>1. \A i \in 0 .. Len(s) :
         h[i] = IF i = 0 THEN <<>> ELSE IF i \in K THEN Append(h[i - 1], s[i]) ELSE h[i - 1]
  BY Zenon DEF KeptOf
<1>2. 0 \in S
  <2>1. 0 \in 0 .. Len(s)
    BY <1>0
  <2>2. h[0] = <<>>
    BY <1>1, <2>1, Zenon
  <2>3. Good(0, <<>>)
    <3>1. <<>> \in Seq(D) /\ Len(<<>>) = 0
      BY EmptySeq
    <3> QED BY <3>1
  <2> HIDE DEF Good
  <2> QED BY <2>2, <2>3
<1>3. ASSUME NEW n \in Nat, n \in S PROVE n + 1 \in S
  <2> SUFFICES ASSUME n + 1 <= Len(s) PROVE \E q : q = h[n + 1] /\ Good(n + 1, q)
    OBVIOUS
  <2>1. PICK q : q = h[n] /\ Good(n, q)
    BY <1>0, <1>3
  <2>2. /\ q \in Seq(D) /\ Len(q) \in Nat /\ n + 1 \in 1 .. Len(s) /\ s[n + 1] \in D
    BY <1>0, <2>1, ElementOfSeq
  <2>3. PICK r : r = IF n + 1 \in K THEN Append(q, s[n + 1]) ELSE q
    OBVIOUS
  <2>4. h[n + 1] = r
    <3>1. n + 1 \in 0 .. Len(s) /\ n + 1 # 0 /\ (n + 1) - 1 = n
      BY <1>0
    <3> QED BY <1>1, <2>1, <2>3, <3>1, Zenon
  <2>5. CASE n + 1 \in K
    <3>1. /\ r \in Seq(D) /\ Len(r) = Len(q) + 1 /\ r[Len(q) + 1] = s[n + 1]
          /\ \A k \in 1 .. Len(q) : r[k] = q[k]
      BY <2>2, <2>3, <2>5, AppendProperties
    <3>2. ASSUME NEW j \in 1 .. n + 1, j \in K PROVE \E k \in 1 .. Len(r) : r[k] = s[j]
      <4>1. CASE j = n + 1
        <5>1. Len(q) + 1 \in 1 .. Len(r)
          BY <2>2, <3>1
        <5>2. r[Len(q) + 1] = s[j]
          BY <3>1, <4>1, Zenon
        <5> QED BY <5>1, <5>2
      <4>2. CASE j # n + 1
        <5>0. j \in 1 .. n /\ j \in K
          BY <3>2, <4>2
        <5>1. PICK k \in 1 .. Len(q) : q[k] = s[j]
          BY <2>1, <5>0, Zenon
        <5>2. k \in 1 .. Len(r) /\ r[k] = s[j]
          BY <2>2, <3>1, <5>1
        <5> QED BY <5>2
      <4> QED BY <4>1, <4>2
    <3>3. ASSUME NEW k \in 1 .. Len(r) PROVE \E j \in K : r[k] = s[j] /\ j \in 1 .. n + 1
      <4>1. CASE k = Len(q) + 1
        BY <2>2, <2>5, <3>1, <4>1
      <4>2. CASE k # Len(q) + 1
        <5>1. k \in 1 .. Len(q)
          BY <2>2, <3>1, <4>2
        <5>2. PICK j \in K : q[k] = s[j] /\ j \in 1 .. n
          BY <2>1, <5>1, Zenon
        <5>3. j \in 1 .. n + 1
          BY <5>2
        <5> QED BY <3>1, <5>1, <5>2, <5>3, Zenon
      <4> QED BY <4>1, <4>2
    <3>4. Good(n + 1, r)
      BY <3>1, <3>2, <3>3
    <3> HIDE DEF Good
    <3> QED BY <2>4, <3>4
  <2>6. CASE n + 1 \notin K
    <3>1. r = q
      BY <2>3, <2>6
    <3>2. \A j \in 1 .. n + 1 : j \in K => j \in 1 .. n
      BY <2>6
    <3>3. \A j \in 1 .. n : j \in 1 .. n + 1
      OBVIOUS
    <3>4. Good(n + 1, q)
      BY <2>1, <3>2, <3>3, Zenon
    <3> HIDE DEF Good
    <3> QED BY <2>4, <3>1, <3>4
  <2> QED BY <2>5, <2>6
<1> HIDE DEF S
<1>4. Nat \subseteq S
  BY <1>2, <1>3, InductionOnSets
<1>5. Len(s) \in S
  BY <1>0, <1>4
<1>6. PICK q : q = h[Len(s)] /\ Good(Len(s), q)
  BY <1>0, <1>5 DEF S
<1> QED BY <1>6, Zenon

-----------------------------------------------------------------------------
(* How many items of s are in X.                                           *)
PlacesOf(s, X) == {i \in DOMAIN s : s[i] \in X}
NumOf(s, X)    == Cardinality(PlacesOf(s, X))

(* It is a number, of places in s.                                         *)
LEMMA NumBounds ==
    ASSUME NEW S, NEW s \in Seq(S), NEW X
    PROVE  /\ PlacesOf(s, X) = {i \in 1 .. Len(s) : s[i] \in X}
           /\ IsFiniteSet(PlacesOf(s, X)) /\ NumOf(s, X) \in Nat /\ NumOf(s, X) <= Len(s)
<1>1. DOMAIN s = 1 .. Len(s) /\ Len(s) \in Nat
  BY LenProperties
<1>2. PlacesOf(s, X) = {i \in 1 .. Len(s) : s[i] \in X}
  BY <1>1, Zenon DEF PlacesOf
<1>3. PlacesOf(s, X) \in SUBSET (1 .. Len(s))
  BY <1>2
<1>4. IsFiniteSet(1 .. Len(s)) /\ Cardinality(1 .. Len(s)) = Len(s)
  <2>1. PICK n \in Nat : n = Len(s)
    BY <1>1
  <2>2. IsFiniteSet(1 .. n) /\ Cardinality(1 .. n) = n
    BY FS_Interval
  <2> QED BY <2>1, <2>2, ZenonT(60)
<1>5. IsFiniteSet(PlacesOf(s, X)) /\ Cardinality(PlacesOf(s, X)) <= Cardinality(1 .. Len(s))
  BY <1>3, <1>4, FS_Subset
<1>6. Cardinality(PlacesOf(s, X)) \in Nat
  BY <1>5, FS_CardinalityType
<1>7. NumOf(s, X) = Cardinality(PlacesOf(s, X))
  BY DEF NumOf
<1> QED BY <1>2, <1>4, <1>5, <1>6, <1>7

(* Two sequences, one behind the other.                                    *)
LEMMA NumConcat ==
    ASSUME NEW S, NEW s \in Seq(S), NEW t \in Seq(S), NEW X
    PROVE  NumOf(s \o t, X) = NumOf(s, X) + NumOf(t, X)
<1>1. /\ s \o t \in Seq(S) /\ Len(s) \in Nat /\ Len(t) \in Nat
      /\ Len(s \o t) = Len(s) + Len(t)
      /\ \A i \in 1 .. Len(s) + Len(t) : (s \o t)[i] = IF i <= Len(s) THEN s[i] ELSE t[i - Len(s)]
  BY ConcatProperties, LenProperties
<1>2. PICK m \in Nat, n \in Nat : m = Len(s) /\ n = Len(t)
  BY <1>1
<1>3. PICK A, B, C : A = PlacesOf(s, X) /\ B = PlacesOf(t, X) /\ C = PlacesOf(s \o t, X)
  OBVIOUS
<1>4. /\ \A i : i \in A <=> i \in 1 .. m /\ s[i] \in X
      /\ \A i : i \in B <=> i \in 1 .. n /\ t[i] \in X
      /\ \A i : i \in C <=> i \in 1 .. m + n /\ (s \o t)[i] \in X
      /\ IsFiniteSet(A) /\ IsFiniteSet(B) /\ IsFiniteSet(C)
  <2>1. /\ PlacesOf(s, X) = {i \in 1 .. Len(s) : s[i] \in X} /\ IsFiniteSet(PlacesOf(s, X))
        /\ PlacesOf(t, X) = {i \in 1 .. Len(t) : t[i] \in X} /\ IsFiniteSet(PlacesOf(t, X))
    BY NumBounds
  <2>2. /\ PlacesOf(s \o t, X) = {i \in 1 .. Len(s \o t) : (s \o t)[i] \in X}
        /\ IsFiniteSet(PlacesOf(s \o t, X))
    BY <1>1, NumBounds, Zenon
  <2>3. Len(s \o t) = m + n
    BY <1>1, <1>2, Zenon
  <2> QED BY <1>2, <1>3, <2>1, <2>2, <2>3, Zenon
<1>5. \A i \in 1 .. m + n : (s \o t)[i] = IF i <= m THEN s[i] ELSE t[i - m]
  BY <1>1, <1>2, Zenon
<1>6. PICK D : D = {i \in m + 1 .. m + n : t[i - m] \in X}
  OBVIOUS
<1>7. C = A \cup D
  <2>1. ASSUME NEW i \in C PROVE i \in A \cup D
    <3>0. i \in 1 .. m + n /\ (s \o t)[i] \in X
      BY <1>4, <2>1, Zenon
    <3>1. (i <= m => i \in 1 .. m) /\ (~(i <= m) => i \in m + 1 .. m + n)
      BY <3>0
    <3>2. CASE i <= m
      <4>1. s[i] \in X /\ i \in 1 .. m
        BY <1>5, <3>0, <3>1, <3>2, Zenon
      <4> QED BY <1>4, <4>1, Zenon
    <3>3. CASE ~(i <= m)
      <4>1. t[i - m] \in X /\ i \in m + 1 .. m + n
        BY <1>5, <3>0, <3>1, <3>3, Zenon
      <4> QED BY <1>6, <4>1
    <3> QED BY <3>2, <3>3
  <2>2. ASSUME NEW i \in A PROVE i \in C
    <3>1. i \in 1 .. m /\ i \in 1 .. m + n /\ i <= m /\ s[i] \in X
      BY <1>4, <2>2
    <3>2. (s \o t)[i] = s[i]
      BY <1>5, <3>1
    <3> QED BY <1>4, <3>1, <3>2
  <2>3. ASSUME NEW i \in D PROVE i \in C
    <3>1. i \in m + 1 .. m + n /\ i \in 1 .. m + n /\ ~(i <= m) /\ t[i - m] \in X
      BY <1>6, <2>3
    <3>2. (s \o t)[i] = t[i - m]
      BY <1>5, <3>1
    <3> QED BY <1>4, <3>1, <3>2
  <2> QED BY <2>1, <2>2, <2>3
<1>8. A \cap D = {}
  BY <1>4, <1>6
<1>9. ExistsBijection(B, D)
  <2>1. PICK f : f = [i \in B |-> i + m]
    OBVIOUS
  <2>2. f \in [B -> D] /\ \A i \in B : f[i] = i + m
    BY <1>4, <1>6, <2>1
  <2>3. \A i, j \in B : f[i] = f[j] => i = j
    BY <1>4, <2>2
  <2>4. ASSUME NEW d \in D PROVE \E i \in B : f[i] = d
    <3>1. d - m \in B /\ (d - m) + m = d
      BY <1>4, <1>6
    <3> QED BY <2>2, <3>1
  <2> QED BY <2>2, <2>3, <2>4, Zenon DEF ExistsBijection, Bijection, Injection, Surjection, IsInjective
<1>10. IsFiniteSet(D) /\ Cardinality(D) = Cardinality(B)
  BY <1>4, <1>9, FS_Bijection
<1>11. Cardinality(A \cup D) = Cardinality(A) + Cardinality(D) - Cardinality(A \cap D)
  BY <1>4, <1>10, FS_Union
<1>12. Cardinality(A) \in Nat /\ Cardinality(B) \in Nat /\ Cardinality({}) = 0
  BY <1>4, FS_CardinalityType, FS_EmptySet
<1>13. Cardinality(C) = Cardinality(A) + Cardinality(B)
  <2>1. Cardinality(C) = Cardinality(A) + Cardinality(B) - Cardinality({})
    BY <1>7, <1>8, <1>10, <1>11, Zenon
  <2> QED BY <1>12, <2>1
<1> QED BY <1>3, <1>13, Zenon DEF NumOf

(* One item.                                                               *)
LEMMA NumOne ==
    ASSUME NEW e, NEW X
    PROVE  NumOf(<<e>>, X) = IF e \in X THEN 1 ELSE 0
<1>1. DOMAIN <<e>> = {1} /\ <<e>>[1] = e
  OBVIOUS
<1>2. Cardinality({1}) = 1 /\ Cardinality({}) = 0
  BY FS_Singleton, FS_EmptySet
<1>3. CASE e \in X
  <2>1. PlacesOf(<<e>>, X) = {1}
    BY <1>1, <1>3 DEF PlacesOf
  <2> QED BY <1>2, <1>3, <2>1, Zenon DEF NumOf
<1>4. CASE e \notin X
  <2>1. PlacesOf(<<e>>, X) = {}
    BY <1>1, <1>4 DEF PlacesOf
  <2> QED BY <1>2, <1>4, <2>1, Zenon DEF NumOf
<1> QED BY <1>3, <1>4

LEMMA NumEmpty == \A X : NumOf(<<>>, X) = 0
<1> SUFFICES ASSUME NEW X PROVE NumOf(<<>>, X) = 0
  OBVIOUS
<1>1. PlacesOf(<<>>, X) = {}
  BY DEF PlacesOf
<1> QED BY <1>1, FS_EmptySet, Zenon DEF NumOf

(* One item more, at the end, or at the head.                              *)
LEMMA NumAppend ==
    ASSUME NEW S, NEW s \in Seq(S), NEW e \in S, NEW X
    PROVE  NumOf(Append(s, e), X) = NumOf(s, X) + (IF e \in X THEN 1 ELSE 0)
<1>1. Append(s, e) = s \o <<e>>
  BY AppendIsConcat
<1>2. <<e>> \in Seq(S)
  OBVIOUS
<1>3. NumOf(s \o <<e>>, X) = NumOf(s, X) + NumOf(<<e>>, X)
  BY <1>2, NumConcat
<1> QED BY <1>1, <1>3, NumOne, Zenon

LEMMA NumHeadTail ==
    ASSUME NEW S, NEW s \in Seq(S), s # <<>>, NEW X
    PROVE  NumOf(s, X) = (IF Head(s) \in X THEN 1 ELSE 0) + NumOf(Tail(s), X)
<1>1. Len(s) \in Nat \ {0} /\ Head(s) \in S /\ Tail(s) \in Seq(S)
  BY EmptySeq, HeadTailProperties
<1>2. s = <<Head(s)>> \o Tail(s)
  <2>1. 1 \in 1 .. Len(s) /\ Len(s) \in 1 .. Len(s) /\ 1 + 1 = 2
    BY <1>1
  <2>2. SubSeq(s, 1, Len(s)) = <<s[1]>> \o SubSeq(s, 1 + 1, Len(s))
    BY <2>1, SubSeqRecursiveFirst, Zenon
  <2>3. SubSeq(s, 1, Len(s)) = s /\ Tail(s) = SubSeq(s, 2, Len(s)) /\ Head(s) = s[1]
    BY SubSeqFull, TailIsSubSeq
  <2> QED BY <2>1, <2>2, <2>3, Zenon
<1>3. <<Head(s)>> \in Seq(S)
  BY <1>1
<1>4. NumOf(<<Head(s)>> \o Tail(s), X) = NumOf(<<Head(s)>>, X) + NumOf(Tail(s), X)
  BY <1>1, <1>3, NumConcat
<1>5. NumOf(<<Head(s)>>, X) = IF Head(s) \in X THEN 1 ELSE 0
  BY NumOne
<1> QED BY <1>2, <1>4, <1>5, Zenon

(* One item less.                                                          *)
LEMMA NumRemove ==
    ASSUME NEW S, NEW s \in Seq(S), NEW i \in 1 .. Len(s)
    PROVE  /\ RemoveAt(s, i) \in Seq(S) /\ Len(RemoveAt(s, i)) = Len(s) - 1
           /\ \A k \in 1 .. Len(s) - 1 : \E j \in 1 .. Len(s) : RemoveAt(s, i)[k] = s[j]
           /\ \A X : NumOf(s, X) = NumOf(RemoveAt(s, i), X) + (IF s[i] \in X THEN 1 ELSE 0)
<1>1. PICK n \in Nat : n = Len(s)
  BY LenProperties
<1>2. i \in 1 .. n /\ \A k \in 1 .. n : s[k] \in S
  BY <1>1, ElementOfSeq
<1>3. PICK a, b : a = SubSeq(s, 1, i - 1) /\ b = SubSeq(s, i + 1, n)
  OBVIOUS
<1>4. a \in Seq(S) /\ Len(a) = i - 1 /\ \A k \in 1 .. i - 1 : a[k] = s[k]
  <2>1. 1 \in Int /\ i - 1 \in Int /\ \A k \in 1 .. i - 1 : s[k] \in S
    BY <1>2
  <2>2. /\ SubSeq(s, 1, i - 1) \in Seq(S)
        /\ Len(SubSeq(s, 1, i - 1)) = IF 1 <= i - 1 THEN i - 1 - 1 + 1 ELSE 0
        /\ \A k \in 1 .. i - 1 - 1 + 1 : SubSeq(s, 1, i - 1)[k] = s[1 + k - 1]
    BY <2>1, SubSeqProperties
  <2>3. (IF 1 <= i - 1 THEN i - 1 - 1 + 1 ELSE 0) = i - 1 /\ i - 1 - 1 + 1 = i - 1
        /\ \A k \in 1 .. i - 1 : 1 + k - 1 = k
    BY <1>2
  <2> QED BY <1>3, <2>2, <2>3, Zenon
<1>5. b \in Seq(S) /\ Len(b) = n - i /\ \A k \in 1 .. n - i : b[k] = s[i + k]
  <2>1. i + 1 \in Int /\ n \in Int /\ \A k \in i + 1 .. n : s[k] \in S
    BY <1>2
  <2>2. /\ SubSeq(s, i + 1, n) \in Seq(S)
        /\ Len(SubSeq(s, i + 1, n)) = IF i + 1 <= n THEN n - (i + 1) + 1 ELSE 0
        /\ \A k \in 1 .. n - (i + 1) + 1 : SubSeq(s, i + 1, n)[k] = s[i + 1 + k - 1]
    BY <2>1, SubSeqProperties
  <2>3. (IF i + 1 <= n THEN n - (i + 1) + 1 ELSE 0) = n - i /\ n - (i + 1) + 1 = n - i
        /\ \A k \in 1 .. n - i : i + 1 + k - 1 = i + k
    BY <1>2
  <2> QED BY <1>3, <2>2, <2>3, Zenon
<1>6. RemoveAt(s, i) = a \o b
  BY <1>1, <1>3, Zenon DEF RemoveAt
<1>7. s = a \o (<<s[i]>> \o b)
  <2>1. i \in 1 .. Len(s) /\ Len(s) \in i .. Len(s) /\ 1 \in 1 .. Len(s) + 1
        /\ i - 1 \in 1 - 1 .. Len(s) /\ Len(s) \in i - 1 .. Len(s) /\ i - 1 + 1 = i
    BY <1>1, <1>2
  <2>2. SubSeq(s, i, Len(s)) = <<s[i]>> \o SubSeq(s, i + 1, Len(s))
    BY <2>1, SubSeqRecursiveFirst, Zenon
  <2>3. SubSeq(s, 1, i - 1) \o SubSeq(s, i - 1 + 1, Len(s)) = SubSeq(s, 1, Len(s))
    BY <2>1, ConcatAdjacentSubSeq, Zenon
  <2>4. SubSeq(s, 1, Len(s)) = s
    BY SubSeqFull
  <2> QED BY <1>1, <1>3, <2>1, <2>2, <2>3, <2>4, Zenon
<1>8. <<s[i]>> \in Seq(S)
  BY <1>2
<1>9. <<s[i]>> \o b \in Seq(S)
  BY <1>5, <1>8, ConcatProperties
<1>10. ASSUME NEW X
       PROVE  NumOf(s, X) = NumOf(RemoveAt(s, i), X) + (IF s[i] \in X THEN 1 ELSE 0)
  <2>1. NumOf(a \o b, X) = NumOf(a, X) + NumOf(b, X)
    BY <1>4, <1>5, NumConcat
  <2>2. NumOf(a \o (<<s[i]>> \o b), X) = NumOf(a, X) + NumOf(<<s[i]>> \o b, X)
    BY <1>4, <1>9, NumConcat, ZenonT(60)
  <2>3. NumOf(<<s[i]>> \o b, X) = NumOf(<<s[i]>>, X) + NumOf(b, X)
    BY <1>5, <1>8, NumConcat, ZenonT(60)
  <2>4. NumOf(<<s[i]>>, X) = IF s[i] \in X THEN 1 ELSE 0
    BY NumOne
  <2>5. NumOf(a, X) \in Nat /\ NumOf(b, X) \in Nat
    BY <1>4, <1>5, NumBounds
  <2>6. NumOf(s, X) = NumOf(a, X) + ((IF s[i] \in X THEN 1 ELSE 0) + NumOf(b, X))
    BY <1>7, <2>2, <2>3, <2>4, Zenon
  <2>7. NumOf(RemoveAt(s, i), X) = NumOf(a, X) + NumOf(b, X)
    BY <1>6, <2>1, Zenon
  <2> QED BY <2>5, <2>6, <2>7
<1>11. /\ a \o b \in Seq(S) /\ Len(a \o b) = (i - 1) + (n - i)
       /\ \A k \in 1 .. (i - 1) + (n - i) : (a \o b)[k] = IF k <= i - 1 THEN a[k] ELSE b[k - (i - 1)]
  <2>1. /\ a \o b \in Seq(S) /\ Len(a \o b) = Len(a) + Len(b)
        /\ \A k \in 1 .. Len(a) + Len(b) : (a \o b)[k] = IF k <= Len(a) THEN a[k] ELSE b[k - Len(a)]
    BY <1>4, <1>5, ConcatProperties
  <2> QED BY <1>4, <1>5, <2>1, Zenon
<1>12. (i - 1) + (n - i) = n - 1
  BY <1>2
<1>13. ASSUME NEW k \in 1 .. n - 1 PROVE \E j \in 1 .. n : (a \o b)[k] = s[j]
  <2>1. CASE k <= i - 1
    <3>1. k \in 1 .. i - 1 /\ k \in 1 .. n
      BY <1>2, <2>1
    <3>2. (a \o b)[k] = s[k]
      BY <1>4, <1>11, <1>12, <2>1, <3>1, Zenon
    <3> QED BY <3>1, <3>2, Zenon
  <2>2. CASE ~(k <= i - 1)
    <3>1. k - (i - 1) \in 1 .. n - i /\ i + (k - (i - 1)) \in 1 .. n
      BY <1>2, <2>2
    <3>2. (a \o b)[k] = s[i + (k - (i - 1))]
      BY <1>5, <1>11, <1>12, <2>2, <3>1, Zenon
    <3> QED BY <3>1, <3>2, Zenon
  <2> QED BY <2>1, <2>2
<1>14. RemoveAt(s, i) \in Seq(S) /\ Len(RemoveAt(s, i)) = Len(s) - 1
  BY <1>1, <1>6, <1>11, <1>12, Zenon
<1> QED BY <1>1, <1>6, <1>10, <1>13, <1>14, Zenon

(* What is in X or in Y; all; and none.                                    *)
LEMMA NumSplit ==
    ASSUME NEW S, NEW s \in Seq(S), NEW X, NEW Y, X \cap Y = {}
    PROVE  NumOf(s, X \cup Y) = NumOf(s, X) + NumOf(s, Y)
<1>1. PlacesOf(s, X \cup Y) = PlacesOf(s, X) \cup PlacesOf(s, Y)
      /\ PlacesOf(s, X) \cap PlacesOf(s, Y) = {}
  BY DEF PlacesOf
<1>2. /\ IsFiniteSet(PlacesOf(s, X)) /\ IsFiniteSet(PlacesOf(s, Y))
      /\ NumOf(s, X) \in Nat /\ NumOf(s, Y) \in Nat
  BY NumBounds
<1>3. Cardinality(PlacesOf(s, X) \cup PlacesOf(s, Y)) = Cardinality(PlacesOf(s, X))
          + Cardinality(PlacesOf(s, Y)) - Cardinality(PlacesOf(s, X) \cap PlacesOf(s, Y))
  BY <1>2, FS_Union
<1>4. NumOf(s, X \cup Y) = NumOf(s, X) + NumOf(s, Y) - 0
  BY <1>1, <1>3, FS_EmptySet, Zenon DEF NumOf
<1> QED BY <1>2, <1>4

LEMMA NumAll ==
    ASSUME NEW X, NEW s \in Seq(X)
    PROVE  NumOf(s, X) = Len(s)
<1>1. PICK n \in Nat : n = Len(s)
  BY LenProperties
<1>2. PlacesOf(s, X) = 1 .. n
  <2>1. DOMAIN s = 1 .. n /\ \A i \in 1 .. n : s[i] \in X
    BY <1>1, LenProperties, ElementOfSeq
  <2> QED BY <2>1, Zenon DEF PlacesOf
<1>3. Cardinality(1 .. n) = n
  BY FS_Interval
<1> QED BY <1>1, <1>2, <1>3, Zenon DEF NumOf

LEMMA NumNone ==
    ASSUME NEW S, NEW s \in Seq(S), NEW X
    PROVE  NumOf(s, X) = 0 <=> \A i \in 1 .. Len(s) : s[i] \notin X
<1>1. PlacesOf(s, X) = {i \in 1 .. Len(s) : s[i] \in X} /\ IsFiniteSet(PlacesOf(s, X))
  BY NumBounds
<1>2. NumOf(s, X) = 0 <=> PlacesOf(s, X) = {}
  BY <1>1, FS_EmptySet, Zenon DEF NumOf
<1> QED BY <1>1, <1>2, Zenon

LEMMA NumWithin ==
    ASSUME NEW S, NEW s \in Seq(S), NEW X, NEW Y, X \subseteq Y
    PROVE  NumOf(s, X) <= NumOf(s, Y)
<1>1. PlacesOf(s, X) \in SUBSET PlacesOf(s, Y)
  BY DEF PlacesOf
<1>2. IsFiniteSet(PlacesOf(s, Y))
  BY NumBounds
<1> QED BY <1>1, <1>2, FS_Subset, Zenon DEF NumOf

(* A filter keeps of X what lies at the places it keeps.                   *)
KeptPlaces(s, K, n, X) == {i \in 1 .. n : i \in K /\ s[i] \in X}

LEMMA NumKept ==
    ASSUME NEW D, NEW s \in Seq(D), NEW K, NEW h, KeptOf(s, K, Len(s), h), NEW X
    PROVE  NumOf(h[Len(s)], X) = Cardinality(KeptPlaces(s, K, Len(s), X))
<1> DEFINE Held(n) == {i \in 1 .. n : i \in K /\ s[i] \in X}
           Good(n, q) == q \in Seq(D) /\ NumOf(q, X) = Cardinality(Held(n))
           S == {n \in Nat : n <= Len(s) => \E q : q = h[n] /\ Good(n, q)}
<1>0. Len(s) \in Nat
  BY LenProperties
<1>1. \A i \in 0 .. Len(s) :
         h[i] = IF i = 0 THEN <<>> ELSE IF i \in K THEN Append(h[i - 1], s[i]) ELSE h[i - 1]
  BY Zenon DEF KeptOf
<1>2. 0 \in S
  <2>1. h[0] = <<>>
    <3>1. 0 \in 0 .. Len(s)
      BY <1>0
    <3> QED BY <1>1, <3>1, Zenon
  <2>2. Held(0) = {}
    OBVIOUS
  <2>3. Good(0, <<>>)
    <3>1. <<>> \in Seq(D) /\ NumOf(<<>>, X) = 0 /\ Cardinality({}) = 0
      BY EmptySeq, NumEmpty, FS_EmptySet
    <3> HIDE DEF Held
    <3> QED BY <2>2, <3>1, Zenon
  <2> HIDE DEF Good
  <2> QED BY <2>1, <2>3
<1>3. ASSUME NEW n \in Nat, n \in S PROVE n + 1 \in S
  <2> SUFFICES ASSUME n + 1 <= Len(s) PROVE \E q : q = h[n + 1] /\ Good(n + 1, q)
    OBVIOUS
  <2>1. PICK q : q = h[n] /\ Good(n, q)
    <3> HIDE DEF Good
    <3> QED BY <1>0, <1>3
  <2>2. s[n + 1] \in D /\ n + 1 \in 1 .. Len(s)
    BY <1>0, ElementOfSeq
  <2>3. h[n + 1] = IF n + 1 \in K THEN Append(q, s[n + 1]) ELSE q
    <3>1. n + 1 \in 0 .. Len(s) /\ n + 1 # 0 /\ (n + 1) - 1 = n
      BY <1>0
    <3> QED BY <1>1, <2>1, <3>1, Zenon
  <2>4. IsFiniteSet(Held(n)) /\ Cardinality(Held(n)) \in Nat
    <3>1. IsFiniteSet(1 .. n) /\ Held(n) \in SUBSET (1 .. n)
      BY FS_Interval
    <3> HIDE DEF Held
    <3> QED BY <3>1, FS_Subset, FS_CardinalityType
  <2>5. n + 1 \notin Held(n)
    OBVIOUS
  <2>6. CASE n + 1 \in K /\ s[n + 1] \in X
    <3>1. Held(n + 1) = Held(n) \cup {n + 1}
      BY <2>6
    <3>2. Cardinality(Held(n) \cup {n + 1}) = Cardinality(Held(n)) + 1
      <4> HIDE DEF Held
      <4> QED BY <2>4, <2>5, FS_AddElement
    <3>3. Append(q, s[n + 1]) \in Seq(D) /\ NumOf(Append(q, s[n + 1]), X) = NumOf(q, X) + 1
      <4>1. q \in Seq(D)
        BY <2>1
      <4>2. NumOf(Append(q, s[n + 1]), X) = NumOf(q, X) + (IF s[n + 1] \in X THEN 1 ELSE 0)
        BY <2>2, <4>1, NumAppend
      <4>3. Append(q, s[n + 1]) \in Seq(D)
        BY <2>2, <4>1, AppendProperties
      <4> QED BY <2>6, <4>2, <4>3, Zenon
    <3>4. Good(n + 1, Append(q, s[n + 1]))
      <4> HIDE DEF Held
      <4> QED BY <2>1, <3>1, <3>2, <3>3, Zenon
    <3> HIDE DEF Good
    <3> QED BY <2>3, <2>6, <3>4, Zenon
  <2>7. CASE ~(n + 1 \in K /\ s[n + 1] \in X)
    <3>1. Held(n + 1) = Held(n)
      BY <2>7
    <3>2. CASE n + 1 \in K
      <4>1. q \in Seq(D)
        BY <2>1
      <4>2. NumOf(Append(q, s[n + 1]), X) = NumOf(q, X) + (IF s[n + 1] \in X THEN 1 ELSE 0)
        BY <2>2, <4>1, NumAppend
      <4>3. NumOf(q, X) \in Nat /\ s[n + 1] \notin X
        BY <2>7, <3>2, <4>1, NumBounds
      <4>4. NumOf(Append(q, s[n + 1]), X) = NumOf(q, X)
        BY <4>2, <4>3
      <4>5. Append(q, s[n + 1]) \in Seq(D)
        BY <2>2, <4>1, AppendProperties
      <4>6. Good(n + 1, Append(q, s[n + 1]))
        <5> HIDE DEF Held
        <5> QED BY <2>1, <3>1, <4>4, <4>5, Zenon
      <4> HIDE DEF Good
      <4> QED BY <2>3, <3>2, <4>6, Zenon
    <3>3. CASE n + 1 \notin K
      <4>1. Good(n + 1, q)
        <5> HIDE DEF Held
        <5> QED BY <2>1, <3>1, Zenon
      <4> HIDE DEF Good
      <4> QED BY <2>3, <3>3, <4>1, Zenon
    <3> QED BY <3>2, <3>3
  <2> QED BY <2>6, <2>7
<1> HIDE DEF S
<1>4. Nat \subseteq S
  BY <1>2, <1>3, InductionOnSets
<1>5. Len(s) \in S
  BY <1>0, <1>4
<1>6. PICK q : q = h[Len(s)] /\ Good(Len(s), q)
  <2> HIDE DEF Good
  <2> QED BY <1>0, <1>5 DEF S
<1> QED BY <1>6, Zenon DEF KeptPlaces

-----------------------------------------------------------------------------
(* The observations of a pass with keys in P.                              *)
Observation(P) == [source : Source, key : P, generation : Nat]

(* What is not too old is retained, the rest is counted, source by source.  *)
LEMMA RetainedItems ==
    ASSUME NEW P, NEW list \in Seq(Observation(P)), NEW minimum \in Int
    PROVE  /\ Retained(list, minimum) \in Seq(Observation(P))
           /\ \A k \in 1 .. Len(Retained(list, minimum)) :
                 /\ Retained(list, minimum)[k].generation >= minimum
                 /\ \E j \in 1 .. Len(list) : Retained(list, minimum)[k] = list[j]
           /\ \A X : NumOf(Retained(list, minimum), X) = Cardinality(
                        {i \in 1 .. Len(list) : list[i].generation >= minimum /\ list[i] \in X})
<1> DEFINE K == {i \in 1 .. Len(list) : list[i].generation >= minimum}
<1>0. Len(list) \in Nat
  BY LenProperties
<1>1. \E h : KeptOf(list, K, Len(list), h)
  BY <1>0, KeptExists
<1>2. PICK h : KeptOf(list, K, Len(list), h) /\ Retained(list, minimum) = h[Len(list)]
  <2>1. \A h : KeptOf(list, K, Len(list), h) <=>
            h = [i \in 0 .. Len(list) |->
                    IF i = 0 THEN <<>>
                    ELSE IF list[i].generation >= minimum THEN Append(h[i - 1], list[i])
                    ELSE h[i - 1]]
    <3> TAKE h
    <3>1. \A i \in 0 .. Len(list) : i # 0 => (i \in K <=> list[i].generation >= minimum)
      BY <1>0
    <3>2. [i \in 0 .. Len(list) |-> IF i = 0 THEN <<>>
                          ELSE IF i \in K THEN Append(h[i - 1], list[i]) ELSE h[i - 1]]
          = [i \in 0 .. Len(list) |->
                    IF i = 0 THEN <<>>
                    ELSE IF list[i].generation >= minimum THEN Append(h[i - 1], list[i])
                    ELSE h[i - 1]]
      <4> HIDE DEF K
      <4> QED BY <3>1, Zenon
    <3> HIDE DEF K
    <3> QED BY <3>2, Zenon DEF KeptOf
  <2> HIDE DEF K
  <2> QED BY <1>1, <2>1, Zenon DEF Retained
<1>3. PICK q : q = Retained(list, minimum)
  OBVIOUS
<1>4. /\ q \in Seq(Observation(P))
      /\ \A k \in 1 .. Len(q) : \E j \in K : q[k] = list[j] /\ j \in 1 .. Len(list)
  <2> HIDE DEF K
  <2>1. /\ h[Len(list)] \in Seq(Observation(P))
        /\ \A k \in 1 .. Len(h[Len(list)]) : \E j \in K : h[Len(list)][k] = list[j] /\ j \in 1 .. Len(list)
    BY <1>2, KeptItems
  <2> QED BY <1>2, <1>3, <2>1, Zenon
<1>5. ASSUME NEW k \in 1 .. Len(q)
      PROVE  q[k].generation >= minimum /\ \E j \in 1 .. Len(list) : q[k] = list[j]
  <2>1. PICK j \in K : q[k] = list[j] /\ j \in 1 .. Len(list)
    <3> HIDE DEF K
    <3> QED BY <1>4, Zenon
  <2>2. list[j].generation >= minimum
    OBVIOUS
  <2> QED BY <2>1, <2>2, Zenon
<1>6. ASSUME NEW X
      PROVE  NumOf(q, X) = Cardinality(
                {i \in 1 .. Len(list) : list[i].generation >= minimum /\ list[i] \in X})
  <2>1. KeptPlaces(list, K, Len(list), X)
        = {i \in 1 .. Len(list) : list[i].generation >= minimum /\ list[i] \in X}
    BY Zenon DEF KeptPlaces
  <2> HIDE DEF K
  <2>2. KeptOf(list, K, Len(list), h) /\ q = h[Len(list)]
    BY <1>2, <1>3
  <2>3. NumOf(h[Len(list)], X) = Cardinality(KeptPlaces(list, K, Len(list), X))
    BY <2>2, NumKept, Zenon
  <2> QED BY <2>1, <2>2, <2>3, Zenon
<1> QED BY <1>3, <1>4, <1>5, <1>6, Zenon

LEMMA RetainedCounts ==
    ASSUME NEW P, NEW list \in Seq(Observation(P)), NEW minimum \in Int
    PROVE  /\ \A X : NumOf(Retained(list, minimum), X) <= NumOf(list, X)
           /\ \A s \in Source : Expired(list, minimum, s) \in Nat
           /\ Len(Retained(list, minimum)) + Expired(list, minimum, "primary")
                  + Expired(list, minimum, "reference") = Len(list)
<1>1. PICK n \in Nat : n = Len(list) /\ DOMAIN list = 1 .. n
  BY LenProperties
<1>2. \A i \in 1 .. n : /\ list[i] \in Observation(P)
                        /\ list[i].generation \in Int /\ list[i].source \in Source
  <2>1. \A i \in 1 .. n : list[i] \in Observation(P)
    BY <1>1, ElementOfSeq
  <2>2. \A o \in Observation(P) : o.generation \in Int /\ o.source \in Source
    BY DEF Observation
  <2> QED BY <2>1, <2>2, Zenon
<1>3. PICK A, B, C : /\ A = {i \in 1 .. n : list[i].generation >= minimum}
                     /\ B = {i \in 1 .. n : list[i].generation < minimum /\ list[i].source = "primary"}
                     /\ C = {i \in 1 .. n : list[i].generation < minimum /\ list[i].source = "reference"}
  OBVIOUS
<1>4. IsFiniteSet(1 .. n) /\ Cardinality(1 .. n) = n
  BY FS_Interval
<1>5. A \in SUBSET (1 .. n) /\ B \in SUBSET (1 .. n) /\ C \in SUBSET (1 .. n)
  BY <1>3
<1>6. IsFiniteSet(A) /\ IsFiniteSet(B) /\ IsFiniteSet(C)
  BY <1>4, <1>5, FS_Subset
<1>7. Cardinality(A) \in Nat /\ Cardinality(B) \in Nat /\ Cardinality(C) \in Nat
  BY <1>6, FS_CardinalityType
<1>8. Cardinality(A) + Cardinality(B) + Cardinality(C) = n
  <2>1. A \cap B = {} /\ (A \cup B) \cap C = {}
    BY <1>2, <1>3
  <2>2. (A \cup B) \cup C = 1 .. n
    BY <1>2, <1>3 DEF Source
  <2>3. /\ IsFiniteSet(A \cup B)
        /\ Cardinality(A \cup B) = Cardinality(A) + Cardinality(B) - Cardinality(A \cap B)
    BY <1>6, FS_Union
  <2>4. Cardinality((A \cup B) \cup C)
        = Cardinality(A \cup B) + Cardinality(C) - Cardinality((A \cup B) \cap C)
    BY <1>6, <2>3, FS_Union
  <2>5. n = Cardinality(A) + Cardinality(B) - 0 + Cardinality(C) - 0
    BY <1>4, <2>1, <2>2, <2>3, <2>4, FS_EmptySet, Zenon
  <2> QED BY <1>7, <2>5
<1>9. Expired(list, minimum, "primary") = Cardinality(B)
      /\ Expired(list, minimum, "reference") = Cardinality(C)
  BY <1>1, <1>3, Zenon DEF Expired
<1>10. PICK q : q = Retained(list, minimum) /\ q \in Seq(Observation(P))
  BY RetainedItems
<1>11. ASSUME NEW X PROVE NumOf(q, X) <= NumOf(list, X)
  <2>1. PICK T : T = {i \in 1 .. n : list[i].generation >= minimum /\ list[i] \in X}
    OBVIOUS
  <2>2. NumOf(q, X) = Cardinality(T)
    <3>1. NumOf(Retained(list, minimum), X) = Cardinality(
              {i \in 1 .. Len(list) : list[i].generation >= minimum /\ list[i] \in X})
      BY RetainedItems
    <3>2. {i \in 1 .. Len(list) : list[i].generation >= minimum /\ list[i] \in X} = T
      BY <1>1, <2>1
    <3> QED BY <1>10, <3>1, <3>2, Zenon
  <2>3. T \in SUBSET PlacesOf(list, X)
    BY <1>1, <2>1 DEF PlacesOf
  <2>4. IsFiniteSet(PlacesOf(list, X))
    BY NumBounds
  <2> QED BY <2>2, <2>3, <2>4, FS_Subset, Zenon DEF NumOf
<1>12. Len(q) = Cardinality(A)
  <2>1. Len(q) = NumOf(q, Observation(P))
    BY <1>10, NumAll
  <2>2. A = {i \in 1 .. n : list[i].generation >= minimum /\ list[i] \in Observation(P)}
    BY <1>2, <1>3, Zenon
  <2>3. NumOf(q, Observation(P)) = Cardinality(
            {i \in 1 .. n : list[i].generation >= minimum /\ list[i] \in Observation(P)})
    <3>1. NumOf(Retained(list, minimum), Observation(P)) = Cardinality(
              {i \in 1 .. Len(list) : list[i].generation >= minimum /\ list[i] \in Observation(P)})
      BY RetainedItems
    <3>2. {i \in 1 .. Len(list) : list[i].generation >= minimum /\ list[i] \in Observation(P)}
          = {i \in 1 .. n : list[i].generation >= minimum /\ list[i] \in Observation(P)}
      BY <1>1
    <3> QED BY <1>10, <3>1, <3>2, Zenon
  <2> QED BY <2>1, <2>2, <2>3, Zenon
<1>13. \A s \in Source : Expired(list, minimum, s) \in Nat
  BY <1>7, <1>9 DEF Source
<1>14. Len(q) + Expired(list, minimum, "primary") + Expired(list, minimum, "reference") = Len(list)
  BY <1>1, <1>8, <1>9, <1>12, Zenon
<1> QED BY <1>10, <1>11, <1>13, <1>14, Zenon

-----------------------------------------------------------------------------
(* The state of a batch, and what one observation makes of it: it completes *)
(* a pair, or it waits for its partner, or it is refused.                  *)
BatchState(P) == [pending : Seq(Observation(P)), matched : Nat, out : Seq(P), raised : BOOLEAN]

Completes(source, key, r, q) ==
    /\ ~r.raised /\ ~q.raised /\ q.matched = r.matched + 1 /\ q.out = r.out
    /\ \E i \in 1 .. Len(r.pending) :
          /\ r.pending[i].source = Opposite[source] /\ r.pending[i].key = key
          /\ q.pending = RemoveAt(r.pending, i)

StandsAlone(source, now, limit, key, r, q) ==
    /\ ~r.raised /\ ~q.raised /\ q.matched = r.matched /\ q.out = Append(r.out, key)
    /\ q.pending = Append(r.pending, [source |-> source, key |-> key, generation |-> now])
    /\ ~(Len(r.pending) >= limit)
    /\ \A i \in 1 .. Len(r.pending) :
          ~(r.pending[i].source = Opposite[source] /\ r.pending[i].key = key)

OverLimit(limit, r, q) ==
    /\ r.raised \/ Len(r.pending) >= limit
    /\ q.raised /\ q.matched = r.matched /\ q.out = r.out /\ q.pending = r.pending

LEMMA Observed ==
    ASSUME NEW P, NEW source \in Source, NEW now \in Nat, NEW limit, NEW key \in P,
           NEW r \in BatchState(P), NEW q, q = Observe(source, now, limit, r, key)
    PROVE  /\ q \in BatchState(P)
           /\ \/ Completes(source, key, r, q) \/ StandsAlone(source, now, limit, key, r, q)
              \/ OverLimit(limit, r, q)
<1>1. /\ r.pending \in Seq(Observation(P)) /\ r.matched \in Nat /\ r.out \in Seq(P)
      /\ r.raised \in BOOLEAN
  BY DEF BatchState
<1>2. PICK partners : partners = Partners(r.pending, source, key)
  OBVIOUS
<1>3. partners = {i \in 1 .. Len(r.pending) : r.pending[i].source = Opposite[source]
                                              /\ r.pending[i].key = key}
  <2>1. DOMAIN r.pending = 1 .. Len(r.pending)
    BY <1>1, LenProperties
  <2> QED BY <1>2, <2>1, Zenon DEF Partners
<1>4. PICK oldest : oldest = CHOOSE i \in partners : \A j \in partners : i <= j
  OBVIOUS
<1>5. q = CASE r.raised -> r
            [] ~r.raised /\ partners # {} ->
                 [r EXCEPT !.pending = RemoveAt(@, oldest), !.matched = @ + 1]
            [] ~r.raised /\ partners = {} /\ Len(r.pending) >= limit -> [r EXCEPT !.raised = TRUE]
            [] OTHER -> [r EXCEPT !.out = Append(@, key),
                                  !.pending = Append(@, [source |-> source, key |-> key,
                                                         generation |-> now])]
  BY <1>2, <1>4, Zenon DEF Observe
<1>6. CASE r.raised
  <2>1. q = r
    BY <1>5, <1>6
  <2> QED BY <1>6, <2>1 DEF OverLimit
<1>7. CASE ~r.raised /\ partners # {}
  <2>1. q = [r EXCEPT !.pending = RemoveAt(@, oldest), !.matched = @ + 1]
    BY <1>5, <1>7, Zenon
  <2>2. oldest \in partners
    <3>1. partners \in SUBSET Nat
      BY <1>3
    <3>2. \E i \in partners : \A j \in partners : i <= j
      BY <1>7, <3>1, LeastNatural
    <3> QED BY <1>4, <3>2, Zenon
  <2>3. /\ q.pending = RemoveAt(r.pending, oldest) /\ q.matched = r.matched + 1
        /\ q.out = r.out /\ q.raised = r.raised
    BY <2>1 DEF BatchState
  <2>4. oldest \in 1 .. Len(r.pending) /\ r.pending[oldest].source = Opposite[source]
        /\ r.pending[oldest].key = key
    BY <1>3, <2>2
  <2>5. Completes(source, key, r, q)
    BY <1>7, <2>3, <2>4, Zenon DEF Completes
  <2>6. q \in BatchState(P)
    <3>1. RemoveAt(r.pending, oldest) \in Seq(Observation(P))
      BY <1>1, <2>4, NumRemove, Zenon
    <3>2. q.pending \in Seq(Observation(P)) /\ q.matched \in Nat /\ q.out \in Seq(P)
          /\ q.raised \in BOOLEAN
      BY <1>1, <2>3, <3>1
    <3> QED BY <2>1, <3>2 DEF BatchState
  <2> QED BY <2>5, <2>6
<1>8. CASE ~r.raised /\ partners = {} /\ Len(r.pending) >= limit
  <2>1. q = [r EXCEPT !.raised = TRUE]
    BY <1>5, <1>8, Zenon
  <2>2. q.pending = r.pending /\ q.matched = r.matched /\ q.out = r.out /\ q.raised
        /\ q \in BatchState(P)
    BY <2>1 DEF BatchState
  <2> QED BY <1>8, <2>2, Zenon DEF OverLimit
<1>9. CASE ~r.raised /\ partners = {} /\ ~(Len(r.pending) >= limit)
  <2>1. q = [r EXCEPT !.out = Append(@, key),
                      !.pending = Append(@, [source |-> source, key |-> key, generation |-> now])]
    BY <1>5, <1>9, Zenon
  <2>2. /\ q.pending = Append(r.pending, [source |-> source, key |-> key, generation |-> now])
        /\ q.matched = r.matched /\ q.out = Append(r.out, key) /\ q.raised = r.raised
    BY <2>1 DEF BatchState
  <2>3. \A i \in 1 .. Len(r.pending) :
           ~(r.pending[i].source = Opposite[source] /\ r.pending[i].key = key)
    BY <1>3, <1>9
  <2>4. StandsAlone(source, now, limit, key, r, q)
    BY <1>9, <2>2, <2>3, Zenon DEF StandsAlone
  <2>5. q \in BatchState(P)
    <3>1. [source |-> source, key |-> key, generation |-> now] \in Observation(P)
      BY DEF Observation
    <3>2. q.pending \in Seq(Observation(P)) /\ q.out \in Seq(P)
      BY <1>1, <2>2, <3>1
    <3>3. q.matched \in Nat /\ q.raised \in BOOLEAN
      BY <1>1, <2>2
    <3> QED BY <2>1, <3>2, <3>3 DEF BatchState
  <2> QED BY <2>4, <2>5
<1> QED BY <1>6, <1>7, <1>8, <1>9, Zenon

-----------------------------------------------------------------------------
(* What a batch does to the counts.  The observations of one source and    *)
(* payload, and those of them that poll `now' brought.                     *)
Waiting(P, source, p)    == {o \in Observation(P) : o.source = source /\ o.key = p}
Since(P, source, p, now) == {o \in Waiting(P, source, p) : o.generation = now}

(* k observations of p by `source' have led from r to q.  A frame is       *)
(* emitted for each that waits for its partner now, and for each of the k  *)
(* that did not have one waiting.                                          *)
Ledger(P, source, now, r, q, p, k) ==
    /\ NumOf(q.out, {p}) + NumOf(r.pending, Waiting(P, source, p))
       = NumOf(r.out, {p}) + NumOf(q.pending, Waiting(P, source, p))
    /\ ~q.raised => NumOf(q.out, {p}) + NumOf(r.pending, Waiting(P, Opposite[source], p))
                    = NumOf(r.out, {p}) + k + NumOf(q.pending, Waiting(P, Opposite[source], p))
    /\ NumOf(q.out, {p}) + NumOf(r.pending, Since(P, source, p, now))
       = NumOf(r.out, {p}) + NumOf(q.pending, Since(P, source, p, now))
    /\ NumOf(q.pending, Since(P, Opposite[source], p, now))
       <= NumOf(r.pending, Since(P, Opposite[source], p, now))

(* The same for all payloads together, after n observations; and the room. *)
Balance(limit, r, q, n) ==
    /\ Len(q.out) + Len(r.pending) + r.matched = Len(r.out) + Len(q.pending) + q.matched
    /\ ~q.raised => Len(q.out) + q.matched = Len(r.out) + r.matched + n
    /\ Len(q.pending) <= Len(r.pending) + n
    /\ Len(r.pending) <= limit => Len(q.pending) <= limit
    /\ r.raised => q.raised
    /\ q.raised => r.raised \/ Len(r.pending) + n > limit

(* Nothing waits for a partner that is there; nothing is too old, or from  *)
(* a poll to come.                                                         *)
Lone(P, list) ==
    \A p \in P : NumOf(list, Waiting(P, "primary", p)) = 0
                 \/ NumOf(list, Waiting(P, "reference", p)) = 0
Dated(minimum, now, list) ==
    \A i \in 1 .. Len(list) : minimum <= list[i].generation /\ list[i].generation <= now

LEMMA Sides ==
    \A s \in Source : Opposite[s] \in Source /\ Opposite[s] # s /\ Opposite[Opposite[s]] = s
BY DEF Source, Opposite

(* The counts of a sequence of observations are numbers.                   *)
LEMMA CountsAreNumbers ==
    ASSUME NEW P, NEW r \in BatchState(P), NEW p
    PROVE  /\ NumOf(r.out, {p}) \in Nat /\ \A X : NumOf(r.pending, X) \in Nat
           /\ Len(r.out) \in Nat /\ Len(r.pending) \in Nat /\ r.matched \in Nat
           /\ r.raised \in BOOLEAN
<1>1. /\ r.pending \in Seq(Observation(P)) /\ r.out \in Seq(P) /\ r.matched \in Nat
      /\ r.raised \in BOOLEAN
  BY DEF BatchState
<1>2. NumOf(r.out, {p}) \in Nat /\ \A X : NumOf(r.pending, X) \in Nat
  BY <1>1, NumBounds, Zenon
<1> QED BY <1>1, <1>2, LenProperties, Zenon

(* One of the observations is taken away.                                  *)
LEMMA Removed ==
    ASSUME NEW P, NEW r \in BatchState(P), NEW i \in 1 .. Len(r.pending)
    PROVE  /\ Len(RemoveAt(r.pending, i)) = Len(r.pending) - 1
           /\ \A k \in 1 .. Len(r.pending) - 1 :
                 \E j \in 1 .. Len(r.pending) : RemoveAt(r.pending, i)[k] = r.pending[j]
           /\ \A X : NumOf(r.pending, X) = NumOf(RemoveAt(r.pending, i), X)
                                           + (IF r.pending[i] \in X THEN 1 ELSE 0)
<1>1. PICK s : s = r.pending
  OBVIOUS
<1>2. s \in Seq(Observation(P)) /\ i \in 1 .. Len(s)
  BY <1>1 DEF BatchState
<1>3. /\ Len(RemoveAt(s, i)) = Len(s) - 1
      /\ \A k \in 1 .. Len(s) - 1 : \E j \in 1 .. Len(s) : RemoveAt(s, i)[k] = s[j]
      /\ \A X : NumOf(s, X) = NumOf(RemoveAt(s, i), X) + (IF s[i] \in X THEN 1 ELSE 0)
  BY <1>2, NumRemove
<1> QED BY <1>1, <1>3, Zenon

LEMMA ObservedLedger ==
    ASSUME NEW P, NEW source \in Source, NEW now \in Nat, NEW limit, NEW key \in P, NEW p \in P,
           NEW r \in BatchState(P), NEW q, q = Observe(source, now, limit, r, key)
    PROVE  Ledger(P, source, now, r, q, p, IF key = p THEN 1 ELSE 0)
<1>1. /\ q \in BatchState(P)
      /\ \/ Completes(source, key, r, q) \/ StandsAlone(source, now, limit, key, r, q)
         \/ OverLimit(limit, r, q)
  BY Observed, Zenon
<1>2. /\ r.pending \in Seq(Observation(P)) /\ r.out \in Seq(P)
      /\ q.pending \in Seq(Observation(P)) /\ q.out \in Seq(P)
  BY <1>1 DEF BatchState
<1>3. PICK other \in Source : other = Opposite[source] /\ other # source
  BY Sides
<1>4. PICK a, b, c, d : /\ a = Waiting(P, source, p) /\ b = Waiting(P, other, p)
                        /\ c = Since(P, source, p, now) /\ d = Since(P, other, p, now)
  OBVIOUS
<1>5. PICK ra \in Nat, rb \in Nat, rc \in Nat, rd \in Nat, ro \in Nat :
         /\ ra = NumOf(r.pending, a) /\ rb = NumOf(r.pending, b)
         /\ rc = NumOf(r.pending, c) /\ rd = NumOf(r.pending, d) /\ ro = NumOf(r.out, {p})
  BY CountsAreNumbers, Zenon
<1>6. PICK qa \in Nat, qb \in Nat, qc \in Nat, qd \in Nat, qo \in Nat :
         /\ qa = NumOf(q.pending, a) /\ qb = NumOf(q.pending, b)
         /\ qc = NumOf(q.pending, c) /\ qd = NumOf(q.pending, d) /\ qo = NumOf(q.out, {p})
  BY <1>1, CountsAreNumbers, Zenon
<1>7. PICK k \in {0, 1} : k = IF key = p THEN 1 ELSE 0
  OBVIOUS
<1> SUFFICES /\ qo + ra = ro + qa /\ qo + rc = ro + qc /\ qd <= rd
             /\ ~q.raised => qo + rb = ro + k + qb
  BY <1>3, <1>4, <1>5, <1>6, <1>7, Zenon DEF Ledger
<1>8. CASE Completes(source, key, r, q)
  <2>1. PICK i \in 1 .. Len(r.pending) :
           /\ r.pending[i].source = other /\ r.pending[i].key = key
           /\ q.pending = RemoveAt(r.pending, i)
    BY <1>3, <1>8, Zenon DEF Completes
  <2>2. PICK o : o = r.pending[i]
    OBVIOUS
  <2>3. o \in Observation(P) /\ o.source = other /\ o.key = key
    BY <1>2, <2>1, <2>2, ElementOfSeq
  <2>4. \A X : NumOf(r.pending, X) = NumOf(q.pending, X) + (IF o \in X THEN 1 ELSE 0)
    <3>1. \A X : NumOf(r.pending, X) = NumOf(RemoveAt(r.pending, i), X)
                                      + (IF r.pending[i] \in X THEN 1 ELSE 0)
      BY Removed
    <3> QED BY <2>1, <2>2, <3>1, Zenon
  <2>5. /\ o \notin a /\ o \notin c /\ (o \in b <=> key = p)
    BY <1>3, <1>4, <2>3 DEF Waiting, Since
  <2>6. qo = ro
    BY <1>5, <1>6, <1>8, Zenon DEF Completes
  <2>7. /\ ra = qa + (IF o \in a THEN 1 ELSE 0) /\ rb = qb + (IF o \in b THEN 1 ELSE 0)
        /\ rc = qc + (IF o \in c THEN 1 ELSE 0) /\ rd = qd + (IF o \in d THEN 1 ELSE 0)
    BY <1>5, <1>6, <2>4, Zenon
  <2>8. (IF o \in a THEN 1 ELSE 0) = 0 /\ (IF o \in c THEN 1 ELSE 0) = 0
        /\ (IF o \in b THEN 1 ELSE 0) = k /\ (IF o \in d THEN 1 ELSE 0) \in {0, 1}
    BY <1>7, <2>5
  <2>9. PICK e \in {0, 1} : e = IF o \in d THEN 1 ELSE 0
    BY <2>8
  <2>10. ra = qa + 0 /\ rb = qb + k /\ rc = qc + 0 /\ rd = qd + e
    BY <2>7, <2>8, <2>9, Zenon
  <2> QED BY <2>6, <2>10
<1>9. CASE StandsAlone(source, now, limit, key, r, q)
  <2>1. PICK o : o = [source |-> source, key |-> key, generation |-> now]
    OBVIOUS
  <2>2. /\ o \in Observation(P) /\ o.source = source /\ o.key = key /\ o.generation = now
    BY <2>1 DEF Observation
  <2>3. q.pending = Append(r.pending, o) /\ q.out = Append(r.out, key)
    BY <1>9, <2>1, Zenon DEF StandsAlone
  <2>4. \A X : NumOf(q.pending, X) = NumOf(r.pending, X) + (IF o \in X THEN 1 ELSE 0)
    <3>1. \A X : NumOf(Append(r.pending, o), X) = NumOf(r.pending, X) + (IF o \in X THEN 1 ELSE 0)
      BY <1>2, <2>2, NumAppend
    <3> QED BY <2>3, <3>1, Zenon
  <2>5. NumOf(q.out, {p}) = NumOf(r.out, {p}) + (IF key \in {p} THEN 1 ELSE 0)
    <3>1. NumOf(Append(r.out, key), {p}) = NumOf(r.out, {p}) + (IF key \in {p} THEN 1 ELSE 0)
      BY <1>2, NumAppend
    <3> QED BY <2>3, <3>1, Zenon
  <2>6. /\ o \notin b /\ o \notin d /\ (o \in a <=> key = p) /\ (o \in c <=> key = p)
    BY <1>3, <1>4, <2>2 DEF Waiting, Since
  <2>7. /\ qa = ra + (IF o \in a THEN 1 ELSE 0) /\ qb = rb + (IF o \in b THEN 1 ELSE 0)
        /\ qc = rc + (IF o \in c THEN 1 ELSE 0) /\ qd = rd + (IF o \in d THEN 1 ELSE 0)
        /\ qo = ro + (IF key \in {p} THEN 1 ELSE 0)
    BY <1>5, <1>6, <2>4, <2>5, Zenon
  <2>8. /\ (IF o \in a THEN 1 ELSE 0) = k /\ (IF o \in c THEN 1 ELSE 0) = k
        /\ (IF o \in b THEN 1 ELSE 0) = 0 /\ (IF o \in d THEN 1 ELSE 0) = 0
        /\ (IF key \in {p} THEN 1 ELSE 0) = k
    BY <1>7, <2>6
  <2>9. qa = ra + k /\ qb = rb + 0 /\ qc = rc + k /\ qd = rd + 0 /\ qo = ro + k
    BY <2>7, <2>8, Zenon
  <2> QED BY <2>9
<1>10. CASE OverLimit(limit, r, q)
  <2>1. q.pending = r.pending /\ q.out = r.out /\ q.raised
    BY <1>10 DEF OverLimit
  <2>2. qa = ra /\ qb = rb /\ qc = rc /\ qd = rd /\ qo = ro
    BY <1>5, <1>6, <2>1, Zenon
  <2> QED BY <2>1, <2>2
<1> QED BY <1>1, <1>8, <1>9, <1>10

LEMMA ObservedBalance ==
    ASSUME NEW P, NEW source \in Source, NEW now \in Nat, NEW limit \in Nat, NEW key \in P,
           NEW r \in BatchState(P), NEW q, q = Observe(source, now, limit, r, key)
    PROVE  Balance(limit, r, q, 1)
<1>1. /\ q \in BatchState(P)
      /\ \/ Completes(source, key, r, q) \/ StandsAlone(source, now, limit, key, r, q)
         \/ OverLimit(limit, r, q)
  BY Observed, Zenon
<1>2. /\ r.pending \in Seq(Observation(P)) /\ r.out \in Seq(P)
      /\ q.pending \in Seq(Observation(P)) /\ q.out \in Seq(P)
  BY <1>1 DEF BatchState
<1>3. PICK rp \in Nat, ro \in Nat, rm \in Nat :
         rp = Len(r.pending) /\ ro = Len(r.out) /\ rm = r.matched
  BY CountsAreNumbers, Zenon
<1>4. PICK qp \in Nat, qo \in Nat, qm \in Nat :
         qp = Len(q.pending) /\ qo = Len(q.out) /\ qm = q.matched
  BY <1>1, CountsAreNumbers, Zenon
<1> SUFFICES /\ qo + rp + rm = ro + qp + qm
             /\ ~q.raised => qo + qm = ro + rm + 1
             /\ qp <= rp + 1 /\ (rp <= limit => qp <= limit)
             /\ (r.raised => q.raised) /\ (q.raised => r.raised \/ rp + 1 > limit)
  BY <1>3, <1>4, Zenon DEF Balance
<1>5. CASE Completes(source, key, r, q)
  <2>1. PICK i \in 1 .. Len(r.pending) : q.pending = RemoveAt(r.pending, i)
    BY <1>5, Zenon DEF Completes
  <2>2. Len(q.pending) = Len(r.pending) - 1
    <3>1. Len(RemoveAt(r.pending, i)) = Len(r.pending) - 1
      BY Removed
    <3> QED BY <2>1, <3>1, Zenon
  <2>3. qp = rp - 1 /\ qm = rm + 1 /\ qo = ro /\ ~r.raised /\ ~q.raised
    BY <1>3, <1>4, <1>5, <2>2, Zenon DEF Completes
  <2> QED BY <2>3
<1>6. CASE StandsAlone(source, now, limit, key, r, q)
  <2>1. PICK o \in Observation(P) : o = [source |-> source, key |-> key, generation |-> now]
    BY DEF Observation
  <2>2. q.pending = Append(r.pending, o) /\ q.out = Append(r.out, key)
    BY <1>6, <2>1, Zenon DEF StandsAlone
  <2>3. Len(q.pending) = Len(r.pending) + 1 /\ Len(q.out) = Len(r.out) + 1
    <3>1. Len(Append(r.pending, o)) = Len(r.pending) + 1
      BY <1>2, AppendProperties
    <3>2. Len(Append(r.out, key)) = Len(r.out) + 1
      BY <1>2, AppendProperties
    <3> QED BY <2>2, <3>1, <3>2, Zenon
  <2>4. qp = rp + 1 /\ qm = rm /\ qo = ro + 1 /\ ~r.raised /\ ~q.raised /\ ~(rp >= limit)
    BY <1>3, <1>4, <1>6, <2>3, Zenon DEF StandsAlone
  <2> QED BY <2>4
<1>7. CASE OverLimit(limit, r, q)
  <2>1. qp = rp /\ qm = rm /\ qo = ro /\ q.raised /\ (r.raised \/ rp >= limit)
    BY <1>3, <1>4, <1>7, Zenon DEF OverLimit
  <2> QED BY <2>1
<1> QED BY <1>1, <1>5, <1>6, <1>7

LEMMA ObservedDated ==
    ASSUME NEW P, NEW source \in Source, NEW now \in Nat, NEW limit, NEW key \in P,
           NEW r \in BatchState(P), NEW q, q = Observe(source, now, limit, r, key),
           NEW minimum \in Int, minimum <= now, Dated(minimum, now, r.pending)
    PROVE  Dated(minimum, now, q.pending)
<1>1. /\ q \in BatchState(P)
      /\ \/ Completes(source, key, r, q) \/ StandsAlone(source, now, limit, key, r, q)
         \/ OverLimit(limit, r, q)
  BY Observed, Zenon
<1>2. r.pending \in Seq(Observation(P))
  BY DEF BatchState
<1>3. PICK n \in Nat : n = Len(r.pending)
  BY <1>2, LenProperties
<1>4. \A j \in 1 .. n : minimum <= r.pending[j].generation /\ r.pending[j].generation <= now
  BY <1>3, Zenon DEF Dated
<1>5. CASE Completes(source, key, r, q)
  <2>1. PICK i \in 1 .. Len(r.pending) : q.pending = RemoveAt(r.pending, i)
    BY <1>5, Zenon DEF Completes
  <2>2. /\ Len(q.pending) = Len(r.pending) - 1
        /\ \A k \in 1 .. Len(r.pending) - 1 : \E j \in 1 .. Len(r.pending) : q.pending[k] = r.pending[j]
    <3>1. /\ Len(RemoveAt(r.pending, i)) = Len(r.pending) - 1
          /\ \A k \in 1 .. Len(r.pending) - 1 :
                \E j \in 1 .. Len(r.pending) : RemoveAt(r.pending, i)[k] = r.pending[j]
      BY Removed
    <3> QED BY <2>1, <3>1, Zenon
  <2>3. ASSUME NEW k \in 1 .. Len(q.pending) PROVE \E j \in 1 .. n : q.pending[k] = r.pending[j]
    <3>1. k \in 1 .. Len(r.pending) - 1
      BY <2>2, Zenon
    <3> QED BY <1>3, <2>2, <3>1, Zenon
  <2> QED BY <1>4, <2>3, Zenon DEF Dated
<1>6. CASE StandsAlone(source, now, limit, key, r, q)
  <2>0. PICK o : o = [source |-> source, key |-> key, generation |-> now]
    OBVIOUS
  <2>1. /\ o = [source |-> source, key |-> key, generation |-> now]
        /\ o \in Observation(P) /\ o.generation = now
    BY <2>0 DEF Observation
  <2>2. q.pending = Append(r.pending, o)
    BY <1>6, <2>1, Zenon DEF StandsAlone
  <2>3. /\ Len(q.pending) = Len(r.pending) + 1 /\ q.pending[Len(r.pending) + 1] = o
        /\ \A k \in 1 .. Len(r.pending) : q.pending[k] = r.pending[k]
    <3>1. /\ Len(Append(r.pending, o)) = Len(r.pending) + 1
          /\ Append(r.pending, o)[Len(r.pending) + 1] = o
          /\ \A k \in 1 .. Len(r.pending) : Append(r.pending, o)[k] = r.pending[k]
      BY <1>2, <2>1, AppendProperties
    <3> QED BY <2>2, <3>1, Zenon
  <2>4. ASSUME NEW k \in 1 .. n + 1
        PROVE  minimum <= q.pending[k].generation /\ q.pending[k].generation <= now
    <3>1. CASE k = n + 1
      <4>1. q.pending[k] = o
        BY <1>3, <2>3, <3>1, Zenon
      <4>2. now <= now
        OBVIOUS
      <4> QED BY <2>1, <4>1, <4>2, Zenon
    <3>2. CASE k # n + 1
      <4>1. k \in 1 .. n
        BY <3>2
      <4>2. q.pending[k] = r.pending[k]
        BY <1>3, <2>3, <4>1, Zenon
      <4> QED BY <1>4, <4>1, <4>2, Zenon
    <3> QED BY <3>1, <3>2
  <2> QED BY <1>3, <2>3, <2>4, Zenon DEF Dated
<1>7. CASE OverLimit(limit, r, q)
  BY <1>7, Zenon DEF OverLimit
<1> QED BY <1>1, <1>5, <1>6, <1>7

LEMMA ObservedLone ==
    ASSUME NEW P, NEW source \in Source, NEW now \in Nat, NEW limit, NEW key \in P,
           NEW r \in BatchState(P), NEW q, q = Observe(source, now, limit, r, key),
           Lone(P, r.pending)
    PROVE  Lone(P, q.pending)
<1>1. /\ q \in BatchState(P)
      /\ \/ Completes(source, key, r, q) \/ StandsAlone(source, now, limit, key, r, q)
         \/ OverLimit(limit, r, q)
  BY Observed, Zenon
<1>2. r.pending \in Seq(Observation(P)) /\ q.pending \in Seq(Observation(P))
  BY <1>1 DEF BatchState
<1>3. \A X : NumOf(r.pending, X) \in Nat /\ NumOf(q.pending, X) \in Nat
  BY <1>2, NumBounds, Zenon
<1>4. CASE Completes(source, key, r, q)
  <2>1. PICK i \in 1 .. Len(r.pending) : q.pending = RemoveAt(r.pending, i)
    BY <1>4, Zenon DEF Completes
  <2>2. \A X : NumOf(r.pending, X) = NumOf(q.pending, X) + (IF r.pending[i] \in X THEN 1 ELSE 0)
    <3>1. \A X : NumOf(r.pending, X) = NumOf(RemoveAt(r.pending, i), X)
                                      + (IF r.pending[i] \in X THEN 1 ELSE 0)
      BY Removed
    <3> QED BY <2>1, <3>1, Zenon
  <2>3. ASSUME NEW X, NumOf(r.pending, X) = 0 PROVE NumOf(q.pending, X) = 0
    <3>1. PICK a \in Nat, b \in Nat, c \in {0, 1} :
             /\ a = NumOf(r.pending, X) /\ b = NumOf(q.pending, X)
             /\ c = IF r.pending[i] \in X THEN 1 ELSE 0
      BY <1>3
    <3>2. a = b + c
      BY <2>2, <3>1, Zenon
    <3>3. b = 0
      BY <2>3, <3>1, <3>2
    <3> QED BY <3>1, <3>3, Zenon
  <2> QED BY <2>3, Zenon DEF Lone
<1>5. CASE StandsAlone(source, now, limit, key, r, q)
  <2>0. PICK o : o = [source |-> source, key |-> key, generation |-> now]
    OBVIOUS
  <2>1. /\ o = [source |-> source, key |-> key, generation |-> now]
        /\ o \in Observation(P) /\ o.source = source /\ o.key = key
    BY <2>0 DEF Observation
  <2>2. q.pending = Append(r.pending, o)
    BY <1>5, <2>1, Zenon DEF StandsAlone
  <2>3. \A X : NumOf(q.pending, X) = NumOf(r.pending, X) + (IF o \in X THEN 1 ELSE 0)
    <3>1. \A X : NumOf(Append(r.pending, o), X) = NumOf(r.pending, X) + (IF o \in X THEN 1 ELSE 0)
      BY <1>2, <2>1, NumAppend
    <3> QED BY <2>2, <3>1, Zenon
  <2>4. ASSUME NEW X, o \notin X PROVE NumOf(q.pending, X) = NumOf(r.pending, X)
    <3>1. PICK a \in Nat, b \in Nat : a = NumOf(r.pending, X) /\ b = NumOf(q.pending, X)
      BY <1>3
    <3>2. b = a + 0
      BY <2>3, <2>4, <3>1, Zenon
    <3> QED BY <3>1, <3>2
  <2>5. PICK other \in Source : other = Opposite[source] /\ other # source
    BY Sides
  <2>6. NumOf(r.pending, Waiting(P, other, key)) = 0
    <3>1. ASSUME NEW i \in 1 .. Len(r.pending) PROVE r.pending[i] \notin Waiting(P, other, key)
      <4>1. ~(r.pending[i].source = other /\ r.pending[i].key = key)
        BY <1>5, <2>5, <3>1, Zenon DEF StandsAlone
      <4> QED BY <4>1 DEF Waiting
    <3> QED BY <1>2, <3>1, NumNone, Zenon
  <2>7. ASSUME NEW p \in P
        PROVE  NumOf(q.pending, Waiting(P, "primary", p)) = 0
               \/ NumOf(q.pending, Waiting(P, "reference", p)) = 0
    <3>1. CASE p = key
      <4>1. o \notin Waiting(P, other, p)
        BY <2>1, <2>5 DEF Waiting
      <4>2. NumOf(q.pending, Waiting(P, other, p)) = 0
        BY <2>4, <2>6, <3>1, <4>1, Zenon
      <4> QED BY <4>2 DEF Source
    <3>2. CASE p # key
      <4>1. o \notin Waiting(P, "primary", p) /\ o \notin Waiting(P, "reference", p)
        BY <2>1, <3>2 DEF Waiting
      <4> QED BY <2>4, <4>1, Zenon DEF Lone
    <3> QED BY <3>1, <3>2
  <2> QED BY <2>7 DEF Lone
<1>6. CASE OverLimit(limit, r, q)
  BY <1>6, Zenon DEF OverLimit
<1> QED BY <1>1, <1>4, <1>5, <1>6

-----------------------------------------------------------------------------
(* A batch: the states it goes through, and what it comes to.              *)
RunOf(source, now, limit, start, batch, n, h) ==
    h = [i \in 0 .. n |-> IF i = 0 THEN start ELSE Observe(source, now, limit, h[i - 1], batch[i])]

LEMMA RunExists ==
    ASSUME NEW source, NEW now, NEW limit, NEW start, NEW batch
    PROVE  \A n \in Nat : \E h : RunOf(source, now, limit, start, batch, n, h)
<1> DEFINE S == {n \in Nat : \E h : RunOf(source, now, limit, start, batch, n, h)}
<1>1. 0 \in S
  <2>1. PICK h : h = [i \in 0 .. 0 |-> start]
    OBVIOUS
  <2>2. \A i \in 0 .. 0 : i = 0
    OBVIOUS
  <2>3. h = [i \in 0 .. 0 |-> IF i = 0 THEN start
                              ELSE Observe(source, now, limit, h[i - 1], batch[i])]
    BY <2>1, <2>2
  <2> QED BY <2>3 DEF RunOf
<1>2. ASSUME NEW n \in Nat, n \in S PROVE n + 1 \in S
  <2>1. PICK h : RunOf(source, now, limit, start, batch, n, h)
    BY <1>2
  <2>2. PICK last : last = Observe(source, now, limit, h[n], batch[n + 1])
    OBVIOUS
  <2>3. PICK k : k = [i \in 0 .. n + 1 |-> IF i = n + 1 THEN last ELSE h[i]]
    OBVIOUS
  <2>4. \A i \in 0 .. n + 1 :
           k[i] = IF i = 0 THEN start ELSE Observe(source, now, limit, k[i - 1], batch[i])
    <3> TAKE i \in 0 .. n + 1
    <3>1. CASE i = n + 1
      <4>1. i # 0 /\ i - 1 = n /\ n \in 0 .. n + 1 /\ n # n + 1
        BY <3>1
      <4>2. k[i] = last /\ k[i - 1] = h[n]
        BY <2>3, <3>1, <4>1
      <4> QED BY <2>2, <3>1, <4>1, <4>2, Zenon
    <3>2. CASE i # n + 1
      <4>1. i \in 0 .. n /\ k[i] = h[i]
        BY <2>3, <3>2
      <4>2. h[i] = IF i = 0 THEN start ELSE Observe(source, now, limit, h[i - 1], batch[i])
        BY <2>1, <4>1, Zenon DEF RunOf
      <4>3. i # 0 => i - 1 \in 0 .. n + 1 /\ i - 1 # n + 1
        BY <4>1
      <4>4. i # 0 => k[i - 1] = h[i - 1]
        BY <2>3, <4>3
      <4> QED BY <4>1, <4>2, <4>4, Zenon
    <3> QED BY <3>1, <3>2
  <2>5. k = [i \in 0 .. n + 1 |-> k[i]]
    BY <2>3
  <2>6. RunOf(source, now, limit, start, batch, n + 1, k)
    BY <2>4, <2>5, Zenon DEF RunOf
  <2> QED BY <2>6
<1> HIDE DEF S
<1>3. Nat \subseteq S
  BY <1>1, <1>2, InductionOnSets
<1> QED BY <1>3 DEF S

LEMMA SideIsRun ==
    ASSUME NEW source, NEW now, NEW limit, NEW start, NEW batch, Len(batch) \in Nat
    PROVE  \E h : /\ RunOf(source, now, limit, start, batch, Len(batch), h)
                  /\ Side(source, now, limit, start, batch) = h[Len(batch)]
<1>1. ASSUME NEW r, NEW key
      PROVE  (CHOOSE t \in {Observe(source, now, limit, x, key) : x \in {r}} : TRUE)
             = Observe(source, now, limit, r, key)
  <2>1. {Observe(source, now, limit, x, key) : x \in {r}} = {Observe(source, now, limit, r, key)}
    OBVIOUS
  <2>2. PICK v : v = Observe(source, now, limit, r, key)
    OBVIOUS
  <2>3. (CHOOSE t \in {v} : TRUE) = v
    OBVIOUS
  <2> QED BY <2>1, <2>2, <2>3, Zenon
<1>2. \A h : RunOf(source, now, limit, start, batch, Len(batch), h) <=>
          h = [i \in 0 .. Len(batch) |->
                  IF i = 0 THEN start
                  ELSE CHOOSE t \in {Observe(source, now, limit, r, batch[i]) : r \in {h[i - 1]}} : TRUE]
  <2> TAKE h
  <2>1. [i \in 0 .. Len(batch) |->
            IF i = 0 THEN start ELSE Observe(source, now, limit, h[i - 1], batch[i])]
        = [i \in 0 .. Len(batch) |->
              IF i = 0 THEN start
              ELSE CHOOSE t \in {Observe(source, now, limit, r, batch[i]) : r \in {h[i - 1]}} : TRUE]
    BY <1>1, Zenon
  <2> QED BY <2>1, Zenon DEF RunOf
<1>3. \E h : RunOf(source, now, limit, start, batch, Len(batch), h)
  BY RunExists
<1>4. Side(source, now, limit, start, batch)
      = (CHOOSE h : RunOf(source, now, limit, start, batch, Len(batch), h))[Len(batch)]
  BY <1>2, ZenonT(60) DEF Side
<1> QED BY <1>3, <1>4, Zenon

(* Two stretches of a batch, one behind the other.                         *)
LEMMA LedgerAdds ==
    ASSUME NEW P, NEW source \in Source, NEW now, NEW p, NEW j \in Nat, NEW k \in Nat,
           NEW r \in BatchState(P), NEW q \in BatchState(P), NEW t \in BatchState(P),
           q.raised => t.raised,
           Ledger(P, source, now, r, q, p, j), Ledger(P, source, now, q, t, p, k)
    PROVE  Ledger(P, source, now, r, t, p, j + k)
<1>1. PICK a, b, c, d : /\ a = Waiting(P, source, p) /\ b = Waiting(P, Opposite[source], p)
                        /\ c = Since(P, source, p, now) /\ d = Since(P, Opposite[source], p, now)
  OBVIOUS
<1>2. PICK ra \in Nat, rb \in Nat, rc \in Nat, rd \in Nat, ro \in Nat :
         /\ ra = NumOf(r.pending, a) /\ rb = NumOf(r.pending, b)
         /\ rc = NumOf(r.pending, c) /\ rd = NumOf(r.pending, d) /\ ro = NumOf(r.out, {p})
  BY CountsAreNumbers, Zenon
<1>3. PICK qa \in Nat, qb \in Nat, qc \in Nat, qd \in Nat, qo \in Nat :
         /\ qa = NumOf(q.pending, a) /\ qb = NumOf(q.pending, b)
         /\ qc = NumOf(q.pending, c) /\ qd = NumOf(q.pending, d) /\ qo = NumOf(q.out, {p})
  BY CountsAreNumbers, Zenon
<1>4. PICK ta \in Nat, tb \in Nat, tc \in Nat, td \in Nat, to \in Nat :
         /\ ta = NumOf(t.pending, a) /\ tb = NumOf(t.pending, b)
         /\ tc = NumOf(t.pending, c) /\ td = NumOf(t.pending, d) /\ to = NumOf(t.out, {p})
  BY CountsAreNumbers, Zenon
<1>5. /\ qo + ra = ro + qa /\ qo + rc = ro + qc /\ qd <= rd
      /\ ~q.raised => qo + rb = ro + j + qb
  BY <1>1, <1>2, <1>3, Zenon DEF Ledger
<1>6. /\ to + qa = qo + ta /\ to + qc = qo + tc /\ td <= qd
      /\ ~t.raised => to + qb = qo + k + tb
  BY <1>1, <1>3, <1>4, Zenon DEF Ledger
<1>7. /\ to + ra = ro + ta /\ to + rc = ro + tc /\ td <= rd
      /\ ~t.raised => to + rb = ro + (j + k) + tb
  BY <1>5, <1>6
<1> QED BY <1>1, <1>2, <1>4, <1>7, Zenon DEF Ledger

LEMMA BalanceAdds ==
    ASSUME NEW P, NEW limit \in Nat, NEW j \in Nat, NEW k \in Nat,
           NEW r \in BatchState(P), NEW q \in BatchState(P), NEW t \in BatchState(P),
           Balance(limit, r, q, j), Balance(limit, q, t, k)
    PROVE  Balance(limit, r, t, j + k)
<1>1. PICK rp \in Nat, ro \in Nat, rm \in Nat :
         rp = Len(r.pending) /\ ro = Len(r.out) /\ rm = r.matched
  BY CountsAreNumbers, Zenon
<1>2. PICK qp \in Nat, qo \in Nat, qm \in Nat :
         qp = Len(q.pending) /\ qo = Len(q.out) /\ qm = q.matched
  BY CountsAreNumbers, Zenon
<1>3. PICK tp \in Nat, to \in Nat, tm \in Nat :
         tp = Len(t.pending) /\ to = Len(t.out) /\ tm = t.matched
  BY CountsAreNumbers, Zenon
<1>4. /\ qo + rp + rm = ro + qp + qm /\ (~q.raised => qo + qm = ro + rm + j)
      /\ qp <= rp + j /\ (rp <= limit => qp <= limit)
      /\ (r.raised => q.raised) /\ (q.raised => r.raised \/ rp + j > limit)
  BY <1>1, <1>2, Zenon DEF Balance
<1>5. /\ to + qp + qm = qo + tp + tm /\ (~t.raised => to + tm = qo + qm + k)
      /\ tp <= qp + k /\ (qp <= limit => tp <= limit)
      /\ (q.raised => t.raised) /\ (t.raised => q.raised \/ qp + k > limit)
  BY <1>2, <1>3, Zenon DEF Balance
<1>6. /\ to + rp + rm = ro + tp + tm /\ (~t.raised => to + tm = ro + rm + (j + k))
      /\ tp <= rp + (j + k) /\ (rp <= limit => tp <= limit)
      /\ (r.raised => t.raised) /\ (t.raised => r.raised \/ rp + (j + k) > limit)
  BY <1>4, <1>5
<1> QED BY <1>1, <1>3, <1>6, Zenon DEF Balance

(* How many of the first n items of s are in X.                            *)
NumTo(s, n, X) == Cardinality({i \in 1 .. n : s[i] \in X})

(* None of the first 0 items, and of all of them as many as there are.    *)
LEMMA NumToEnds ==
    ASSUME NEW S, NEW s \in Seq(S), NEW X
    PROVE  NumTo(s, 0, X) = 0 /\ NumTo(s, Len(s), X) = NumOf(s, X)
<1>1. NumTo(s, 0, X) = 0
  <2>1. {i \in 1 .. 0 : s[i] \in X} = {}
    OBVIOUS
  <2> QED BY <2>1, FS_EmptySet, Zenon DEF NumTo
<1>2. NumTo(s, Len(s), X) = NumOf(s, X)
  <2>1. PlacesOf(s, X) = {i \in 1 .. Len(s) : s[i] \in X}
    BY NumBounds
  <2> QED BY <2>1, Zenon DEF NumTo, NumOf
<1> QED BY <1>1, <1>2, Zenon

(* One more item counts if it is in X.                                     *)
LEMMA NumToNext ==
    ASSUME NEW S, NEW s \in Seq(S), NEW X, NEW n \in Nat
    PROVE  /\ NumTo(s, n, X) \in Nat
           /\ NumTo(s, n + 1, X) = NumTo(s, n, X) + (IF s[n + 1] \in X THEN 1 ELSE 0)
<1>1. PICK A, B : A = {i \in 1 .. n : s[i] \in X} /\ B = {i \in 1 .. n + 1 : s[i] \in X}
  OBVIOUS
<1>2. IsFiniteSet(A) /\ n + 1 \notin A
  <2>1. IsFiniteSet(1 .. n) /\ A \in SUBSET (1 .. n)
    BY <1>1, FS_Interval
  <2>2. IsFiniteSet(A)
    BY <2>1, FS_Subset
  <2> QED BY <2>1, <2>2
<1>3. Cardinality(A) \in Nat
  BY <1>2, FS_CardinalityType
<1>4. Cardinality(B) = Cardinality(A) + (IF s[n + 1] \in X THEN 1 ELSE 0)
  <2>1. CASE s[n + 1] \in X
    <3>1. B = A \cup {n + 1}
      BY <1>1, <2>1
    <3>2. Cardinality(A \cup {n + 1}) = Cardinality(A) + 1
      BY <1>2, FS_AddElement
    <3> QED BY <2>1, <3>1, <3>2, Zenon
  <2>2. CASE s[n + 1] \notin X
    <3>1. B = A
      BY <1>1, <2>2
    <3>2. Cardinality(A) = Cardinality(A) + 0
      BY <1>3
    <3> QED BY <2>2, <3>1, <3>2, Zenon
  <2> QED BY <2>1, <2>2
<1> QED BY <1>1, <1>3, <1>4, Zenon DEF NumTo

SideRule(P, source, now, limit, start, batch, t) ==
    /\ t \in BatchState(P)
    /\ \A p \in P : Ledger(P, source, now, start, t, p, NumOf(batch, {p}))
    /\ Balance(limit, start, t, Len(batch))
    /\ Lone(P, start.pending) => Lone(P, t.pending)
    /\ \A minimum \in Int :
          minimum <= now /\ Dated(minimum, now, start.pending) => Dated(minimum, now, t.pending)

LEMMA SideCounts ==
    ASSUME NEW P, NEW source \in Source, NEW now \in Nat, NEW limit \in Nat,
           NEW start \in BatchState(P), NEW batch \in Seq(P),
           NEW t, t = Side(source, now, limit, start, batch)
    PROVE  SideRule(P, source, now, limit, start, batch, t)
<1> DEFINE Good(n, q) ==
             /\ q \in BatchState(P)
             /\ \A p \in P : Ledger(P, source, now, start, q, p, NumTo(batch, n, {p}))
             /\ Balance(limit, start, q, n)
             /\ Lone(P, start.pending) => Lone(P, q.pending)
             /\ \A minimum \in Int :
                   minimum <= now /\ Dated(minimum, now, start.pending)
                   => Dated(minimum, now, q.pending)
<1>0. Len(batch) \in Nat
  BY LenProperties
<1>1. PICK h : /\ RunOf(source, now, limit, start, batch, Len(batch), h)
               /\ t = h[Len(batch)]
  BY <1>0, SideIsRun
<1>2. \A i \in 0 .. Len(batch) :
         h[i] = IF i = 0 THEN start ELSE Observe(source, now, limit, h[i - 1], batch[i])
  BY <1>1, Zenon DEF RunOf
<1> DEFINE S == {n \in Nat : n <= Len(batch) => \E q : q = h[n] /\ Good(n, q)}
<1>3. 0 \in S
  <2>1. 0 \in 0 .. Len(batch)
    BY <1>0
  <2>2. h[0] = start
    BY <1>2, <2>1, Zenon
  <2>3. Good(0, start)
    <3>1. ASSUME NEW p \in P PROVE Ledger(P, source, now, start, start, p, NumTo(batch, 0, {p}))
      <4>1. NumTo(batch, 0, {p}) = 0
        BY NumToEnds
      <4>2. /\ NumOf(start.out, {p}) \in Nat /\ \A X : NumOf(start.pending, X) \in Nat
        BY CountsAreNumbers
      <4>3. Ledger(P, source, now, start, start, p, 0)
        BY <4>2 DEF Ledger
      <4> QED BY <4>1, <4>3, Zenon
    <3>2. Balance(limit, start, start, 0)
      <4>1. Len(start.out) \in Nat /\ Len(start.pending) \in Nat /\ start.matched \in Nat
        BY CountsAreNumbers
      <4> QED BY <4>1 DEF Balance
    <3> QED BY <3>1, <3>2
  <2> HIDE DEF Good
  <2> QED BY <2>2, <2>3
<1>4. ASSUME NEW n \in Nat, n \in S PROVE n + 1 \in S
  <2> SUFFICES ASSUME n + 1 <= Len(batch) PROVE \E q : q = h[n + 1] /\ Good(n + 1, q)
    OBVIOUS
  <2>1. PICK r : r = h[n] /\ Good(n, r)
    <3> HIDE DEF Good
    <3> QED BY <1>0, <1>4
  <2>2. n + 1 \in 1 .. Len(batch) /\ batch[n + 1] \in P
    BY <1>0, ElementOfSeq
  <2>3. PICK key \in P : key = batch[n + 1]
    BY <2>2
  <2>4. PICK q : q = Observe(source, now, limit, r, key)
    OBVIOUS
  <2>5. h[n + 1] = q
    <3>1. n + 1 \in 0 .. Len(batch) /\ n + 1 # 0 /\ (n + 1) - 1 = n
      BY <1>0
    <3> QED BY <1>2, <2>1, <2>3, <2>4, <3>1, Zenon
  <2>6. r \in BatchState(P) /\ Balance(limit, start, r, n)
    BY <2>1
  <2>7. q \in BatchState(P)
    BY <2>4, <2>6, Observed, Zenon
  <2>8. Balance(limit, r, q, 1)
    BY <2>4, <2>6, ObservedBalance, Zenon
  <2>9. Balance(limit, start, q, n + 1)
    BY <2>6, <2>7, <2>8, BalanceAdds
  <2>10. ASSUME NEW p \in P PROVE Ledger(P, source, now, start, q, p, NumTo(batch, n + 1, {p}))
    <3>1. PICK j \in Nat : j = NumTo(batch, n, {p})
      BY NumToNext
    <3>2. PICK k \in Nat : k = IF key = p THEN 1 ELSE 0
      OBVIOUS
    <3>3. NumTo(batch, n + 1, {p}) = j + k
      <4>1. NumTo(batch, n + 1, {p}) = j + (IF key \in {p} THEN 1 ELSE 0)
        <5>1. NumTo(batch, n + 1, {p})
              = NumTo(batch, n, {p}) + (IF batch[n + 1] \in {p} THEN 1 ELSE 0)
          BY NumToNext, Zenon
        <5> QED BY <2>3, <3>1, <5>1, Zenon
      <4>2. (IF key \in {p} THEN 1 ELSE 0) = k
        BY <3>2
      <4> QED BY <4>1, <4>2, Zenon
    <3>4. Ledger(P, source, now, start, r, p, j)
      BY <2>1, <3>1, Zenon
    <3>5. Ledger(P, source, now, r, q, p, k)
      BY <2>4, <2>6, <3>2, ObservedLedger, Zenon
    <3>6. r.raised => q.raised
      BY <2>8, Zenon DEF Balance
    <3>7. Ledger(P, source, now, start, q, p, j + k)
      BY <2>6, <2>7, <3>4, <3>5, <3>6, LedgerAdds
    <3> QED BY <3>3, <3>7, Zenon
  <2>11. Lone(P, start.pending) => Lone(P, q.pending)
    BY <2>1, <2>4, <2>6, ObservedLone, Zenon
  <2>12. ASSUME NEW minimum \in Int, minimum <= now, Dated(minimum, now, start.pending)
         PROVE  Dated(minimum, now, q.pending)
    <3>1. Dated(minimum, now, r.pending)
      BY <2>1, <2>12, Zenon
    <3> QED BY <2>4, <2>6, <2>12, <3>1, ObservedDated, SMTT(30)
  <2>13. Good(n + 1, q)
    BY <2>7, <2>9, <2>10, <2>11, <2>12, Zenon
  <2> HIDE DEF Good
  <2> QED BY <2>5, <2>13
<1> HIDE DEF S
<1>5. Nat \subseteq S
  BY <1>3, <1>4, InductionOnSets
<1>6. Len(batch) \in S
  BY <1>0, <1>5
<1>7. PICK q : q = h[Len(batch)] /\ Good(Len(batch), q)
  <2> HIDE DEF Good
  <2> QED BY <1>0, <1>6 DEF S
<1>8. \A p \in P : NumTo(batch, Len(batch), {p}) = NumOf(batch, {p})
  BY NumToEnds
<1> QED BY <1>1, <1>7, <1>8, Zenon DEF SideRule

SideMay(P, source, now, limit, start, batch) ==
    /\ source \in Source /\ now \in Nat /\ limit \in Nat
    /\ start \in BatchState(P) /\ batch \in Seq(P)

LEMMA SideRuled ==
    \A P, source, now, limit, start, batch, t :
        SideMay(P, source, now, limit, start, batch) /\ t = Side(source, now, limit, start, batch)
        => SideRule(P, source, now, limit, start, batch, t)
<1> SUFFICES ASSUME NEW P, NEW source, NEW now, NEW limit, NEW start, NEW batch, NEW t,
                    SideMay(P, source, now, limit, start, batch),
                    t = Side(source, now, limit, start, batch)
             PROVE  SideRule(P, source, now, limit, start, batch, t)
  OBVIOUS
<1>1. /\ source \in Source /\ now \in Nat /\ limit \in Nat
      /\ start \in BatchState(P) /\ batch \in Seq(P)
  BY DEF SideMay
<1> QED BY <1>1, SideCounts

-----------------------------------------------------------------------------
(* Counting a batch item by item, and summing over sources and payloads.   *)
LEMMA CountIsNum == \A batch, key : Tally(batch, key) = NumOf(batch, {key})
<1> SUFFICES ASSUME NEW batch, NEW key PROVE Tally(batch, key) = NumOf(batch, {key})
  OBVIOUS
<1>1. PlacesOf(batch, {key}) = {i \in DOMAIN batch : batch[i] = key}
  BY DEF PlacesOf
<1> QED BY <1>1, Zenon DEF Tally, NumOf

(* A set that has the empty set, and each set that it has without one of   *)
(* its elements, has all finite ones.                                      *)
LEMMA InductionOnSubsets ==
    ASSUME NEW S, IsFiniteSet(S), NEW U, {} \in U,
           \A T \in SUBSET S : T # {} /\ T \ {CHOOSE x \in T : TRUE} \in U => T \in U
    PROVE  SUBSET S \subseteq U
<1> DEFINE M == {n \in Nat : \A T \in SUBSET S : Cardinality(T) = n => T \in U}
<1>0. \A T \in SUBSET S : IsFiniteSet(T) /\ Cardinality(T) \in Nat
  BY FS_Subset, FS_CardinalityType
<1>1. 0 \in M
  <2> SUFFICES ASSUME NEW T \in SUBSET S, Cardinality(T) = 0 PROVE T \in U
    OBVIOUS
  <2>1. T = {}
    BY <1>0, FS_EmptySet
  <2> QED BY <2>1
<1>2. ASSUME NEW n \in Nat, n \in M PROVE n + 1 \in M
  <2> SUFFICES ASSUME NEW T \in SUBSET S, Cardinality(T) = n + 1 PROVE T \in U
    OBVIOUS
  <2>1. T # {}
    <3> SUFFICES ASSUME T = {} PROVE FALSE
      OBVIOUS
    <3>1. Cardinality(T) = 0
      BY FS_EmptySet
    <3> QED BY <3>1
  <2>2. PICK x \in T : x = CHOOSE y \in T : TRUE
    BY <2>1
  <2>3. Cardinality(T \ {x}) = n + 1 - 1
    <3>1. IsFiniteSet(T)
      BY <1>0
    <3>2. Cardinality(T \ {x}) = IF x \in T THEN Cardinality(T) - 1 ELSE Cardinality(T)
      BY <3>1, FS_RemoveElement
    <3> QED BY <3>2
  <2>4. T \ {x} \in SUBSET S /\ Cardinality(T \ {x}) = n
    BY <2>3
  <2>5. T \ {x} \in U
    BY <1>2, <2>4
  <2>6. T \ {CHOOSE y \in T : TRUE} \in U
    BY <2>2, <2>5, Zenon
  <2> QED BY <2>1, <2>6, Zenon
<1> HIDE DEF M
<1>3. Nat \subseteq M
  BY <1>1, <1>2, InductionOnSets
<1> QED BY <1>0, <1>3 DEF M

(* The sum of f over the pairs in each subset of S.                        *)
SumsTo(f, S, h) ==
    h = [T \in SUBSET S |->
            IF T = {} THEN 0
            ELSE f[(CHOOSE x \in T : TRUE)[1]][(CHOOSE x \in T : TRUE)[2]]
                 + h[T \ {CHOOSE x \in T : TRUE}]]

SmallSubsets(S, n) == {T \in SUBSET S : Cardinality(T) <= n}

LEMMA SumExists == ASSUME NEW f, NEW S, IsFiniteSet(S) PROVE \E h : SumsTo(f, S, h)
<1> DEFINE Step(T, h) == IF T = {} THEN 0
                         ELSE f[(CHOOSE x \in T : TRUE)[1]][(CHOOSE x \in T : TRUE)[2]]
                              + h[T \ {CHOOSE x \in T : TRUE}]
           SumTo(n, h) == h = [T \in SmallSubsets(S, n) |-> Step(T, h)]
           M == {n \in Nat : \E h : SumTo(n, h)}
<1>0. \A T \in SUBSET S : IsFiniteSet(T) /\ Cardinality(T) \in Nat
                          /\ (T # {} => Cardinality(T \ {CHOOSE x \in T : TRUE}) = Cardinality(T) - 1)
  <2> TAKE T \in SUBSET S
  <2>1. IsFiniteSet(T) /\ Cardinality(T) \in Nat
    BY FS_Subset, FS_CardinalityType
  <2>2. ASSUME T # {} PROVE Cardinality(T \ {CHOOSE x \in T : TRUE}) = Cardinality(T) - 1
    <3>1. PICK x \in T : x = CHOOSE y \in T : TRUE
      BY <2>2
    <3>2. Cardinality(T \ {x}) = Cardinality(T) - 1
      BY <2>1, FS_RemoveElement
    <3> QED BY <3>1, <3>2, Zenon
  <2> QED BY <2>1, <2>2
<1>1. 0 \in M
  <2>1. PICK h : h = [T \in SmallSubsets(S, 0) |-> 0]
    OBVIOUS
  <2>2. ASSUME NEW T \in SmallSubsets(S, 0) PROVE T = {}
    <3>0. T \in SUBSET S /\ Cardinality(T) <= 0
      BY DEF SmallSubsets
    <3>1. IsFiniteSet(T) /\ Cardinality(T) = 0
      <4>1. PICK c \in Nat : c = Cardinality(T) /\ IsFiniteSet(T)
        BY <1>0, <3>0
      <4>2. c = 0
        BY <3>0, <4>1
      <4> QED BY <4>1, <4>2
    <3> QED BY <3>1, FS_EmptySet
  <2>3. SumTo(0, h)
    BY <2>1, <2>2
  <2> HIDE DEF SumTo
  <2> QED BY <2>3
<1>2. ASSUME NEW n \in Nat, n \in M PROVE n + 1 \in M
  <2>1. PICK h : SumTo(n, h)
    BY <1>2
  <2>2. PICK k : k = [T \in SmallSubsets(S, n + 1) |-> Step(T, h)]
    OBVIOUS
  <2>3. ASSUME NEW T \in SmallSubsets(S, n + 1) PROVE k[T] = Step(T, k)
    <3>1. k[T] = Step(T, h)
      BY <2>2
    <3>2. CASE T = {}
      BY <3>1, <3>2
    <3>3. CASE T # {}
      <4>1. PICK R : R = T \ {CHOOSE x \in T : TRUE}
        OBVIOUS
      <4>2. R \in SmallSubsets(S, n) /\ R \in SmallSubsets(S, n + 1)
        <5>1. T \in SUBSET S /\ R \in SUBSET S /\ Cardinality(T) <= n + 1
          BY <4>1 DEF SmallSubsets
        <5>2. Cardinality(R) = Cardinality(T) - 1 /\ Cardinality(T) \in Nat
          BY <1>0, <3>3, <4>1, <5>1, Zenon
        <5> QED BY <5>1, <5>2 DEF SmallSubsets
      <4>3. k[R] = Step(R, h) /\ h[R] = Step(R, h)
        <5> HIDE DEF Step
        <5> QED BY <2>1, <2>2, <4>2
      <4>4. k[T \ {CHOOSE x \in T : TRUE}] = h[T \ {CHOOSE x \in T : TRUE}]
        BY <4>1, <4>3, Zenon
      <4> QED BY <3>1, <4>4, Zenon
    <3> QED BY <3>2, <3>3
  <2>4. k = [T \in SmallSubsets(S, n + 1) |-> k[T]]
    BY <2>2
  <2>5. SumTo(n + 1, k)
    <3> HIDE DEF Step
    <3> QED BY <2>3, <2>4, Zenon
  <2> HIDE DEF SumTo
  <2> QED BY <2>5
<1>3. Nat \subseteq M
  <2> HIDE DEF M
  <2> QED BY <1>1, <1>2, InductionOnSets
<1>4. PICK n \in Nat : n = Cardinality(S)
  BY FS_CardinalityType
<1>5. SmallSubsets(S, n) = SUBSET S
  <2>1. \A T \in SUBSET S : Cardinality(T) <= n
    BY <1>4, FS_Subset
  <2> QED BY <2>1 DEF SmallSubsets
<1>6. PICK h : SumTo(n, h)
  <2> HIDE DEF SumTo
  <2> QED BY <1>3, <1>4
<1>7. h = [T \in SUBSET S |-> Step(T, h)]
  <2> HIDE DEF Step
  <2> QED BY <1>5, <1>6, Zenon
<1> QED BY <1>7, Zenon DEF SumsTo

(* What sums to h, summand by summand.                                     *)
SumRule(f, S, h) ==
    /\ h[{}] = 0
    /\ \A T \in SUBSET S : T # {} =>
          \E x \in T : x = (CHOOSE y \in T : TRUE) /\ h[T] = f[x[1]][x[2]] + h[T \ {x}]

LEMMA SumSteps == ASSUME NEW f, NEW S, NEW h, SumsTo(f, S, h), IsFiniteSet(S) PROVE SumRule(f, S, h)
<1>1. \A T \in SUBSET S :
         h[T] = IF T = {} THEN 0
                ELSE f[(CHOOSE x \in T : TRUE)[1]][(CHOOSE x \in T : TRUE)[2]]
                     + h[T \ {CHOOSE x \in T : TRUE}]
  BY Zenon DEF SumsTo
<1>2. h[{}] = 0
  <2>1. {} \in SUBSET S
    OBVIOUS
  <2> QED BY <1>1, <2>1, Zenon
<1>3. ASSUME NEW T \in SUBSET S, T # {}
      PROVE  \E x \in T : /\ x = (CHOOSE y \in T : TRUE) /\ h[T] = f[x[1]][x[2]] + h[T \ {x}]
  <2>1. PICK x \in T : x = CHOOSE y \in T : TRUE
    BY <1>3
  <2>2. h[T] = f[x[1]][x[2]] + h[T \ {x}]
    BY <1>1, <1>3, <2>1, Zenon
  <2> QED BY <2>1, <2>2
<1> QED BY <1>2, <1>3, Zenon DEF SumRule

LEMMA CellsAreFinite == \A P : IsFiniteSet(P) => IsFiniteSet(Source \X P)
<1> SUFFICES ASSUME NEW P, IsFiniteSet(P) PROVE IsFiniteSet(Source \X P)
  OBVIOUS
<1>1. IsFiniteSet({"primary"}) /\ IsFiniteSet({"primary"} \cup {"reference"})
  BY FS_Singleton, FS_AddElement
<1>2. Source = {"primary"} \cup {"reference"}
  BY DEF Source
<1>3. IsFiniteSet(Source)
  BY <1>1, <1>2, Zenon
<1> QED BY <1>3, FS_Product, Zenon

LEMMA SumOfNothing ==
    ASSUME NEW P, IsFiniteSet(P), NEW f, \A s \in Source, p \in P : f[s][p] = 0,
           NEW h, SumsTo(f, Source \X P, h)
    PROVE  h[Source \X P] = 0
<1>1. IsFiniteSet(Source \X P)
  BY CellsAreFinite
<1>0. SumRule(f, Source \X P, h)
  BY <1>1, SumSteps
<1> DEFINE U == {T \in SUBSET (Source \X P) : h[T] = 0}
<1>2. {} \in U
  BY <1>0, Zenon DEF SumRule
<1>3. ASSUME NEW T \in SUBSET (Source \X P), T # {}, T \ {CHOOSE x \in T : TRUE} \in U PROVE T \in U
  <2>1. PICK x \in T : x = (CHOOSE y \in T : TRUE) /\ h[T] = f[x[1]][x[2]] + h[T \ {x}]
    BY <1>0, <1>3, Zenon DEF SumRule
  <2>2. h[T \ {x}] = 0
    BY <1>3, <2>1, Zenon
  <2>3. f[x[1]][x[2]] = 0
    <3>1. x[1] \in Source /\ x[2] \in P
      OBVIOUS
    <3> QED BY <3>1
  <2>4. h[T] = 0 + 0
    BY <2>1, <2>2, <2>3, Zenon
  <2> QED BY <2>4
<1> HIDE DEF U
<1>4. SUBSET (Source \X P) \subseteq U
  BY <1>1, <1>2, <1>3, InductionOnSubsets
<1> QED BY <1>4 DEF U

(* The payloads that T pairs with a source.                                *)
KeysOf(P, source, T) == {p \in P : <<source, p>> \in T}

(* Two batches make the sum grow by their lengths.                         *)
SumMay(P, f, g, a, b, h, k) ==
    /\ IsFiniteSet(P) /\ f \in [Source -> [P -> Nat]] /\ a \in Seq(P) /\ b \in Seq(P)
    /\ \A p \in P : /\ g["primary"][p] = f["primary"][p] + NumOf(a, {p})
                    /\ g["reference"][p] = f["reference"][p] + NumOf(b, {p})
    /\ SumsTo(f, Source \X P, h) /\ SumsTo(g, Source \X P, k)

LEMMA SumGrows ==
    ASSUME NEW P, NEW f, NEW g, NEW a, NEW b, NEW h, NEW k, SumMay(P, f, g, a, b, h, k)
    PROVE  h[Source \X P] \in Nat /\ k[Source \X P] = h[Source \X P] + Len(a) + Len(b)
<1>11. IsFiniteSet(P) /\ f \in [Source -> [P -> Nat]] /\ a \in Seq(P) /\ b \in Seq(P)
  BY Zenon DEF SumMay
<1>12. \A p \in P : /\ g["primary"][p] = f["primary"][p] + NumOf(a, {p})
                    /\ g["reference"][p] = f["reference"][p] + NumOf(b, {p})
  BY Zenon DEF SumMay
<1>13. SumsTo(f, Source \X P, h) /\ SumsTo(g, Source \X P, k)
  BY Zenon DEF SumMay
<1> USE <1>11, <1>12, <1>13
<1> DEFINE A(T) == NumOf(a, KeysOf(P, "primary", T))
           B(T) == NumOf(b, KeysOf(P, "reference", T))
           U == {T \in SUBSET (Source \X P) : h[T] \in Nat /\ k[T] = h[T] + A(T) + B(T)}
<1>1. IsFiniteSet(Source \X P)
  BY CellsAreFinite
<1>0. \A T \in SUBSET (Source \X P) : T # {} =>
         /\ \E x \in T : x = (CHOOSE y \in T : TRUE) /\ h[T] = f[x[1]][x[2]] + h[T \ {x}]
         /\ \E x \in T : x = (CHOOSE y \in T : TRUE) /\ k[T] = g[x[1]][x[2]] + k[T \ {x}]
  <2>1. \A T \in SUBSET (Source \X P) : T # {} =>
           \E x \in T : x = (CHOOSE y \in T : TRUE) /\ h[T] = f[x[1]][x[2]] + h[T \ {x}]
    <3>1. SumRule(f, Source \X P, h)
      BY <1>1, SumSteps
    <3> QED BY <3>1, Zenon DEF SumRule
  <2>2. \A T \in SUBSET (Source \X P) : T # {} =>
           \E x \in T : x = (CHOOSE y \in T : TRUE) /\ k[T] = g[x[1]][x[2]] + k[T \ {x}]
    <3>1. SumRule(g, Source \X P, k)
      BY <1>1, SumSteps
    <3> QED BY <3>1, Zenon DEF SumRule
  <2> QED BY <2>1, <2>2, Zenon
<1>2. \A X : NumOf(a, X) \in Nat /\ NumOf(b, X) \in Nat
  BY NumBounds
<1>6. \A X, Y : X \cap Y = {} => /\ NumOf(a, X \cup Y) = NumOf(a, X) + NumOf(a, Y)
                                  /\ NumOf(b, X \cup Y) = NumOf(b, X) + NumOf(b, Y)
  <2>1. \A X, Y : X \cap Y = {} => NumOf(a, X \cup Y) = NumOf(a, X) + NumOf(a, Y)
    BY NumSplit, Zenon
  <2>2. \A X, Y : X \cap Y = {} => NumOf(b, X \cup Y) = NumOf(b, X) + NumOf(b, Y)
    BY NumSplit, Zenon
  <2> QED BY <2>1, <2>2, Zenon
<1>3. {} \in U
  <2>1. KeysOf(P, "primary", {}) = {} /\ KeysOf(P, "reference", {}) = {}
    BY DEF KeysOf
  <2>2. NumOf(a, {}) = 0 /\ NumOf(b, {}) = 0
    BY NumNone
  <2>3. h[{}] = 0 /\ k[{}] = 0
    BY <1>1, SumSteps DEF SumRule
  <2>4. A({}) = 0 /\ B({}) = 0
    BY <2>1, <2>2, Zenon
  <2> QED BY <2>3, <2>4
<1>4. ASSUME NEW T \in SUBSET (Source \X P), T # {}, T \ {CHOOSE x \in T : TRUE} \in U PROVE T \in U
  <2>1. PICK x \in T : x = (CHOOSE y \in T : TRUE) /\ h[T] = f[x[1]][x[2]] + h[T \ {x}]
    BY <1>0, <1>4, Zenon
  <2>2. k[T] = g[x[1]][x[2]] + k[T \ {x}]
    <3>1. \E y \in T : y = (CHOOSE z \in T : TRUE) /\ k[T] = g[y[1]][y[2]] + k[T \ {y}]
      BY <1>0, <1>4, Zenon
    <3> QED BY <2>1, <3>1, Zenon
  <2>3. PICK R \in SUBSET (Source \X P) : R = T \ {x}
    OBVIOUS
  <2>4. R \in U
    BY <1>4, <2>1, <2>3, Zenon
  <2>5. PICK s \in Source, p \in P : x = <<s, p>>
    OBVIOUS
  <2>6. PICK n \in Nat : n = f[s][p]
    OBVIOUS
  <2>7. h[T] = n + h[R] /\ k[T] = g[s][p] + k[R]
    <3>1. x[1] = s /\ x[2] = p
      BY <2>5
    <3> QED BY <2>1, <2>2, <2>3, <2>6, <3>1, Zenon
  <2>8. PICK hr \in Nat, ra \in Nat, rb \in Nat :
           hr = h[R] /\ ra = A(R) /\ rb = B(R) /\ k[R] = hr + ra + rb
    BY <1>2, <2>4, SMTT(30)
  <2>9. CASE s = "primary"
    <3>1. KeysOf(P, "primary", T) = KeysOf(P, "primary", R) \cup {p}
          /\ KeysOf(P, "primary", R) \cap {p} = {}
          /\ KeysOf(P, "reference", T) = KeysOf(P, "reference", R)
      BY <2>3, <2>5, <2>9 DEF KeysOf
    <3>2. NumOf(a, KeysOf(P, "primary", R) \cup {p}) = NumOf(a, KeysOf(P, "primary", R)) + NumOf(a, {p})
      BY <1>6, <3>1, Zenon
    <3>3. PICK e \in Nat : e = NumOf(a, {p})
      BY <1>2
    <3>4. A(T) = ra + e /\ B(T) = rb /\ g[s][p] = n + e
      BY <2>6, <2>8, <2>9, <3>1, <3>2, <3>3, Zenon
    <3>5. h[T] \in Nat /\ k[T] = h[T] + A(T) + B(T)
      <4>1. /\ h[T] = n + hr /\ k[T] = (n + e) + (hr + ra + rb)
            /\ A(T) = ra + e /\ B(T) = rb
        BY <2>7, <2>8, <3>4, Zenon
      <4>2. n \in Nat /\ e \in Nat /\ hr \in Nat /\ ra \in Nat /\ rb \in Nat
        OBVIOUS
      <4>3. n + hr \in Nat /\ (n + e) + (hr + ra + rb) = (n + hr) + (ra + e) + rb
        BY ONLY <4>2
      <4> HIDE DEF A, B
      <4> QED BY <4>1, <4>3, Zenon
    <3> QED BY <3>5
  <2>10. CASE s = "reference"
    <3>1. KeysOf(P, "reference", T) = KeysOf(P, "reference", R) \cup {p}
          /\ KeysOf(P, "reference", R) \cap {p} = {}
          /\ KeysOf(P, "primary", T) = KeysOf(P, "primary", R)
      BY <2>3, <2>5, <2>10 DEF KeysOf
    <3>2. NumOf(b, KeysOf(P, "reference", R) \cup {p})
          = NumOf(b, KeysOf(P, "reference", R)) + NumOf(b, {p})
      BY <1>6, <3>1, Zenon
    <3>3. PICK e \in Nat : e = NumOf(b, {p})
      BY <1>2
    <3>4. A(T) = ra /\ B(T) = rb + e /\ g[s][p] = n + e
      BY <2>6, <2>8, <2>10, <3>1, <3>2, <3>3, Zenon
    <3>5. h[T] \in Nat /\ k[T] = h[T] + A(T) + B(T)
      <4>1. /\ h[T] = n + hr /\ k[T] = (n + e) + (hr + ra + rb)
            /\ A(T) = ra /\ B(T) = rb + e
        BY <2>7, <2>8, <3>4, Zenon
      <4>2. n \in Nat /\ e \in Nat /\ hr \in Nat /\ ra \in Nat /\ rb \in Nat
        OBVIOUS
      <4>3. n + hr \in Nat /\ (n + e) + (hr + ra + rb) = (n + hr) + ra + (rb + e)
        BY ONLY <4>2
      <4> HIDE DEF A, B
      <4> QED BY <4>1, <4>3, Zenon
    <3> QED BY <3>5
  <2> QED BY <2>9, <2>10 DEF Source
<1>5. SUBSET (Source \X P) \subseteq U
  <2> HIDE DEF U
  <2> QED BY <1>1, <1>3, <1>4, InductionOnSubsets
<1>10. PICK T : T = Source \X P
  OBVIOUS
<1>7. h[T] \in Nat /\ k[T] = h[T] + A(T) + B(T)
  <2>1. T \in U
    <3> HIDE DEF U
    <3> QED BY <1>5, <1>10
  <2> HIDE DEF A, B
  <2> QED BY <2>1
<1>8. KeysOf(P, "primary", T) = P /\ KeysOf(P, "reference", T) = P
  BY <1>10 DEF KeysOf, Source
<1>9. NumOf(a, P) = Len(a) /\ NumOf(b, P) = Len(b)
  BY NumAll
<1> QED BY <1>7, <1>8, <1>9, <1>10, Zenon

-----------------------------------------------------------------------------
(* A poll: what both batches, one after the other, make of what was left.  *)
(* `first' frames are emitted for the primary's, `above' and `below'       *)
(* observations of the primary and the reference wait between the two.     *)
Paired(P, kept, now, a, b, t, p, first, above, below) ==
    /\ first + NumOf(kept, Waiting(P, "primary", p)) = above
    /\ first + NumOf(kept, Waiting(P, "reference", p)) = NumOf(a, {p}) + below
    /\ above = 0 \/ below = 0
    /\ NumOf(t.out, {p}) = first + NumOf(t.pending, Since(P, "reference", p, now))
    /\ NumOf(t.out, {p}) + above = first + NumOf(b, {p}) + NumOf(t.pending, Waiting(P, "primary", p))
    /\ NumOf(t.out, {p}) + below = first + NumOf(t.pending, Waiting(P, "reference", p))

LEMMA RetainedTidy ==
    ASSUME NEW P, NEW list \in Seq(Observation(P)), NEW minimum \in Int, NEW lowest, NEW now \in Nat,
           Lone(P, list), Dated(lowest, now - 1, list)
    PROVE  /\ Lone(P, Retained(list, minimum)) /\ Dated(minimum, now, Retained(list, minimum))
           /\ \A s, p : NumOf(Retained(list, minimum), Since(P, s, p, now)) = 0
<1>1. PICK kept : kept = Retained(list, minimum)
  OBVIOUS
<1>2. /\ kept \in Seq(Observation(P))
      /\ \A k \in 1 .. Len(kept) : /\ kept[k].generation >= minimum
                                   /\ \E j \in 1 .. Len(list) : kept[k] = list[j]
  BY <1>1, RetainedItems
<1>3. \A X : NumOf(kept, X) <= NumOf(list, X) /\ NumOf(kept, X) \in Nat /\ NumOf(list, X) \in Nat
  <2>1. \A X : NumOf(Retained(list, minimum), X) <= NumOf(list, X)
    BY RetainedCounts
  <2>2. \A X : NumOf(kept, X) \in Nat /\ NumOf(list, X) \in Nat
    BY <1>2, NumBounds, Zenon
  <2> QED BY <1>1, <2>1, <2>2, Zenon
<1>4. \A X : NumOf(list, X) = 0 => NumOf(kept, X) = 0
  <2> SUFFICES ASSUME NEW X, NumOf(list, X) = 0 PROVE NumOf(kept, X) = 0
    OBVIOUS
  <2>1. PICK m \in Nat, n \in Nat : m = NumOf(kept, X) /\ n = NumOf(list, X) /\ m <= n
    BY <1>3
  <2> QED BY <2>1
<1>5. Lone(P, kept)
  BY <1>4, Zenon DEF Lone
<1>6. ASSUME NEW k \in 1 .. Len(kept)
      PROVE  /\ minimum <= kept[k].generation /\ kept[k].generation <= now
             /\ kept[k].generation # now
  <2>1. PICK j \in 1 .. Len(list) : kept[k] = list[j]
    BY <1>2
  <2>2. kept[k].generation <= now - 1
    BY <2>1 DEF Dated
  <2>3. kept[k].generation \in Nat /\ kept[k].generation >= minimum
    <3>1. kept[k] \in Observation(P)
      BY <1>2, ElementOfSeq
    <3> QED BY <1>2, <3>1 DEF Observation
  <2> QED BY <2>2, <2>3
<1>7. Dated(minimum, now, kept)
  BY <1>6 DEF Dated
<1>8. ASSUME NEW s, NEW p PROVE NumOf(kept, Since(P, s, p, now)) = 0
  <2>1. \A k \in 1 .. Len(kept) : kept[k] \notin Since(P, s, p, now)
    BY <1>6 DEF Since
  <2> QED BY <1>2, <2>1, NumNone
<1> QED BY <1>1, <1>5, <1>7, <1>8, Zenon

(* The state of a poll's batches, from what waited before it.              *)
PollState(list, m, now, limit, minimum, a, b) ==
    Side("reference", now, limit,
         Side("primary", now, limit,
              [pending |-> Retained(list, minimum), matched |-> m, out |-> <<>>, raised |-> FALSE],
              a),
         b)

PollMay(P, list, now, limit, minimum, lowest) ==
    /\ minimum <= now /\ Len(list) <= limit
    /\ Lone(P, list) /\ Dated(lowest, now - 1, list)

PollRule(P, list, m, now, limit, minimum, a, b, t) ==
    /\ t \in BatchState(P) /\ Lone(P, t.pending) /\ Dated(minimum, now, t.pending)
    /\ Len(t.pending) <= limit /\ Len(t.pending) <= Len(list) + Len(a) + Len(b)
    /\ Len(t.out) + Len(Retained(list, minimum)) + m = Len(t.pending) + t.matched
    /\ ~t.raised => Len(t.out) + t.matched = m + Len(a) + Len(b)
    /\ t.raised => Len(list) + Len(a) + Len(b) > limit
    /\ ~t.raised => \A p \in P : \E first, above, below \in Nat :
          Paired(P, Retained(list, minimum), now, a, b, t, p, first, above, below)

LEMMA PollOutcome ==
    ASSUME NEW P, NEW list \in Seq(Observation(P)), NEW m \in Nat, NEW now \in Nat,
           NEW limit \in Nat, NEW minimum \in Int, NEW lowest,
           PollMay(P, list, now, limit, minimum, lowest), NEW a \in Seq(P), NEW b \in Seq(P),
           NEW t, t = PollState(list, m, now, limit, minimum, a, b)
    PROVE  PollRule(P, list, m, now, limit, minimum, a, b, t)
<1>1. PICK kept : kept = Retained(list, minimum)
  OBVIOUS
<1>2. /\ kept \in Seq(Observation(P)) /\ Lone(P, kept) /\ Dated(minimum, now, kept)
      /\ \A s, p : NumOf(kept, Since(P, s, p, now)) = 0
  <2>1. kept \in Seq(Observation(P))
    BY <1>1, RetainedItems
  <2>2. Lone(P, list) /\ Dated(lowest, now - 1, list)
    BY DEF PollMay
  <2>3. /\ Lone(P, Retained(list, minimum)) /\ Dated(minimum, now, Retained(list, minimum))
        /\ \A s, p : NumOf(Retained(list, minimum), Since(P, s, p, now)) = 0
    BY <2>2, RetainedTidy
  <2> QED BY <1>1, <2>1, <2>3, Zenon
<1>3. PICK start : start = [pending |-> kept, matched |-> m, out |-> <<>>, raised |-> FALSE]
  OBVIOUS
<1>4. /\ start \in BatchState(P) /\ start.pending = kept /\ start.matched = m
      /\ start.out = <<>> /\ ~start.raised
  BY <1>2, <1>3 DEF BatchState
<1>5. PICK q : q = Side("primary", now, limit, start, a)
  OBVIOUS
<1>6. t = Side("reference", now, limit, q, b)
  BY <1>1, <1>3, <1>5, Zenon DEF PollState
<1>7. "primary" \in Source /\ "reference" \in Source
      /\ Opposite["primary"] = "reference" /\ Opposite["reference"] = "primary"
  BY DEF Source, Opposite
<1>8. /\ q \in BatchState(P) /\ Lone(P, q.pending) /\ Dated(minimum, now, q.pending)
      /\ \A p \in P : Ledger(P, "primary", now, start, q, p, NumOf(a, {p}))
      /\ Balance(limit, start, q, Len(a))
  <2>1. minimum <= now
    BY DEF PollMay
  <2>2. SideRule(P, "primary", now, limit, start, a, q)
    <3>1. SideMay(P, "primary", now, limit, start, a)
      BY <1>4, <1>7, Zenon DEF SideMay
    <3> QED BY <1>5, <3>1, SideRuled, Zenon
  <2> QED BY <1>2, <1>4, <2>1, <2>2, Zenon DEF SideRule
<1>9. /\ t \in BatchState(P) /\ Lone(P, t.pending) /\ Dated(minimum, now, t.pending)
      /\ \A p \in P : Ledger(P, "reference", now, q, t, p, NumOf(b, {p}))
      /\ Balance(limit, q, t, Len(b))
  <2>1. minimum <= now
    BY DEF PollMay
  <2>2. SideRule(P, "reference", now, limit, q, b, t)
    <3>1. SideMay(P, "reference", now, limit, q, b)
      BY <1>7, <1>8, Zenon DEF SideMay
    <3> QED BY <1>6, <3>1, SideRuled, Zenon
  <2> QED BY <1>8, <2>1, <2>2, Zenon DEF SideRule
<1>10. /\ Len(t.pending) <= limit /\ Len(t.pending) <= Len(list) + Len(a) + Len(b)
       /\ Len(t.out) + Len(kept) + m = Len(t.pending) + t.matched
       /\ ~t.raised => Len(t.out) + t.matched = m + Len(a) + Len(b)
       /\ t.raised => Len(list) + Len(a) + Len(b) > limit
  <2>1. PICK i \in Nat, j \in Nat : i = Len(a) /\ j = Len(b)
    BY LenProperties
  <2>2. PICK n \in Nat, l \in Nat : n = Len(kept) /\ l = Len(list) /\ n <= l
    <3>1. /\ Len(kept) + Expired(list, minimum, "primary")
                + Expired(list, minimum, "reference") = Len(list)
          /\ Expired(list, minimum, "primary") \in Nat /\ Expired(list, minimum, "reference") \in Nat
      BY <1>1, <1>7, RetainedCounts
    <3>2. Len(kept) \in Nat /\ Len(list) \in Nat
      BY <1>2, LenProperties
    <3>3. PICK c \in Nat, d \in Nat :
             c = Expired(list, minimum, "primary") /\ d = Expired(list, minimum, "reference")
      BY <3>1
    <3>4. PICK n \in Nat, l \in Nat : n = Len(kept) /\ l = Len(list)
      BY <3>2
    <3>5. n + c + d = l
      BY <3>1, <3>3, <3>4, Zenon
    <3>6. n <= l
      BY <3>5
    <3> QED BY <3>4, <3>6, Zenon
  <2>3. Balance(limit, start, t, i + j)
    BY <1>4, <1>8, <1>9, <2>1, BalanceAdds
  <2>4. PICK tp \in Nat, to \in Nat, tm \in Nat : tp = Len(t.pending) /\ to = Len(t.out) /\ tm = t.matched
    BY <1>9, CountsAreNumbers, Zenon
  <2>5. Len(start.out) = 0 /\ Len(start.pending) = n /\ start.matched = m
    BY <1>4, <2>2, EmptySeq
  <2>6. /\ to + n + m = 0 + tp + tm /\ (~t.raised => to + tm = 0 + m + (i + j))
        /\ tp <= n + (i + j) /\ (n <= limit => tp <= limit)
        /\ (t.raised => start.raised \/ n + (i + j) > limit)
    BY <2>3, <2>4, <2>5, Zenon DEF Balance
  <2>7. l <= limit
    BY <2>2 DEF PollMay
  <2>8. /\ tp <= limit /\ tp <= l + i + j /\ to + n + m = tp + tm
        /\ (~t.raised => to + tm = m + i + j) /\ (t.raised => l + i + j > limit)
    BY <1>4, <2>2, <2>6, <2>7
  <2> QED BY <2>1, <2>2, <2>4, <2>8, Zenon
<1>11. ASSUME ~t.raised, NEW p \in P
       PROVE  \E first, above, below \in Nat : Paired(P, kept, now, a, b, t, p, first, above, below)
  <2>1. ~q.raised
    BY <1>9, <1>11, Zenon DEF Balance
  <2>2. PICK W, V, Wn, Vn :
           /\ W = Waiting(P, "primary", p) /\ V = Waiting(P, "reference", p)
           /\ Wn = Since(P, "primary", p, now) /\ Vn = Since(P, "reference", p, now)
    OBVIOUS
  <2>3. PICK kw \in Nat, kv \in Nat : kw = NumOf(kept, W) /\ kv = NumOf(kept, V)
    BY <1>4, CountsAreNumbers, Zenon
  <2>4. PICK qw \in Nat, qv \in Nat, qvn \in Nat, qo \in Nat :
           qw = NumOf(q.pending, W) /\ qv = NumOf(q.pending, V) /\ qvn = NumOf(q.pending, Vn)
           /\ qo = NumOf(q.out, {p})
    BY <1>8, CountsAreNumbers, Zenon
  <2>5. PICK tw \in Nat, tv \in Nat, tvn \in Nat, to \in Nat :
           tw = NumOf(t.pending, W) /\ tv = NumOf(t.pending, V) /\ tvn = NumOf(t.pending, Vn)
           /\ to = NumOf(t.out, {p})
    BY <1>9, CountsAreNumbers, Zenon
  <2>6. PICK i \in Nat, j \in Nat : i = NumOf(a, {p}) /\ j = NumOf(b, {p})
    BY NumBounds
  <2>7. NumOf(kept, Vn) = 0 /\ NumOf(start.out, {p}) = 0
    BY <1>2, <1>4, <2>2, NumEmpty, Zenon
  <2>8. /\ qo + kw = 0 + qw /\ qo + kv = 0 + i + qv /\ qvn <= 0
    BY <1>4, <1>7, <1>8, <2>1, <2>2, <2>3, <2>4, <2>6, <2>7, Zenon DEF Ledger
  <2>9. /\ to + qv = qo + tv /\ to + qw = qo + j + tw /\ to + qvn = qo + tvn
    BY <1>7, <1>9, <1>11, <2>2, <2>4, <2>5, <2>6, Zenon DEF Ledger
  <2>10. qw = 0 \/ qv = 0
    BY <1>8, <2>2, <2>4, Zenon DEF Lone
  <2>11. /\ qo + kw = qw /\ qo + kv = i + qv /\ to = qo + tvn
    BY <2>8, <2>9
  <2>12. Paired(P, kept, now, a, b, t, p, qo, qw, qv)
    BY <2>2, <2>3, <2>4, <2>5, <2>6, <2>9, <2>10, <2>11, Zenon DEF Paired
  <2> QED BY <2>12
<1> QED BY <1>1, <1>9, <1>10, <1>11, Zenon DEF PollRule

(* What a poll that matches no further back than the last one makes of p:  *)
(* `first' frames go out for the primary's observations, `late' for those  *)
(* of the reference that wait for the primary now.                         *)
Yield(P, list, now, a, b, t, p, first, late) ==
    /\ NumOf(t.out, {p}) + NumOf(list, Waiting(P, "reference", p))
       >= NumOf(a, {p}) + NumOf(t.pending, Waiting(P, "reference", p))
    /\ NumOf(t.out, {p}) + NumOf(list, Waiting(P, "primary", p))
       >= NumOf(b, {p}) + NumOf(t.pending, Waiting(P, "primary", p))
    /\ NumOf(t.out, {p}) = first + late
    /\ late = NumOf(t.pending, Since(P, "reference", p, now))
    /\ first = 0 \/ first + NumOf(list, Since(P, "reference", p, now - 1)) <= NumOf(a, {p})
    /\ late = 0 \/ NumOf(t.out, {p}) <= NumOf(b, {p})

LEMMA PollYields ==
    ASSUME NEW P, NEW list \in Seq(Observation(P)), NEW m, NEW now \in Nat, NEW limit,
           NEW minimum \in Int, minimum = now - 1, NEW a \in Seq(P), NEW b \in Seq(P), NEW t,
           PollRule(P, list, m, now, limit, minimum, a, b, t), ~t.raised, NEW p \in P
    PROVE  \E first, late \in Nat : Yield(P, list, now, a, b, t, p, first, late)
<1>1. t \in BatchState(P) /\ Lone(P, t.pending)
  BY Zenon DEF PollRule
<1>2. PICK kept : kept = Retained(list, minimum)
  OBVIOUS
<1>3. PICK first \in Nat, above \in Nat, below \in Nat :
         Paired(P, kept, now, a, b, t, p, first, above, below)
  BY <1>2, Zenon DEF PollRule
<1>4. PICK W, V, Vo, Vn :
         /\ W = Waiting(P, "primary", p) /\ V = Waiting(P, "reference", p)
         /\ Vo = Since(P, "reference", p, now - 1) /\ Vn = Since(P, "reference", p, now)
  OBVIOUS
<1>5. PICK kw \in Nat, kv \in Nat, lw \in Nat, lv \in Nat, lo \in Nat :
         /\ kw = NumOf(kept, W) /\ kv = NumOf(kept, V)
         /\ lw = NumOf(list, W) /\ lv = NumOf(list, V) /\ lo = NumOf(list, Vo)
         /\ kw <= lw /\ kv <= lv /\ lo <= kv
  <2>1. kept \in Seq(Observation(P))
    BY <1>2, RetainedItems
  <2>2. \A X : NumOf(kept, X) \in Nat /\ NumOf(list, X) \in Nat
    BY <2>1, NumBounds, Zenon
  <2>3. NumOf(kept, W) <= NumOf(list, W) /\ NumOf(kept, V) <= NumOf(list, V)
    <3>1. \A X : NumOf(Retained(list, minimum), X) <= NumOf(list, X)
      BY RetainedCounts
    <3> QED BY <1>2, <3>1, Zenon
  <2>4. NumOf(kept, Vo) = NumOf(list, Vo)
    <3>1. NumOf(kept, Vo) = Cardinality(
             {i \in 1 .. Len(list) : list[i].generation >= minimum /\ list[i] \in Vo})
      <4>1. \A X : NumOf(Retained(list, minimum), X) = Cardinality(
               {i \in 1 .. Len(list) : list[i].generation >= minimum /\ list[i] \in X})
        BY RetainedItems
      <4> QED BY <1>2, <4>1, Zenon
    <3>2. PlacesOf(list, Vo) = {i \in 1 .. Len(list) : list[i] \in Vo}
      BY NumBounds
    <3>3. \A i \in 1 .. Len(list) : list[i] \in Vo => list[i].generation >= minimum
      BY <1>4 DEF Since
    <3>4. PlacesOf(list, Vo)
          = {i \in 1 .. Len(list) : list[i].generation >= minimum /\ list[i] \in Vo}
      BY <3>2, <3>3
    <3> QED BY <3>1, <3>4, Zenon DEF NumOf
  <2>5. NumOf(kept, Vo) <= NumOf(kept, V)
    <3>1. Vo \subseteq V
      BY <1>4 DEF Since
    <3> QED BY <2>1, <3>1, NumWithin
  <2>6. NumOf(list, Vo) <= NumOf(kept, V)
    BY <2>4, <2>5, Zenon
  <2> QED BY <2>2, <2>3, <2>6
<1>6. PICK tw \in Nat, tv \in Nat, tn \in Nat, out \in Nat :
         /\ tw = NumOf(t.pending, W) /\ tv = NumOf(t.pending, V) /\ tn = NumOf(t.pending, Vn)
         /\ out = NumOf(t.out, {p})
  BY <1>1, CountsAreNumbers, Zenon
<1>7. PICK i \in Nat, j \in Nat : i = NumOf(a, {p}) /\ j = NumOf(b, {p})
  BY NumBounds
<1>8. tn <= tv
  <2>1. t.pending \in Seq(Observation(P))
    BY <1>1 DEF BatchState
  <2>2. PICK s \in Seq(Observation(P)) : s = t.pending
    BY <2>1
  <2>3. Vn \subseteq V
    BY <1>4 DEF Since
  <2>4. NumOf(s, Vn) <= NumOf(s, V)
    BY <2>3, NumWithin
  <2> QED BY <1>6, <2>2, <2>4, Zenon
<1>9. tw = 0 \/ tv = 0
  BY <1>1, <1>4, <1>6, Zenon DEF Lone
<1>10. /\ first + kw = above /\ first + kv = i + below
       /\ out + above = first + j + tw /\ out + below = first + tv
  BY <1>3, <1>4, <1>5, <1>6, <1>7, Zenon DEF Paired
<1>11. /\ out = first + tn /\ (above = 0 \/ below = 0)
  BY <1>3, <1>4, <1>6, Zenon DEF Paired
<1>12. kw <= lw /\ kv <= lv /\ lo <= kv
  BY <1>5
<1>13. out + lv >= i + tv /\ out + lw >= j + tw
  BY <1>10, <1>12
<1>14. first = 0 \/ first + lo <= i
  BY <1>10, <1>11, <1>12
<1>15. tn = 0 \/ out <= j
  BY <1>8, <1>9, <1>10, <1>11
<1>16. Yield(P, list, now, a, b, t, p, first, tn)
  BY <1>4, <1>5, <1>6, <1>7, <1>11, <1>13, <1>14, <1>15, Zenon DEF Yield
<1> QED BY <1>16
=============================================================================
