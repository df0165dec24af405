--------------------------- MODULE SequenceLemmas ---------------------------
(***************************************************************************)
(* What the operators Min, InsertAt and RemoveAt of the community modules  *)
(* return, and what they do to the number of elements of a kind; what a    *)
(* fold keeps.  The vectors of the event system and of the layer database  *)
(* are changed through them only.                                          *)
(***************************************************************************)
EXTENDS Integers, Sequences, SequencesExt, SequenceTheorems,
        FiniteSetTheorems, WellFoundedInduction, TLAPS

\* A set of naturals with an element has a least one, and Min returns it.
LEMMA MinNat ==
  ASSUME NEW S \in SUBSET Nat, S # {}
  PROVE  Min(S) \in S /\ \A y \in S : Min(S) <= y
<1> DEFINE R == OpToRel(<, Nat)
<1>1. \E x \in S : \A y \in S : ~ (<<y, x>> \in R)
  <2>1. IsWellFoundedOn(R, Nat)
    BY NatLessThanWellFounded
  <2> HIDE DEF R
  <2> QED BY <2>1, WFMin
<1>2. PICK x \in S : \A y \in S : ~ (<<y, x>> \in R)
  BY <1>1
<1>3. \A y \in S : x <= y
  <2> TAKE y \in S
  <2>1. ~ (y < x)
    BY <1>2 DEF OpToRel
  <2> QED BY <2>1
<1> QED BY <1>3 DEF Min

\* Max of some positions is one of them and the last.
LEMMA MaxNat ==
  ASSUME NEW n \in Nat, NEW d \in SUBSET (1..n), d # {}
  PROVE  Max(d) \in d /\ \A y \in d : y <= Max(d)
<1> DEFINE B == {m \in 0..n : \A y \in d : y <= m}
<1>1. B \in SUBSET Nat /\ n \in B
  OBVIOUS
<1>2. PICK m \in B : \A k \in B : m <= k
  <2> HIDE DEF B
  <2> QED BY <1>1, MinNat
<1>3. m \in 0..n /\ \A y \in d : y <= m
  OBVIOUS
<1>4. m \in d
  <2> SUFFICES ASSUME m \notin d PROVE FALSE
    OBVIOUS
  <2>1. m # 0
    <3>1. PICK y \in d : y \in 1..n
      OBVIOUS
    <3> QED BY <1>3, <3>1
  <2>2. m - 1 \in 0..n /\ \A y \in d : y <= m - 1
    <3>1. m - 1 \in 0..n
      BY <1>3, <2>1
    <3>2. ASSUME NEW y \in d PROVE y <= m - 1
      <4>1. y \in 1..n /\ y <= m /\ y # m
        BY <1>3, <2>1
      <4> QED BY <1>3, <4>1
    <3> QED BY <3>1, <3>2
  <2> QED BY <1>2, <1>3, <2>2
<1>5. \E x \in d : \A y \in d : x >= y
  BY <1>3, <1>4
<1>6. Max(d) \in d /\ \A y \in d : Max(d) >= y
  BY <1>5 DEF Max
<1> QED BY <1>6

\* The pieces InsertAt and RemoveAt are made of.
LEMMA PieceFacts ==
  ASSUME NEW S, NEW s \in Seq(S), NEW m \in 1..Len(s)+1, NEW n \in 0..Len(s),
         m <= n+1
  PROVE  /\ SubSeq(s, m, n) \in Seq(S)
         /\ Len(SubSeq(s, m, n)) = n - m + 1
         /\ \A j \in 1..n-m+1 : SubSeq(s, m, n)[j] = s[m+j-1]
BY SubSeqProperties, ElementOfSeq

\* Elements and length of a concatenation.
LEMMA JoinFacts ==
  ASSUME NEW S, NEW a \in Seq(S), NEW b \in Seq(S)
  PROVE  /\ a \o b \in Seq(S)
         /\ Len(a \o b) = Len(a) + Len(b)
         /\ \A j \in 1..Len(a) : (a \o b)[j] = a[j]
         /\ \A j \in Len(a)+1..Len(a)+Len(b) : (a \o b)[j] = b[j - Len(a)]
<1>1. Len(a) \in Nat /\ Len(b) \in Nat
  OBVIOUS
<1>2. /\ a \o b \in Seq(S)
      /\ Len(a \o b) = Len(a) + Len(b)
      /\ \A i \in 1 .. Len(a) + Len(b) :
           (a \o b)[i] = IF i <= Len(a) THEN a[i] ELSE b[i - Len(a)]
  BY ConcatProperties
<1>3. ASSUME NEW j \in 1..Len(a) PROVE (a \o b)[j] = a[j]
  <2>1. j \in 1..Len(a)+Len(b) /\ j <= Len(a)
    BY <1>1
  <2> QED BY <2>1, <1>2
<1>4. ASSUME NEW j \in Len(a)+1..Len(a)+Len(b) PROVE (a \o b)[j] = b[j - Len(a)]
  <2>1. j \in 1..Len(a)+Len(b) /\ ~(j <= Len(a))
    BY <1>1
  <2> QED BY <2>1, <1>2
<1> QED BY <1>2, <1>3, <1>4

\* Insertion shifts what follows one place up.
LEMMA InsertAtFacts ==
  ASSUME NEW S, NEW s \in Seq(S), NEW i \in 1..Len(s)+1, NEW e \in S
  PROVE  /\ InsertAt(s, i, e) \in Seq(S)
         /\ Len(InsertAt(s, i, e)) = Len(s) + 1
         /\ \A j \in 1..i-1 : InsertAt(s, i, e)[j] = s[j]
         /\ InsertAt(s, i, e)[i] = e
         /\ \A j \in i+1..Len(s)+1 : InsertAt(s, i, e)[j] = s[j-1]
<1> DEFINE a == SubSeq(s, 1, i-1)
           b == SubSeq(s, i, Len(s))
           t == <<e>>
           c == a \o t
<1>0. Len(s) \in Nat
  OBVIOUS
<1>1. a \in Seq(S) /\ Len(a) = i-1 /\ \A j \in 1..i-1 : a[j] = s[j]
  BY <1>0, PieceFacts
<1>2. b \in Seq(S) /\ Len(b) = Len(s)+1-i /\ \A j \in 1..Len(s)+1-i : b[j] = s[i+j-1]
  BY <1>0, PieceFacts
<1>3. t \in Seq(S) /\ Len(t) = 1 /\ t[1] = e
  OBVIOUS
<1>4. InsertAt(s, i, e) = c \o b
  BY DEF InsertAt
<1> HIDE DEF a, b, t
<1>5. c \in Seq(S) /\ Len(c) = i /\ (\A j \in 1..i-1 : c[j] = a[j]) /\ c[i] = t[1]
  <2>1. /\ c \in Seq(S) /\ Len(c) = Len(a) + Len(t)
        /\ \A j \in 1..Len(a) : c[j] = a[j]
        /\ \A j \in Len(a)+1..Len(a)+Len(t) : c[j] = t[j - Len(a)]
    BY <1>1, <1>3, JoinFacts
  <2> HIDE DEF c
  <2> QED BY <2>1, <1>1, <1>3
<1> HIDE DEF c
<1>6. /\ c \o b \in Seq(S) /\ Len(c \o b) = Len(s)+1
      /\ \A j \in 1..i : (c \o b)[j] = c[j]
      /\ \A j \in i+1..Len(s)+1 : (c \o b)[j] = b[j - i]
  <2>1. /\ c \o b \in Seq(S) /\ Len(c \o b) = Len(c) + Len(b)
        /\ \A j \in 1..Len(c) : (c \o b)[j] = c[j]
        /\ \A j \in Len(c)+1..Len(c)+Len(b) : (c \o b)[j] = b[j - Len(c)]
    BY <1>5, <1>2, JoinFacts
  <2> QED BY <2>1, <1>5, <1>2, <1>0
<1>7. ASSUME NEW j \in i+1..Len(s)+1 PROVE (c \o b)[j] = s[j-1]
  <2>1. j - i \in 1..Len(s)+1-i /\ i + (j - i) - 1 = j - 1
    BY <1>0
  <2> QED BY <2>1, <1>6, <1>2
<1>8. ASSUME NEW j \in 1..i-1 PROVE (c \o b)[j] = s[j]
  BY <1>6, <1>5, <1>1
<1>9. (c \o b)[i] = e
  BY <1>6, <1>5, <1>3
<1> QED BY <1>4, <1>6, <1>7, <1>8, <1>9

\* Removal shifts what follows one place down.
LEMMA RemoveAtFacts ==
  ASSUME NEW S, NEW s \in Seq(S), NEW i \in 1..Len(s)
  PROVE  /\ RemoveAt(s, i) \in Seq(S)
         /\ Len(RemoveAt(s, i)) = Len(s) - 1
         /\ \A j \in 1..i-1 : RemoveAt(s, i)[j] = s[j]
         /\ \A j \in i..Len(s)-1 : RemoveAt(s, i)[j] = s[j+1]
<1> DEFINE a == SubSeq(s, 1, i-1)
           b == SubSeq(s, i+1, Len(s))
<1>0. Len(s) \in Nat
  OBVIOUS
<1>1. a \in Seq(S) /\ Len(a) = i-1 /\ \A j \in 1..i-1 : a[j] = s[j]
  BY <1>0, PieceFacts
<1>2. b \in Seq(S) /\ Len(b) = Len(s)-i /\ \A j \in 1..Len(s)-i : b[j] = s[i+j]
  BY <1>0, PieceFacts
<1>3. RemoveAt(s, i) = a \o b
  BY DEF RemoveAt
<1> HIDE DEF a, b
<1>4. /\ a \o b \in Seq(S) /\ Len(a \o b) = Len(a) + Len(b)
      /\ \A j \in 1..Len(a) : (a \o b)[j] = a[j]
      /\ \A j \in Len(a)+1..Len(a)+Len(b) : (a \o b)[j] = b[j - Len(a)]
  BY <1>1, <1>2, JoinFacts
<1>5. ASSUME NEW j \in i..Len(s)-1 PROVE (a \o b)[j] = s[j+1]
  <2>1. /\ j \in Len(a)+1..Len(a)+Len(b)
        /\ j - Len(a) \in 1..Len(s)-i
        /\ i + (j - Len(a)) = j + 1
    BY <1>0, <1>1, <1>2
  <2> QED BY <2>1, <1>4, <1>2
<1>6. ASSUME NEW j \in 1..i-1 PROVE (a \o b)[j] = s[j]
  BY <1>4, <1>1
<1>7. Len(a) + Len(b) = Len(s) - 1
  BY <1>0, <1>1, <1>2
<1> QED BY <1>3, <1>4, <1>5, <1>6, <1>7

\* The same of a name for the result: t is s with e at i, or without what was there.
Longer(t, s, i, e) ==
  /\ Len(t) = Len(s) + 1 /\ t[i] = e
  /\ \A j \in 1..i-1 : t[j] = s[j]
  /\ \A j \in i+1..Len(s)+1 : t[j] = s[j-1]

Shorter(t, s, i) ==
  /\ Len(t) = Len(s) - 1
  /\ \A j \in 1..i-1 : t[j] = s[j]
  /\ \A j \in i..Len(s)-1 : t[j] = s[j+1]

LEMMA OneLonger ==
  ASSUME NEW S, NEW s \in Seq(S), NEW i \in 1..Len(s)+1, NEW e \in S,
         NEW t, t = InsertAt(s, i, e)
  PROVE  Longer(t, s, i, e)
<1>1. /\ Len(InsertAt(s, i, e)) = Len(s) + 1
      /\ \A j \in 1..i-1 : InsertAt(s, i, e)[j] = s[j]
      /\ InsertAt(s, i, e)[i] = e
      /\ \A j \in i+1..Len(s)+1 : InsertAt(s, i, e)[j] = s[j-1]
  BY InsertAtFacts
<1> QED BY <1>1, Zenon DEF Longer

LEMMA OneShorter ==
  ASSUME NEW S, NEW s \in Seq(S), NEW i \in 1..Len(s), NEW t, t = RemoveAt(s, i)
  PROVE  Shorter(t, s, i)
<1>1. /\ Len(RemoveAt(s, i)) = Len(s) - 1
      /\ \A j \in 1..i-1 : RemoveAt(s, i)[j] = s[j]
      /\ \A j \in i..Len(s)-1 : RemoveAt(s, i)[j] = s[j+1]
  BY RemoveAtFacts
<1> QED BY <1>1, Zenon DEF Shorter

-----------------------------------------------------------------------------
(***************************************************************************)
(* How many elements of a sequence are in a set.                           *)
(***************************************************************************)
Where(s, T) == {i \in 1..Len(s) : s[i] \in T}

Count(s, T) == Cardinality(Where(s, T))

\* A count is a natural number.
LEMMA CountFacts ==
  ASSUME NEW S, NEW s \in Seq(S), NEW T
  PROVE  IsFiniteSet(Where(s, T)) /\ Count(s, T) \in Nat
<1>1. IsFiniteSet(1..Len(s))
  BY FS_Interval
<1>2. Where(s, T) \in SUBSET (1..Len(s))
  BY DEF Where
<1> QED BY <1>1, <1>2, FS_Subset, FS_CardinalityType DEF Count

\* If t is s with a gap at i filled, t has the elements of s and t[i].
LEMMA GapCount ==
  ASSUME NEW S, NEW s \in Seq(S), NEW t \in Seq(S), NEW T, NEW i \in 1..Len(t),
         Len(t) = Len(s) + 1,
         \A j \in 1..i-1 : t[j] = s[j],
         \A j \in i+1..Len(t) : t[j] = s[j-1]
  PROVE  Count(t, T) = Count(s, T) + (IF t[i] \in T THEN 1 ELSE 0)
<1> DEFINE A == Where(s, T)
           B == Where(t, T) \ {i}
           to(j) == IF j < i THEN j ELSE j+1
           f == [j \in A |-> to(j)]
<1>0. Len(s) \in Nat /\ Len(t) \in Nat
  OBVIOUS
<1>1. \A j \in 1..Len(s) : to(j) \in 1..Len(t) /\ to(j) # i /\ t[to(j)] = s[j]
  <2> TAKE j \in 1..Len(s)
  <2>1. CASE j < i
    <3>1. j \in 1..i-1
      BY <1>0, <2>1
    <3> QED BY <3>1, <1>0, <2>1
  <2>2. CASE ~(j < i)
    <3>1. j+1 \in i+1..Len(t) /\ (j+1)-1 = j
      BY <1>0, <2>2
    <3> QED BY <3>1, <1>0, <2>2
  <2> QED BY <2>1, <2>2
<1>2. \A j, k \in 1..Len(s) : to(j) = to(k) => j = k
  BY <1>0
<1>3. \A k \in 1..Len(t) : k # i => \E j \in 1..Len(s) : to(j) = k
  <2> TAKE k \in 1..Len(t)
  <2> HAVE k # i
  <2>1. CASE k < i
    <3>1. k \in 1..Len(s) /\ to(k) = k
      BY <1>0, <2>1
    <3> QED BY <3>1
  <2>2. CASE k > i
    <3>1. k-1 \in 1..Len(s) /\ to(k-1) = k
      BY <1>0, <2>2
    <3> QED BY <3>1
  <2> QED BY <2>1, <2>2, <1>0
<1> HIDE DEF to
<1>4. f \in [A -> B]
  BY <1>1 DEF Where
<1>5. \A j, k \in A : f[j] = f[k] => j = k
  BY <1>2 DEF Where
<1>6. \A k \in B : \E j \in A : f[j] = k
  <2> TAKE k \in B
  <2>1. k \in 1..Len(t) /\ t[k] \in T /\ k # i
    BY DEF Where
  <2>2. PICK j \in 1..Len(s) : to(j) = k
    BY <2>1, <1>3
  <2>3. s[j] \in T
    BY <2>1, <2>2, <1>1
  <2>4. j \in A /\ f[j] = k
    BY <2>2, <2>3 DEF Where
  <2> QED BY <2>4
<1> HIDE DEF f
<1>7. f \in Bijection(A, B)
  BY <1>4, <1>5, <1>6 DEF Bijection, Injection, Surjection, IsInjective
<1>8. IsFiniteSet(A) /\ IsFiniteSet(Where(t, T)) /\ Count(t, T) \in Nat
  BY CountFacts
<1>9. Cardinality(B) = Cardinality(A)
  BY <1>7, <1>8, FS_Bijection DEF ExistsBijection
<1>10. Cardinality(B) = IF i \in Where(t, T) THEN Cardinality(Where(t, T)) - 1
                        ELSE Cardinality(Where(t, T))
  BY <1>8, FS_RemoveElement
<1>11. i \in Where(t, T) <=> t[i] \in T
  BY DEF Where
<1> HIDE DEF A, B
<1> QED BY <1>8, <1>9, <1>10, <1>11 DEF Count, A

\* Insertion counts the new element.
LEMMA InsertCount ==
  ASSUME NEW S, NEW s \in Seq(S), NEW i \in 1..Len(s)+1, NEW e \in S, NEW T
  PROVE  Count(InsertAt(s, i, e), T) = Count(s, T) + (IF e \in T THEN 1 ELSE 0)
<1> DEFINE t == InsertAt(s, i, e)
<1>1. /\ t \in Seq(S) /\ Len(t) = Len(s) + 1
      /\ \A j \in 1..i-1 : t[j] = s[j]
      /\ t[i] = e
      /\ \A j \in i+1..Len(s)+1 : t[j] = s[j-1]
  BY InsertAtFacts
<1> HIDE DEF t
<1>2. i \in 1..Len(t) /\ \A j \in i+1..Len(t) : t[j] = s[j-1]
  BY <1>1
<1>3. Count(t, T) = Count(s, T) + (IF t[i] \in T THEN 1 ELSE 0)
  BY <1>1, <1>2, GapCount
<1> QED BY <1>1, <1>3 DEF t

\* Removal no longer counts the element removed.
LEMMA RemoveCount ==
  ASSUME NEW S, NEW s \in Seq(S), NEW i \in 1..Len(s), NEW T
  PROVE  Count(s, T) = Count(RemoveAt(s, i), T) + (IF s[i] \in T THEN 1 ELSE 0)
<1> DEFINE t == RemoveAt(s, i)
<1>1. /\ t \in Seq(S) /\ Len(t) = Len(s) - 1
      /\ \A j \in 1..i-1 : t[j] = s[j]
      /\ \A j \in i..Len(s)-1 : t[j] = s[j+1]
  BY RemoveAtFacts
<1> HIDE DEF t
<1>2. Len(s) = Len(t) + 1 /\ \A j \in 1..i-1 : s[j] = t[j]
  BY <1>1
<1>3. \A j \in i+1..Len(s) : s[j] = t[j-1]
  <2> TAKE j \in i+1..Len(s)
  <2>1. j-1 \in i..Len(s)-1 /\ (j-1)+1 = j
    OBVIOUS
  <2> QED BY <2>1, <1>1
<1>4. Count(s, T) = Count(t, T) + (IF s[i] \in T THEN 1 ELSE 0)
  BY <1>1, <1>2, <1>3, GapCount
<1> QED BY <1>4 DEF t

-----------------------------------------------------------------------------
(***************************************************************************)
(* Folds.  The function a fold of the community modules computes with is   *)
(* chosen: it is one of those that satisfy its recursion, if there is one. *)
(* c chooses the element of a set that is folded last, G is the operation. *)
(***************************************************************************)
IsFold(h, D, c, base, G) ==
  \A d \in SUBSET D : h[d] = IF d = {} THEN base ELSE G[h[d \ {c[d]}]][c[d]]

Chooses(c, D) == \A d \in SUBSET D : d # {} => c[d] \in d

\* There is one.
LEMMA FoldExists ==
  ASSUME NEW D, IsFiniteSet(D), NEW c, Chooses(c, D),
         NEW ST, NEW base \in ST, NEW G \in [ST -> [D -> ST]]
  PROVE  \E h \in [SUBSET D -> ST] : IsFold(h, D, c, base, G)
<1> USE DEF Chooses
<1> DEFINE Small(n) == {d \in SUBSET D : Cardinality(d) <= n}
           Is(h, d) == h[d] = IF d = {} THEN base ELSE G[h[d \ {c[d]}]][c[d]]
           Has(n)   == \E h \in [Small(n) -> ST] : \A d \in Small(n) : Is(h, d)
           Bad      == {n \in 0..Cardinality(D) : ~Has(n)}
<1>1. /\ Cardinality(D) \in Nat
      /\ \A d \in SUBSET D : IsFiniteSet(d) /\ Cardinality(d) \in Nat /\ Cardinality(d) <= Cardinality(D)
  BY FS_Subset, FS_CardinalityType
<1>0. \A a \in ST, i \in D : G[a][i] \in ST
  <2> TAKE a \in ST, i \in D
  <2>1. G[a] \in [D -> ST]
    OBVIOUS
  <2> QED BY <2>1
<1>2. Bad = {}
  <2> SUFFICES ASSUME Bad # {} PROVE FALSE
    OBVIOUS
  <2>1. PICK n \in Bad : \A k \in Bad : n <= k
    <3>1. Bad \in SUBSET Nat
      BY <1>1
    <3> HIDE DEF Bad
    <3> QED BY <3>1, MinNat
  <2>2. n \in 0..Cardinality(D) /\ ~Has(n)
    OBVIOUS
  <2>3. CASE n = 0
    <3>1. \A d \in Small(n) : d = {}
      BY <1>1, <2>3, FS_EmptySet
    <3> DEFINE h == [d \in Small(n) |-> base]
    <3>2. h \in [Small(n) -> ST] /\ \A d \in Small(n) : Is(h, d)
      BY <3>1
    <3> QED BY <2>2, <3>2
  <2>4. CASE n # 0
    <3>1. n - 1 \in 0..Cardinality(D) /\ n - 1 \notin Bad
      <4> HIDE DEF Bad
      <4> QED BY <1>1, <2>1, <2>2, <2>4
    <3>2. Has(n - 1)
      <4> HIDE DEF Has
      <4> QED BY <3>1
    <3>3. PICK h \in [Small(n - 1) -> ST] : \A d \in Small(n - 1) : Is(h, d)
      BY <3>2
    <3> DEFINE g == [d \in Small(n) |-> IF d \in Small(n - 1) THEN h[d] ELSE G[h[d \ {c[d]}]][c[d]]]
    <3>4. ASSUME NEW d \in Small(n), d # {}
          PROVE  c[d] \in D /\ d \ {c[d]} \in Small(n - 1)
      <4>1. d \in SUBSET D /\ c[d] \in d /\ IsFiniteSet(d)
        BY <1>1, <3>4
      <4>2. Cardinality(d \ {c[d]}) = Cardinality(d) - 1
        BY <4>1, FS_RemoveElement
      <4>3. Cardinality(d) \in Nat /\ Cardinality(d) <= n /\ n \in Nat
        BY <1>1, <2>2, <4>1
      <4> QED BY <4>1, <4>2, <4>3
    <3>5. {} \in Small(n - 1)
      BY <1>1, <2>2, <2>4, FS_EmptySet
    <3>6. \A d \in Small(n - 1) : d \in Small(n)
      BY <1>1, <2>2
    <3> HIDE DEF Small
    <3>7. g \in [Small(n) -> ST]
      <4>1. ASSUME NEW d \in Small(n), d \notin Small(n - 1)
            PROVE  G[h[d \ {c[d]}]][c[d]] \in ST
        <5>1. d # {}
          BY <3>5, <4>1
        <5>2. c[d] \in D /\ d \ {c[d]} \in Small(n - 1)
          BY <3>4, <5>1
        <5>3. h[d \ {c[d]}] \in ST
          BY <3>3, <5>2
        <5> QED BY <1>0, <5>2, <5>3
      <4>2. \A d \in Small(n - 1) : h[d] \in ST
        BY <3>3
      <4> QED BY <4>1, <4>2
    <3>8. ASSUME NEW d \in Small(n) PROVE Is(g, d)
      <4>1. CASE d = {}
        BY <3>3, <3>5, <3>6, <4>1
      <4>2. CASE d # {}
        <5>1. g[d \ {c[d]}] = h[d \ {c[d]}]
          BY <3>4, <3>6, <4>2
        <5>2. g[d] = G[h[d \ {c[d]}]][c[d]]
          BY <3>3, <4>2
        <5> QED BY <4>2, <5>1, <5>2
      <4> QED BY <4>1, <4>2
    <3> HIDE DEF g, Is
    <3> QED BY <2>2, <3>7, <3>8
  <2> QED BY <2>3, <2>4
<1>3. Has(Cardinality(D))
  <2> HIDE DEF Has
  <2> QED BY <1>1, <1>2
<1>4. Small(Cardinality(D)) = SUBSET D
  BY <1>1
<1> QED BY <1>3, <1>4 DEF IsFold

\* What each application of the operation keeps holds of the result.
LEMMA FoldKeeps ==
  ASSUME NEW D, IsFiniteSet(D), NEW c, Chooses(c, D), NEW iter, NEW Good,
         iter[{}] \in Good[{}],
         \A d \in SUBSET D :
           d # {} /\ iter[d \ {c[d]}] \in Good[d \ {c[d]}] => iter[d] \in Good[d]
  PROVE  iter[D] \in Good[D]
<1> USE DEF Chooses
<1> DEFINE Bad == {d \in SUBSET D : iter[d] \notin Good[d]}
           Sizes == {Cardinality(d) : d \in Bad}
<1>1. \A d \in SUBSET D : IsFiniteSet(d) /\ Cardinality(d) \in Nat
  BY FS_Subset, FS_CardinalityType
<1>2. Bad = {}
  <2> SUFFICES ASSUME Bad # {} PROVE FALSE
    OBVIOUS
  <2>1. Sizes \in SUBSET Nat /\ Sizes # {}
    BY <1>1
  <2>2. PICK n \in Sizes : \A k \in Sizes : n <= k
    <3> HIDE DEF Sizes
    <3> QED BY <2>1, MinNat
  <2>3. PICK d \in Bad : n = Cardinality(d)
    BY <2>2
  <2>4. d # {} /\ c[d] \in d /\ d \ {c[d]} \in SUBSET D
    OBVIOUS
  <2>5. d \ {c[d]} \in Bad
    BY <2>4
  <2>6. Cardinality(d \ {c[d]}) = Cardinality(d) - 1 /\ Cardinality(d) \in Nat
    BY <1>1, <2>4, FS_RemoveElement
  <2>7. Cardinality(d \ {c[d]}) \in Sizes
    BY <2>5
  <2> HIDE DEF Sizes, Bad
  <2> QED BY <2>2, <2>3, <2>6, <2>7
<1> QED BY <1>2

=============================================================================
