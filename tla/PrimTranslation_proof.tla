----------------------- MODULE PrimTranslation_proof -----------------------
(***************************************************************************)
(* No order of switches, edits and translations deletes a transform from   *)
(* under a translated node or leaves an entry of the context without one,  *)
(* for any prims, types and compositions of the stage.                     *)
(*                                                                         *)
(* A transform goes when its count does, with the nodes that stand on it;  *)
(* so that an entry keeps its node the counts have to cover the entries    *)
(* that are chained, and the others must have a node outside the DAG.      *)
(* Counting off is done for all ancestors of a prim, counting for those of *)
(* its holder: the two differ by a prim nothing stands on.                 *)
(***************************************************************************)
EXTENDS PrimTranslation, FiniteSetTheorems, TLAPS

EntryType == [type : Types \cup {Plain}, chained : BOOLEAN]

\* The entries that stand on a transform.
On(X, q)        == {p \in X : q \in Up(Holder(p))}
ChainedIn(es)   == {p \in DOMAIN es : es[p].chained}
StandingOn(es, q) == On(ChainedIn(es), q)

Grounded ==
  \A p \in DOMAIN entries :
    made[p] # {} /\ (entries[p].chained \/ made[p] \ Parented # {})

ShapeType ==
  /\ DOMAIN entries \subseteq Paths
  /\ entries \in [DOMAIN entries -> EntryType]
  /\ made \in [Paths -> SUBSET Types]
  /\ required \in [Paths -> Nat]

Covered == \A q \in Paths : required[q] >= Cardinality(StandingOn(entries, q))

ShapeInv == ShapeType /\ Covered /\ Grounded

TranslationInv ==
  /\ ShapeInv
  /\ stage \in Compositions
  /\ changed \in Paths \cup {NoPath} /\ switched \subseteq Paths

-----------------------------------------------------------------------------
\* An element of a sequence is its first or one of the rest.
LEMMA TailRange ==
  ASSUME NEW S, NEW s \in Seq(S), Len(s) > 1
  PROVE  Range(s) = {s[1]} \cup Range(Tail(s)) /\ s[2] \in S /\ Len(Tail(s)) # Len(s)
<1>1. /\ Len(s) \in Nat /\ Len(Tail(s)) = Len(s) - 1
      /\ \A i \in 1..Len(s) - 1 : Tail(s)[i] = s[i + 1]
  OBVIOUS
<1>2. DOMAIN s = 1..Len(s) /\ DOMAIN Tail(s) = 1..Len(s) - 1
  OBVIOUS
<1>3. ASSUME NEW x \in Range(s) PROVE x \in {s[1]} \cup Range(Tail(s))
  <2>1. PICK i \in 1..Len(s) : x = s[i]
    BY <1>2 DEF Range
  <2>2. CASE i = 1
    BY <2>1, <2>2
  <2>3. CASE i # 1
    <3>1. i - 1 \in 1..Len(s) - 1 /\ Tail(s)[i - 1] = x
      BY <1>1, <2>1, <2>3
    <3> QED BY <3>1, <1>2 DEF Range
  <2> QED BY <2>2, <2>3
<1>4. ASSUME NEW x \in Range(Tail(s)) PROVE x \in Range(s)
  <2>1. PICK i \in 1..Len(s) - 1 : x = Tail(s)[i]
    BY <1>2 DEF Range
  <2>2. i + 1 \in 1..Len(s) /\ x = s[i + 1]
    BY <1>1, <2>1
  <2> QED BY <2>2, <1>2 DEF Range
<1>5. s[1] \in Range(s)
  BY <1>1, <1>2 DEF Range
<1>6. s[2] \in S /\ Len(Tail(s)) # Len(s)
  BY <1>1
<1> QED BY <1>3, <1>4, <1>5, <1>6

\* The transforms a prim's node stands on.
LEMMA HolderFacts ==
  ASSUME NEW p \in Paths
  PROVE  /\ Holder(p) \in Paths /\ Holder(p) \in Up(Holder(p))
         /\ \A q \in Unmerged : q \notin Up(Holder(p))
         /\ \A q \in Paths \ Unmerged : q \in Up(Holder(p)) <=> q \in Up(p)
<1>1. \A r \in Paths : r \in Up(r)
  <2>1. \A r \in Paths : Chain[r] \in Seq(Paths) /\ Chain[r] # << >> /\ Chain[r][1] = r
    BY ChainAssumption
  <2>2. \A r \in Paths : 1 \in DOMAIN Chain[r]
    BY <2>1
  <2> QED BY <2>1, <2>2 DEF Up, Range
<1>2. CASE p \in Unmerged
  <2>1. Chain[p] \in Seq(Paths) /\ Len(Chain[p]) > 1 /\ Chain[p][1] = p
    BY <1>2, ChainAssumption, UnmergedAssumption
  <2> DEFINE r == Chain[p][2]
  <2>2. /\ Range(Chain[p]) = {p} \cup Range(Tail(Chain[p])) /\ r \in Paths
        /\ Len(Tail(Chain[p])) # Len(Chain[p])
    BY <2>1, TailRange
  <2>3. Tail(Chain[p]) = Chain[r]
    BY <2>1, ChainAssumption
  <2>4. Up(p) = {p} \cup Up(r) /\ r # p
    BY <2>2, <2>3 DEF Up
  <2>5. Holder(p) = r
    BY <1>2 DEF Holder
  <2>6. \A q \in Unmerged : q \notin Up(r)
    <3> SUFFICES ASSUME NEW q \in Unmerged, q \in Up(r) PROVE FALSE
      OBVIOUS
    <3>1. q = r
      BY <2>2, UnmergedAssumption DEF Up
    <3>2. q \in Up(p)
      BY <2>4
    <3>3. q = p
      BY <3>2, UnmergedAssumption DEF Up
    <3> QED BY <3>1, <3>3, <2>4
  <2> HIDE DEF r
  <2> QED BY <1>1, <1>2, <2>2, <2>4, <2>5, <2>6
<1>3. CASE p \notin Unmerged
  <2>1. Holder(p) = p
    BY <1>3 DEF Holder
  <2>2. \A q \in Unmerged : q \notin Up(p)
    BY <1>3, UnmergedAssumption DEF Up
  <2> QED BY <1>1, <2>1, <2>2
<1> QED BY <1>2, <1>3

\* What is counted off for prims that go is at most what they stood for.
LEMMA CountOff ==
  ASSUME NEW C \in SUBSET Paths, NEW G \in SUBSET C, NEW N \in SUBSET Paths,
         NEW D \in SUBSET ((C \ G) \cup N),
         NEW r \in Nat, r >= Cardinality(C)
  PROVE  /\ Cardinality(N) \in Nat /\ Cardinality(G) \in Nat /\ Cardinality(D) \in Nat
         /\ r + Cardinality(N) - Cardinality(G) >= Cardinality(D)
<1>1. IsFiniteSet(C) /\ IsFiniteSet(G) /\ IsFiniteSet(N) /\ IsFiniteSet(D)
  <2>1. C \subseteq Paths /\ G \subseteq Paths /\ N \subseteq Paths /\ D \subseteq Paths
    OBVIOUS
  <2> QED BY <2>1, ChainAssumption, FS_Subset
<1>2. /\ Cardinality(C) \in Nat /\ Cardinality(G) \in Nat
      /\ Cardinality(N) \in Nat /\ Cardinality(D) \in Nat
  BY <1>1, FS_CardinalityType
<1>3. C \cap G = G
  OBVIOUS
<1>4. IsFiniteSet(C \ G) /\ Cardinality(C \ G) = Cardinality(C) - Cardinality(G)
  BY <1>1, <1>3, FS_Difference
<1>5. /\ IsFiniteSet((C \ G) \cup N) /\ Cardinality((C \ G) \cap N) \in Nat
      /\ Cardinality((C \ G) \cup N)
           = Cardinality(C \ G) + Cardinality(N) - Cardinality((C \ G) \cap N)
  BY <1>1, <1>4, FS_Union, FS_Intersection, FS_CardinalityType
<1>6. Cardinality(D) <= Cardinality((C \ G) \cup N)
  BY <1>5, FS_Subset
<1> QED BY <1>2, <1>4, <1>5, <1>6

-----------------------------------------------------------------------------
\* The operators of translatePrimsIntoMaya.
LEMMA CompositionFacts ==
  ASSUME NEW s \in Compositions
  PROVE  /\ s \in [Paths -> Types \cup {Plain, Absent}]
         /\ \A p \in Prims(s) : p \in Paths /\ s[p] \in Types \cup {Plain}
BY CompositionsAssumption DEF Prims

LEMMA CountedFacts ==
  ASSUME NEW rq \in [Paths -> Nat], NEW more \in SUBSET Paths, NEW less \in SUBSET Paths
  PROVE  /\ Counted(rq, more, less) \in [Paths -> Nat]
         /\ \A q \in Paths :
              Counted(rq, more, less)[q] >=
                rq[q] + Cardinality(On(more, q)) - Cardinality(Below(less, q))
<1>1. \A q \in Paths : /\ Cardinality(On(more, q)) \in Nat
                       /\ Cardinality(Below(less, q)) \in Nat
  <2> TAKE q \in Paths
  <2>1. On(more, q) \subseteq Paths /\ Below(less, q) \subseteq Paths
    BY DEF On, Below
  <2> QED BY <2>1, ChainAssumption, FS_Subset, FS_CardinalityType
<1>2. \A q \in Paths : Reasons(rq, more)[q] = rq[q] + Cardinality(On(more, q))
  BY DEF Reasons, On
<1>3. ASSUME NEW q \in Paths
      PROVE  /\ Counted(rq, more, less)[q] \in Nat
             /\ Counted(rq, more, less)[q] >=
                  rq[q] + Cardinality(On(more, q)) - Cardinality(Below(less, q))
  <2>1. Counted(rq, more, less)[q] =
          IF Cardinality(Below(less, q)) > Reasons(rq, more)[q] THEN 0
          ELSE Reasons(rq, more)[q] - Cardinality(Below(less, q))
    BY DEF Counted
  <2> DEFINE k == Cardinality(On(more, q))
             l == Cardinality(Below(less, q))
             c == Counted(rq, more, less)[q]
  <2>2. k \in Nat /\ l \in Nat /\ rq[q] \in Nat /\ Reasons(rq, more)[q] = rq[q] + k
    BY <1>1, <1>2
  <2>3. c = IF l > rq[q] + k THEN 0 ELSE rq[q] + k - l
    BY <2>1, <2>2
  <2> HIDE DEF k, l, c
  <2>4. c \in Nat /\ c >= rq[q] + k - l
    BY <2>2, <2>3
  <2> QED BY <2>4 DEF k, l, c
<1>4. Counted(rq, more, less) = [q \in Paths |-> Counted(rq, more, less)[q]]
  BY DEF Counted
<1> QED BY <1>3, <1>4

\* What the context has in the end.
Kept(es, s, gone)         == {p \in DOMAIN es \ gone : p \in Prims(s)}
Context(es, s, gone, new) == Retyped(Registered(Removed(es, gone), s, new), s)

LEMMA ContextFacts ==
  ASSUME NEW es, DOMAIN es \subseteq Paths, es \in [DOMAIN es -> EntryType],
         NEW s \in Compositions, NEW gone, NEW new \in SUBSET Prims(s)
  PROVE  /\ DOMAIN Context(es, s, gone, new) = Kept(es, s, gone) \cup new
         /\ Context(es, s, gone, new) \in [Kept(es, s, gone) \cup new -> EntryType]
         /\ \A p \in Kept(es, s, gone) \cup new :
              Context(es, s, gone, new)[p].chained <=>
                \/ p \in Kept(es, s, gone) /\ es[p].chained
                \/ p \in new /\ s[p] \in Parented
<1> DEFINE D     == DOMAIN es \ gone
           left  == Removed(es, gone)
           more  == Registered(left, s, new)
           kept  == {p \in D : p \in Prims(s)}
           context == Retyped(more, s)
<1>1. DOMAIN left = D /\ \A p \in D : left[p] = es[p] /\ es[p] \in EntryType
  BY DEF Removed
<1>2. \A p \in Prims(s) : p \in Paths /\ s[p] \in Types \cup {Plain}
  BY CompositionFacts
<1> HIDE DEF left
<1>3. DOMAIN more = D \cup new
  BY <1>1 DEF Registered
<1>4. \A p \in D \cup new :
        more[p] = IF p \in D
                  THEN [es[p] EXCEPT !.chained = @ \/ (p \in new /\ s[p] \in Parented)]
                  ELSE [type |-> s[p], chained |-> p \in new /\ s[p] \in Parented]
  BY <1>1 DEF Registered
<1>5. ASSUME NEW p \in D \cup new
      PROVE  /\ more[p] \in EntryType
             /\ more[p].chained <=> \/ p \in D /\ es[p].chained
                                    \/ p \in new /\ s[p] \in Parented
  <2>1. CASE p \in D
    <3>1. es[p] \in EntryType
      BY <1>1, <2>1
    <3>2. more[p] = [es[p] EXCEPT !.chained = @ \/ (p \in new /\ s[p] \in Parented)]
      BY <1>4, <2>1
    <3> QED BY <3>1, <3>2, <2>1 DEF EntryType
  <2>2. CASE p \notin D
    <3>1. p \in new /\ s[p] \in Types \cup {Plain}
      BY <2>2, <1>2
    <3>2. more[p] = [type |-> s[p], chained |-> p \in new /\ s[p] \in Parented]
      BY <1>4, <2>2
    <3> DEFINE b == p \in new /\ s[p] \in Parented
    <3>3. b \in BOOLEAN /\ (b <=> s[p] \in Parented)
      BY <3>1
    <3>4. more[p] = [type |-> s[p], chained |-> b]
      BY <3>2
    <3> HIDE DEF b
    <3>5. more[p] \in EntryType /\ more[p].chained = b
      BY <3>1, <3>3, <3>4 DEF EntryType
    <3> QED BY <3>1, <3>3, <3>5, <2>2
  <2> QED BY <2>1, <2>2
<1> HIDE DEF more
<1>6. DOMAIN context = kept \cup new
  BY <1>3 DEF Retyped
<1>7. \A p \in kept \cup new : context[p] = [more[p] EXCEPT !.type = s[p]]
  BY <1>3 DEF Retyped
<1>8. ASSUME NEW p \in kept \cup new
      PROVE  /\ context[p] \in EntryType
             /\ context[p].chained <=> \/ p \in kept /\ es[p].chained
                                       \/ p \in new /\ s[p] \in Parented
  <2>1. more[p] \in EntryType /\ s[p] \in Types \cup {Plain}
    BY <1>2, <1>5
  <2>2. context[p] = [more[p] EXCEPT !.type = s[p]]
    BY <1>7
  <2> HIDE DEF context
  <2>3. context[p] \in EntryType /\ context[p].chained = more[p].chained
    BY <2>1, <2>2 DEF EntryType
  <2>4. p \in D <=> p \in kept
    BY <1>2
  <2> QED BY <2>3, <2>4, <1>5
<1>9. context = [p \in kept \cup new |-> context[p]]
  BY <1>6 DEF Retyped
<1> QED BY <1>6, <1>8, <1>9 DEF left, more, Kept, Context

-----------------------------------------------------------------------------
\* The sets of prims that translatePrimsIntoMaya forms.
MoreOf(s, imports, removed) == NeedTransform(entries, s, imports, removed)
GoneOf(s, imports, removed) == TornDown(entries, s, imports, removed) \cap DOMAIN entries
NewOf(s, imports, force)    == Imported(s, NewPrims(entries, s, imports), force)

LEMMA PrimSets ==
  ASSUME ShapeType, NEW s \in Compositions, NEW imports \in SUBSET Prims(s),
         NEW removed, NEW force \in BOOLEAN
  PROVE  /\ MoreOf(s, imports, removed) \in SUBSET Paths
         /\ GoneOf(s, imports, removed) \in SUBSET DOMAIN entries
         /\ InChain(entries, GoneOf(s, imports, removed)) \in SUBSET Paths
         /\ NewOf(s, imports, force) \in SUBSET Prims(s)
         /\ \A p \in NewOf(s, imports, force) :
              /\ s[p] \in Types
              /\ s[p] \in Parented => p \in MoreOf(s, imports, removed)
<1>1. \A p \in imports : p \in Paths
  BY DEF Prims
<1>2. MoreOf(s, imports, removed) \in SUBSET Paths
  BY <1>1 DEF MoreOf, NeedTransform
<1>3. /\ GoneOf(s, imports, removed) \in SUBSET DOMAIN entries
      /\ InChain(entries, GoneOf(s, imports, removed)) \in SUBSET Paths
  BY DEF GoneOf, InChain, ShapeType
<1>4. \A p \in NewOf(s, imports, force) :
        p \in imports /\ ~KnownAs(entries, s, p) /\ s[p] \in Types
  BY TypesAssumption DEF NewOf, Imported, NewPrims
<1>5. \A p \in NewOf(s, imports, force) :
        s[p] \in Parented => p \in MoreOf(s, imports, removed)
  BY <1>4 DEF MoreOf, NeedTransform, Updatable
<1> QED BY <1>2, <1>3, <1>4, <1>5

\* Tearing down and importing keeps the transforms under the nodes of the context
\* and the nodes of its entries.
LEMMA TranslateKeepsShape ==
  ASSUME ShapeInv, NEW s \in Compositions, NEW imports \in SUBSET Prims(s),
         NEW removed, NEW force \in BOOLEAN, TranslatePrims(s, imports, removed, force)
  PROVE  ShapeInv'
<1> DEFINE more == MoreOf(s, imports, removed)
           gone == GoneOf(s, imports, removed)
           new  == NewOf(s, imports, force)
           kept == Kept(entries, s, gone)
           left == Unloaded(entries, made, gone, required')
<1>1. /\ required' = Counted(required, more, InChain(entries, gone))
      /\ entries' = Context(entries, s, gone, new)
      /\ made' = [p \in Paths |-> left[p] \cup (IF p \in new THEN {s[p]} ELSE {})]
  BY DEF TranslatePrims, MoreOf, GoneOf, NewOf, Context
<1>2. ShapeType /\ Covered /\ Grounded
  BY DEF ShapeInv
<1>3. /\ more \in SUBSET Paths /\ gone \in SUBSET DOMAIN entries
      /\ InChain(entries, gone) \in SUBSET Paths
      /\ new \in SUBSET Prims(s)
      /\ \A p \in new : s[p] \in Types /\ (s[p] \in Parented => p \in more)
  BY <1>2, PrimSets
<1>4. \A p \in Prims(s) : p \in Paths
  BY DEF Prims
<1> HIDE DEF more, gone, new, left
<1>5. /\ DOMAIN entries' = kept \cup new
      /\ entries' \in [kept \cup new -> EntryType]
      /\ \A p \in kept \cup new :
           entries'[p].chained <=> \/ p \in kept /\ entries[p].chained
                                   \/ p \in new /\ s[p] \in Parented
  BY <1>1, <1>2, <1>3, ContextFacts DEF ShapeType
<1>11. \A p \in kept : p \in DOMAIN entries /\ p \notin gone /\ p \in Paths
  BY <1>4 DEF Kept
<1> HIDE DEF kept
<1>6. /\ required' \in [Paths -> Nat]
      /\ \A q \in Paths :
           required'[q] >= required[q] + Cardinality(On(more, q))
                             - Cardinality(Below(InChain(entries, gone), q))
  BY <1>1, <1>2, <1>3, CountedFacts DEF ShapeType
<1>7. Covered'
  <2> SUFFICES ASSUME NEW q \in Paths
               PROVE  required'[q] >= Cardinality(StandingOn(entries', q))
    BY DEF Covered
  <2>1. CASE q \in Unmerged
    <3>1. StandingOn(entries', q) = {}
      BY <1>3, <1>4, <1>5, <1>11, <2>1, HolderFacts DEF StandingOn, On, ChainedIn
    <3>2. required'[q] \in Nat
      BY <1>6
    <3> QED BY <3>1, <3>2, FS_EmptySet
  <2>2. CASE q \notin Unmerged
    <3> DEFINE C == StandingOn(entries, q)
               G == On(InChain(entries, gone), q)
               N == On(more, q)
               D == StandingOn(entries', q)
    <3>1. C \in SUBSET Paths /\ G \in SUBSET C /\ N \in SUBSET Paths
      BY <1>2, <1>3 DEF StandingOn, On, ChainedIn, InChain, ShapeType
    <3>2. G = Below(InChain(entries, gone), q)
      BY <1>3, <2>2, HolderFacts DEF On, Below
    <3>3. D \in SUBSET ((C \ G) \cup N)
      <4> SUFFICES ASSUME NEW p \in D PROVE p \in (C \ G) \cup N
        OBVIOUS
      <4>1. /\ p \in kept \cup new /\ entries'[p].chained
            /\ q \in Up(Holder(p))
        BY <1>5 DEF StandingOn, On, ChainedIn
      <4>2. CASE p \in kept /\ entries[p].chained
        BY <1>11, <4>1, <4>2 DEF StandingOn, On, ChainedIn, InChain
      <4>3. CASE p \in new /\ s[p] \in Parented
        BY <1>3, <4>1, <4>3 DEF On
      <4> QED BY <1>5, <4>1, <4>2, <4>3
    <3>4. required[q] \in Nat /\ required[q] >= Cardinality(C)
      BY <1>2 DEF ShapeType, Covered
    <3>5. required'[q] >= required[q] + Cardinality(N) - Cardinality(G)
      BY <1>6, <3>2
    <3> HIDE DEF C, G, N, D
    <3>6. /\ Cardinality(N) \in Nat /\ Cardinality(G) \in Nat /\ Cardinality(D) \in Nat
          /\ required[q] + Cardinality(N) - Cardinality(G) >= Cardinality(D)
      BY <3>1, <3>3, <3>4, CountOff
    <3>7. required'[q] \in Nat
      BY <1>6
    <3>8. required'[q] >= Cardinality(D)
      BY <3>4, <3>5, <3>6, <3>7
    <3> QED BY <3>8 DEF D
  <2> QED BY <2>1, <2>2
<1>8. \A p \in Paths :
        left[p] = IF p \in gone /\ entries[p].type \in Types THEN {}
                  ELSE IF required'[Holder(p)] = 0 THEN made[p] \ Parented ELSE made[p]
  BY DEF left, Unloaded
<1>9. ShapeType'
  <2>1. DOMAIN entries' \subseteq Paths /\ entries' \in [DOMAIN entries' -> EntryType]
    BY <1>2, <1>3, <1>4, <1>5, <1>11 DEF ShapeType
  <2>2. \A p \in Paths : left[p] \subseteq Types
    BY <1>2, <1>8 DEF ShapeType
  <2>3. made' \in [Paths -> SUBSET Types]
    BY <1>1, <1>3, <2>2
  <2> QED BY <1>6, <2>1, <2>3 DEF ShapeType
<1>10. Grounded'
  <2> SUFFICES ASSUME NEW p \in DOMAIN entries'
               PROVE  made'[p] # {} /\ (entries'[p].chained \/ made'[p] \ Parented # {})
    BY DEF Grounded
  <2>1. p \in kept \cup new /\ p \in Paths
    BY <1>3, <1>4, <1>5, <1>11
  <2>2. CASE p \in new
    <3>1. s[p] \in made'[p]
      BY <1>1, <2>1, <2>2
    <3>2. s[p] \notin Parented \/ entries'[p].chained
      BY <1>5, <2>2
    <3> QED BY <3>1, <3>2
  <2>3. CASE p \in kept /\ p \notin new
    <3>1. p \in DOMAIN entries /\ p \notin gone /\ made'[p] = left[p]
      BY <1>1, <1>11, <2>1, <2>3
    <3>2. left[p] = IF required'[Holder(p)] = 0 THEN made[p] \ Parented ELSE made[p]
      BY <1>8, <2>1, <3>1
    <3>3. made[p] # {} /\ (entries[p].chained \/ made[p] \ Parented # {})
      BY <1>2, <3>1 DEF Grounded
    <3>4. entries[p].chained => entries'[p].chained
      BY <1>5, <2>3
    <3>5. CASE entries[p].chained
      <4>1. Holder(p) \in Paths /\ p \in StandingOn(entries', Holder(p))
        BY <2>1, <3>4, <3>5, HolderFacts DEF StandingOn, On, ChainedIn
      <4> DEFINE D == StandingOn(entries', Holder(p))
      <4>2. D \subseteq Paths
        BY <1>9 DEF StandingOn, On, ChainedIn, ShapeType
      <4>3. required'[Holder(p)] >= Cardinality(D) /\ required'[Holder(p)] \in Nat
        BY <1>6, <1>7, <4>1 DEF Covered
      <4>4. D # {}
        BY <4>1
      <4> HIDE DEF D
      <4>5. Cardinality(D) \in Nat /\ Cardinality(D) # 0
        BY <4>2, <4>4, ChainAssumption, FS_Subset, FS_EmptySet, FS_CardinalityType
      <4>6. required'[Holder(p)] # 0
        BY <4>3, <4>5
      <4> QED BY <3>1, <3>2, <3>3, <3>4, <3>5, <4>6
    <3>6. CASE ~entries[p].chained
      BY <3>1, <3>2, <3>3, <3>6
    <3> QED BY <3>5, <3>6
  <2> QED BY <2>1, <2>2, <2>3
<1> QED BY <1>7, <1>9, <1>10 DEF ShapeInv

-----------------------------------------------------------------------------
\* The shape when its stage has been loaded.
LEMMA InitEstablishes == Init => TranslationInv
<1> SUFFICES ASSUME Init PROVE TranslationInv
  OBVIOUS
<1> DEFINE first == {p \in Paths : stage[p] \in Automatic}
           on    == {p \in first : stage[p] \in Parented}
           none  == [p \in Paths |-> 0]
<1>1. /\ stage \in Compositions
      /\ required = Counted(none, on, {})
      /\ entries = Registered(<< >>, stage, first)
      /\ made = [p \in Paths |-> IF p \in first THEN {stage[p]} ELSE {}]
      /\ changed = NoPath /\ switched = {}
  BY DEF Init
<1>2. \A p \in first : p \in Paths /\ stage[p] \in Types
  BY TypesAssumption
<1>3. DOMAIN entries = first
  BY <1>1 DEF Registered
<1>4. entries = [p \in first |-> [type |-> stage[p], chained |-> p \in first /\ stage[p] \in Parented]]
  BY <1>1 DEF Registered
<1>5. ASSUME NEW p \in first
      PROVE  entries[p] \in EntryType /\ (entries[p].chained <=> stage[p] \in Parented)
  <2> DEFINE b == p \in first /\ stage[p] \in Parented
  <2>1. entries[p] = [type |-> stage[p], chained |-> b]
    BY <1>4
  <2>2. b \in BOOLEAN /\ (b <=> stage[p] \in Parented) /\ stage[p] \in Types
    BY <1>2
  <2> HIDE DEF b, first
  <2>3. entries[p] \in EntryType /\ entries[p].chained = b
    BY <2>1, <2>2 DEF EntryType
  <2> QED BY <2>2, <2>3
<1>6. none \in [Paths -> Nat] /\ on \in SUBSET Paths
  OBVIOUS
<1> HIDE DEF first
<1>7. /\ required \in [Paths -> Nat]
      /\ \A q \in Paths :
           required[q] >= none[q] + Cardinality(On(on, q)) - Cardinality(Below({}, q))
  BY <1>1, <1>6, CountedFacts
<1>8. ShapeType
  <2>1. entries \in [first -> EntryType]
    <3>1. entries = [p \in first |-> entries[p]]
      BY <1>4
    <3> QED BY <1>5, <3>1
  <2>2. made \in [Paths -> SUBSET Types]
    BY <1>1, <1>2
  <2> QED BY <1>2, <1>3, <1>7, <2>1, <2>2 DEF ShapeType
<1>9. Covered
  <2> SUFFICES ASSUME NEW q \in Paths
               PROVE  required[q] >= Cardinality(StandingOn(entries, q))
    BY DEF Covered
  <2>1. StandingOn(entries, q) = On(on, q)
    BY <1>3, <1>5 DEF StandingOn, ChainedIn, On
  <2>2. none[q] = 0 /\ Below({}, q) = {}
    BY DEF Below
  <2>3. On(on, q) \subseteq Paths
    BY <1>6 DEF On
  <2> HIDE DEF on, none
  <2>4. Cardinality(On(on, q)) \in Nat
    BY <2>3, ChainAssumption, FS_Subset, FS_CardinalityType
  <2>5. Cardinality(Below({}, q)) = 0
    BY <2>2, FS_EmptySet
  <2>6. required[q] >= Cardinality(On(on, q))
    BY <1>7, <2>2, <2>4, <2>5
  <2> QED BY <2>1, <2>6
<1>10. Grounded
  <2> SUFFICES ASSUME NEW p \in first
               PROVE  made[p] # {} /\ (entries[p].chained \/ made[p] \ Parented # {})
    BY <1>3 DEF Grounded
  <2>1. made[p] = {stage[p]}
    BY <1>1, <1>2
  <2> QED BY <1>5, <2>1
<1> QED BY <1>1, <1>8, <1>9, <1>10 DEF ShapeInv, TranslationInv

\* What the shape does after any change of its stage.
LEMMA ObjectsChangedKeeps ==
  ASSUME TranslationInv, NEW s \in Compositions, NEW path, NEW noted,
         ObjectsChanged(s, path, noted)
  PROVE  ShapeInv' /\ changed' \in Paths \cup {NoPath} /\ switched' \subseteq Paths
<1>1. changed' \in Paths \cup {NoPath} /\ switched' \subseteq Paths
  BY DEF ObjectsChanged
<1>2. ShapeInv
  BY DEF TranslationInv
<1>3. UNCHANGED shape \/ TranslatePrims(s, Hunted(s, path), noted, FALSE)
  BY DEF ObjectsChanged, Resync
<1>4. CASE UNCHANGED shape
  BY <1>1, <1>2, <1>4 DEF shape, ShapeInv, ShapeType, Covered, Grounded, StandingOn, ChainedIn
<1>5. CASE TranslatePrims(s, Hunted(s, path), noted, FALSE)
  <2>1. Hunted(s, path) \in SUBSET Prims(s)
    BY DEF Hunted, Below
  <2> QED BY <1>1, <1>2, <1>5, <2>1, TranslateKeepsShape
<1> QED BY <1>1, <1>3, <1>4, <1>5

LEMMA NotedFacts ==
  ASSUME TranslationInv, NEW P \in SUBSET Paths, NEW first \in Paths
  PROVE  ChangedWith(first) \in Paths \cup {NoPath} /\ SwitchedWith(P) \subseteq Paths
BY DEF TranslationInv, ShapeInv, ShapeType, ChangedWith, SwitchedWith, Below

LEMMA StepKeeps ==
  ASSUME TranslationInv, [Next]_vars
  PROVE  TranslationInv'
<1>1. CASE UNCHANGED vars
  BY <1>1 DEF vars, shape, TranslationInv, ShapeInv, ShapeType, Covered, Grounded,
              StandingOn, ChainedIn
<1>2. ASSUME NEW s \in Compositions, NEW P \in SUBSET Paths, NEW first \in Paths,
             Switch(P, first, s)
      PROVE  TranslationInv'
  <2>1. stage' = s /\ ObjectsChanged(s, ChangedWith(first), SwitchedWith(P))
    BY <1>2 DEF Switch
  <2> QED BY <2>1, ObjectsChangedKeeps DEF TranslationInv
<1>3. ASSUME NEW s \in Compositions, Edit(s) PROVE TranslationInv'
  <2>1. stage' = s /\ ObjectsChanged(s, changed, switched)
    BY <1>3 DEF Edit
  <2> QED BY <2>1, ObjectsChangedKeeps DEF TranslationInv
<1>4. ASSUME NEW s \in Compositions, ChangeUnheard(s) PROVE TranslationInv'
  BY <1>4 DEF ChangeUnheard, shape, TranslationInv, ShapeInv, ShapeType, Covered, Grounded,
              StandingOn, ChainedIn
<1>5. ASSUME NEW P \in SUBSET Paths, NEW first \in Paths, SwitchElsewhere(P, first)
      PROVE  TranslationInv'
  <2>1. /\ changed' = ChangedWith(first) /\ switched' = SwitchedWith(P)
        /\ UNCHANGED <<stage, shape>>
    BY <1>5 DEF SwitchElsewhere
  <2>2. changed' \in Paths \cup {NoPath} /\ switched' \subseteq Paths
    BY <2>1, NotedFacts
  <2> QED BY <2>1, <2>2 DEF shape, TranslationInv, ShapeInv, ShapeType, Covered, Grounded,
                            StandingOn, ChainedIn
<1>6. ASSUME NEW p \in Paths, PrimChangedAtPath(p) PROVE TranslationInv'
  <2>1. /\ changed' = p /\ switched' = SwitchedWith({p})
        /\ UNCHANGED <<stage, shape>>
    BY <1>6 DEF PrimChangedAtPath
  <2>2. changed' \in Paths \cup {NoPath} /\ switched' \subseteq Paths
    BY <2>1, NotedFacts
  <2> QED BY <2>1, <2>2 DEF shape, TranslationInv, ShapeInv, ShapeType, Covered, Grounded,
                            StandingOn, ChainedIn
<1>7. ASSUME NEW imports \in SUBSET Paths, NEW teardowns \in SUBSET Paths,
             NEW force \in BOOLEAN, TranslatePrim(imports, teardowns, force)
      PROVE  TranslationInv'
  <2>1. /\ TranslatePrims(stage, imports \cap Prims(stage), teardowns, force)
        /\ UNCHANGED <<stage, changed, switched>>
    BY <1>7 DEF TranslatePrim
  <2>2. ShapeInv'
    BY <2>1, TranslateKeepsShape DEF TranslationInv
  <2> QED BY <2>1, <2>2 DEF TranslationInv
<1> QED BY <1>1, <1>2, <1>3, <1>4, <1>5, <1>6, <1>7 DEF Next

\* The inductive invariant of translatePrimsIntoMaya and of the notices.
THEOREM TranslationInvariance == Spec => []TranslationInv
<1>1. TranslationInv /\ [Next]_vars => TranslationInv'
  BY StepKeeps
<1> QED BY <1>1, InitEstablishes, PTL DEF Spec

\* Every reachable state of the shape's translation is well typed.
THEOREM TranslationTypes == Spec => []TranslationTypeOK
<1>1. TranslationInv => TranslationTypeOK
  BY DEF TranslationInv, ShapeInv, ShapeType, TranslationTypeOK, EntryType
<1> QED BY <1>1, TranslationInvariance, PTL

\* A transform has a reason for each translated node that stands on it, so that
\* makeTransformReference and removeUsdTransformChain never delete one from under
\* a node, in whatever order prims are switched, edited and translated.
THEOREM TransformsOutlastNodes == Spec => []RequiredCovers
<1>1. TranslationInv => RequiredCovers
  <2>1. \A q \in Paths :
          {p \in DOMAIN entries : entries[p].chained /\ q \in Up(Holder(p))} = StandingOn(entries, q)
    BY DEF StandingOn, ChainedIn, On
  <2> QED BY <2>1 DEF TranslationInv, ShapeInv, Covered, RequiredCovers
<1> QED BY <1>1, TranslationInvariance, PTL

\* The context has no entry without a node.
THEOREM EntriesKeepNodes == Spec => []EntriesHaveNodes
<1>1. TranslationInv => EntriesHaveNodes
  BY DEF TranslationInv, ShapeInv, Grounded, EntriesHaveNodes
<1> QED BY <1>1, TranslationInvariance, PTL

-----------------------------------------------------------------------------
\* After the prims below a path are hunted, imported and torn down with all that
\* the context has there, a prim the context was right about has its node just if
\* it is imported by default.  (What is updated keeps the node it had, for its
\* transform has a reason: that part is the invariant.)
LEMMA HuntResyncs ==
  ASSUME ShapeInv, ShapeInv', NEW s \in Compositions, NEW path \in Paths, NEW noted,
         Below(DOMAIN entries, path) \subseteq noted,
         TranslatePrims(s, Hunted(s, path), noted, FALSE),
         NEW q \in Below(Paths, path), Steady(q),
         ~(KnownAs(entries, s, q) /\ s[q] \in Automatic /\ s[q] \notin Updating)
  PROVE  /\ q \in DOMAIN entries' <=> s[q] \in Automatic
         /\ made'[q] = IF s[q] \in Automatic THEN {s[q]} ELSE {}
<1> DEFINE hunted == Hunted(s, path)
           gone == GoneOf(s, hunted, noted)
           new  == NewOf(s, hunted, FALSE)
           kept == Kept(entries, s, gone)
           left == Unloaded(entries, made, gone, required')
<1>1. /\ entries' = Context(entries, s, gone, new)
      /\ made' = [p \in Paths |-> left[p] \cup (IF p \in new THEN {s[p]} ELSE {})]
  BY DEF TranslatePrims, GoneOf, NewOf, Context
<1>2. ShapeType /\ Grounded'
  BY DEF ShapeInv
<1>3. hunted \in SUBSET Prims(s)
  BY DEF Hunted, Below
<1>4. q \in Paths /\ (q \in DOMAIN entries => q \in noted)
  BY DEF Below
<1>5. q \in hunted <=> s[q] \in Automatic
  BY CompositionFacts, TypesAssumption DEF Hunted, Below, Prims
<1> HIDE DEF hunted
<1>6. gone \in SUBSET DOMAIN entries /\ new \in SUBSET Prims(s)
  BY <1>2, <1>3, PrimSets
<1>7. q \in gone <=> q \in DOMAIN entries
                     /\ ~(s[q] \in Automatic /\ KnownAs(entries, s, q) /\ s[q] \in Updating)
  BY <1>4, <1>5 DEF GoneOf, TornDown, Updatable
<1>8. q \in new <=> s[q] \in Automatic /\ ~KnownAs(entries, s, q)
  BY <1>5 DEF NewOf, Imported, NewPrims
<1> HIDE DEF gone, new, left
<1>9. DOMAIN entries' = kept \cup new
  BY <1>1, <1>2, <1>6, ContextFacts DEF ShapeType
<1>10. q \in kept <=> q \in DOMAIN entries /\ q \notin gone /\ s[q] # Absent
  BY <1>4 DEF Kept, Prims
<1> HIDE DEF kept
<1>11. left[q] = IF q \in gone /\ entries[q].type \in Types THEN {}
                 ELSE IF required'[Holder(q)] = 0 THEN made[q] \ Parented ELSE made[q]
  BY <1>4 DEF left, Unloaded
<1>12. made'[q] = left[q] \cup (IF q \in new THEN {s[q]} ELSE {})
  BY <1>1, <1>4
<1>13. s[q] \in Automatic => s[q] # Absent
  BY TypesAssumption
<1>14. CASE q \notin DOMAIN entries
  <2>1. made[q] = {} /\ q \notin gone /\ q \notin kept
    BY <1>7, <1>10, <1>14 DEF Steady
  <2>2. left[q] = {} /\ (q \in new <=> s[q] \in Automatic)
    BY <1>8, <1>11, <1>14, <2>1 DEF KnownAs
  <2> QED BY <1>9, <1>12, <2>1, <2>2
<1>15. CASE q \in gone
  <2>1. q \in DOMAIN entries /\ made[q] = {entries[q].type} /\ q \notin kept
    BY <1>6, <1>10, <1>15 DEF Steady
  <2>2. entries[q].type \in Types
    BY <1>2, <1>4, <2>1 DEF ShapeType
  <2>3. left[q] = {}
    BY <1>11, <1>15, <2>2
  <2>4. q \in new <=> s[q] \in Automatic
    BY <1>7, <1>8, <1>15
  <2> QED BY <1>9, <1>12, <2>1, <2>3, <2>4
<1>16. CASE q \in DOMAIN entries /\ q \notin gone
  <2>1. s[q] \in Automatic /\ KnownAs(entries, s, q)
    BY <1>7, <1>16
  <2>2. q \in DOMAIN entries' /\ made[q] = {s[q]}
    BY <1>9, <1>10, <1>13, <1>16, <2>1 DEF Steady, KnownAs
  <2>3. made'[q] # {}
    BY <1>2, <2>2 DEF Grounded
  <2>4. made'[q] \subseteq made[q]
    BY <1>8, <1>11, <1>12, <1>16, <2>1
  <2> QED BY <2>1, <2>2, <2>3, <2>4
<1> QED BY <1>6, <1>14, <1>15, <1>16

\* After a switch below a prim, what the context was right about has the nodes
\* that the stage asks for, whatever came before: variantSelectionListener,
\* onPrimResync and translatePrimsIntoMaya leave no node of a prim that is gone
\* or has another type, and take none from a prim that is updated.
THEOREM SwitchResyncs == Spec => Resynced
<1>1. ASSUME TranslationInv, TranslationInv', NEW p \in Paths, AloneSwitched(p),
             NEW q \in Below(Paths, p),
             Steady(q), ~(Unchanged(q) /\ stage'[q] \notin Updating)
      PROVE  /\ q \in DOMAIN entries' <=> stage'[q] \in Automatic
             /\ made'[q] = IF stage'[q] \in Automatic THEN {stage'[q]} ELSE {}
  <2>1. /\ changed = NoPath /\ stage'[p] # Absent
        /\ ObjectsChanged(stage', ChangedWith(p), SwitchedWith({p}))
    BY <1>1 DEF AloneSwitched, Switch
  <2>2. ChangedWith(p) = p /\ p # NoPath
    BY <2>1, TypesAssumption DEF ChangedWith
  <2>3. TranslatePrims(stage', Hunted(stage', p), SwitchedWith({p}), FALSE)
    BY <2>1, <2>2 DEF ObjectsChanged, Resync
  <2>4. Below(DOMAIN entries, p) \subseteq SwitchedWith({p})
    BY DEF SwitchedWith
  <2>5. ShapeInv /\ ShapeInv' /\ stage' \in Compositions
    BY <1>1 DEF TranslationInv
  <2>6. ~(KnownAs(entries, stage', q) /\ stage'[q] \in Automatic /\ stage'[q] \notin Updating)
    BY <1>1 DEF Unchanged
  <2> QED BY <1>1, <2>3, <2>4, <2>5, <2>6, HuntResyncs
<1> DEFINE Step == \A p \in Paths : AloneSwitched(p) =>
       \A q \in Below(Paths, p) :
         Steady(q) /\ ~(Unchanged(q) /\ stage'[q] \notin Updating) =>
           /\ q \in DOMAIN entries' <=> stage'[q] \in Automatic
           /\ made'[q] = IF stage'[q] \in Automatic THEN {stage'[q]} ELSE {}
<1>2. TranslationInv /\ TranslationInv' => Step
  BY <1>1
<1> HIDE DEF Step
<1>3. [][Step]_vars <=> Resynced
  BY DEF Step, Resynced
<1>4. TranslationInv /\ TranslationInv' /\ [Next]_vars => [Step]_vars
  BY <1>2
<1> QED BY <1>3, <1>4, TranslationInvariance, PTL DEF Spec

=============================================================================
