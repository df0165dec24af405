------------------------ MODULE TransformRefs_proof ------------------------
(***************************************************************************)
(* While variants are not switched under selections that can be undone,    *)
(* and as long as every command was sound, the counts of m_requiredPaths   *)
(* are those of the selected and required prims, and the transforms in     *)
(* Maya are those the map names: for any prims and chains, any requests    *)
(* and any length of the undo queue.                                       *)
(*                                                                         *)
(* The map is a function of the transforms in Maya, the selected and the   *)
(* required prims (RefsOf).  The invariant says that it has that value,    *)
(* and that each command in the undo queue leads from the transforms and   *)
(* prims it found to those it left (Leads), in the order of the queue.     *)
(***************************************************************************)
EXTENDS TransformRefs, SequenceLemmas, FiniteSetTheorems, TLAPS

\* One transform for each path of D, and no other.
Unique(live, D) ==
  /\ live \subseteq Nodes
  /\ \A n \in live : n.path \in D
  /\ \A q \in D : \E n \in live : n.path = q /\ \A m \in live : m.path = q => m = n

At(live, q) == CHOOSE n \in live : n.path = q

NodesOf(S, live) == [p \in S |-> At(live, p)]

Same(l0, l1, D) == \A q \in D : At(l0, q) = At(l1, q)

RefsOf(live, sel, req) ==
  [q \in UpAll(sel \cup req) |->
     [node |-> At(live, q), required |-> Cardinality(Below(req, q)),
      selected |-> Cardinality(Below(sel, q))]]

\* A map with an entry for each path of D, whose counts are those of s and req.
Counted(rs, D, s, req) ==
  rs = [q \in D |->
          [node |-> rs[q].node, required |-> Cardinality(Below(req, q)),
           selected |-> Cardinality(Below(s, q))]]

\* The map names the transforms of the paths of D.
Named(rs, live, D) == \A q \in D : rs[q].node = At(live, q)

\* What doIt finds: a map for the prims s0 that has what is to be selected, s1, too,
\* and names the transforms there will be, l1.
Swaps(rs, D, s0, s1, req, l1) ==
  /\ s0 \subseteq Prims /\ s1 \subseteq Prims /\ req \subseteq Prims
  /\ UpAll(s0 \cup req) \subseteq D /\ D \subseteq UpAll(s0 \cup s1 \cup req)
  /\ Counted(rs, D, s0, req) /\ Unique(l1, UpAll(s1 \cup req))
  /\ Named(rs, l1, D \cap UpAll(s1 \cup req))

Helpers ==
  [before : SUBSET Paths, after : SUBSET Paths,
   inserted : UNION {[S -> Nodes] : S \in SUBSET Paths},
   removed : UNION {[S -> Nodes] : S \in SUBSET Paths},
   created : SUBSET Nodes, killed : SUBSET Nodes]

\* A command that leads from transforms l0 and the selection s0 to l1 and s1.
Leads(h, l0, l1, s0, s1, req) ==
  LET h0 == s0 \cap Prims
      h1 == s1 \cap Prims
  IN  /\ h.before = s0 /\ h.after = s1
      /\ Unique(l0, UpAll(h0 \cup req)) /\ Unique(l1, UpAll(h1 \cup req))
      /\ Same(l0, l1, UpAll(h0 \cup req) \cap UpAll(h1 \cup req))
      /\ h.inserted = NodesOf(h1 \ h0, l1) /\ h.removed = NodesOf(h0 \ h1, l0)
      /\ h.created = l1 \ l0 /\ h.killed = l0 \ l1

\* The undo queue from its oldest to its newest command: those that can be undone,
\* then those that can be redone, of which undone has the oldest last.
Hist(d, u, live, sel, req) ==
  LET n == Len(d) + Len(u)
  IN  \E L \in [0..n -> SUBSET Nodes], S \in [0..n -> SUBSET Paths] :
        /\ L[Len(d)] = live /\ S[Len(d)] = sel
        /\ \A i \in 1..Len(d) : Leads(d[i], L[i-1], L[i], S[i-1], S[i], req)
        /\ \A j \in 1..Len(u) :
             Leads(u[j], L[n-j], L[n+1-j], S[n-j], S[n+1-j], req)

History == Hist(done, undone, alive, selected, needed)

StateInv ==
  /\ selected \subseteq Paths /\ needed \subseteq Schema
  /\ Unique(alive, UpAll(Here \cup needed))
  /\ refs = RefsOf(alive, Here, needed)
  /\ done \in Seq(Helpers) /\ undone \in Seq(Helpers)

RefsInv == sound \in BOOLEAN /\ (sound => StateInv /\ History)

-----------------------------------------------------------------------------
LEMMA UpFacts ==
  /\ \A p \in Paths : p \in Up(p) /\ Up(p) \subseteq Paths
  /\ \A p \in Paths : \A q \in Up(p) : Up(q) \subseteq Up(p)
  /\ \A p \in Prims : Up(p) \subseteq Prims
  /\ Prims \subseteq Paths /\ Schema \subseteq Prims
<1>1. \A p \in Paths : Chain[p] \in Seq(Paths) /\ Chain[p] # << >> /\ Chain[p][1] = p
  BY ChainAssumption
<1>2. \A p \in Paths : Range(Chain[p]) \subseteq Paths /\ 1 \in DOMAIN Chain[p]
  BY <1>1 DEF Range
<1>3. \A p \in Paths : p \in Range(Chain[p])
  BY <1>1, <1>2 DEF Range
<1> QED BY <1>2, <1>3, ChainAssumption, PathsAssumption DEF Up

LEMMA UpAllFacts ==
  ASSUME NEW S \in SUBSET Paths
  PROVE  /\ UpAll(S) \subseteq Paths /\ S \subseteq UpAll(S)
         /\ \A q : q \in UpAll(S) <=> Below(S, q) # {}
         /\ \A q \in UpAll(S) : Up(q) \subseteq UpAll(S)
BY UpFacts DEF UpAll, Below

LEMMA BelowFacts ==
  ASSUME NEW S \in SUBSET Paths, NEW q
  PROVE  /\ IsFiniteSet(Below(S, q)) /\ Cardinality(Below(S, q)) \in Nat
         /\ Cardinality(Below(S, q)) = 0 <=> Below(S, q) = {}
<1>1. IsFiniteSet(Below(S, q))
  <2>1. Below(S, q) \in SUBSET Paths
    BY DEF Below
  <2> QED BY <2>1, FS_Subset, PathsAssumption
<1> QED BY <1>1, FS_CardinalityType, FS_EmptySet

\* Counting sets of prims that have none in common.
LEMMA BelowUnion ==
  ASSUME NEW S \in SUBSET Paths, NEW T \in SUBSET Paths, S \cap T = {}, NEW q
  PROVE  Cardinality(Below(S \cup T, q)) = Cardinality(Below(S, q)) + Cardinality(Below(T, q))
<1>1. Below(S \cup T, q) = Below(S, q) \cup Below(T, q) /\ Below(S, q) \cap Below(T, q) = {}
  BY DEF Below
<1>2. Cardinality(Below(S, q) \cup Below(T, q))
        = Cardinality(Below(S, q)) + Cardinality(Below(T, q)) - Cardinality({})
  BY <1>1, BelowFacts, FS_Union
<1>3. Cardinality({}) = 0
  BY FS_EmptySet
<1>4. Cardinality(Below(S, q)) \in Nat /\ Cardinality(Below(T, q)) \in Nat
  BY BelowFacts
<1>5. Cardinality(Below(S \cup T, q)) = Cardinality(Below(S, q) \cup Below(T, q))
  BY <1>1, Zenon
<1> QED BY <1>2, <1>3, <1>4, <1>5

LEMMA BelowMinus ==
  ASSUME NEW S \in SUBSET Paths, NEW R \in SUBSET S, NEW q
  PROVE  Cardinality(Below(S \ R, q)) = Cardinality(Below(S, q)) - Cardinality(Below(R, q))
<1>1. S = (S \ R) \cup R /\ (S \ R) \cap R = {} /\ S \ R \in SUBSET Paths /\ R \in SUBSET Paths
  OBVIOUS
<1>2. Cardinality(Below(S, q)) = Cardinality(Below(S \ R, q)) + Cardinality(Below(R, q))
  BY <1>1, BelowUnion
<1> QED BY <1>1, <1>2, BelowFacts

\* The transform of a path.
LEMMA AtFacts ==
  ASSUME NEW live, NEW D, Unique(live, D), NEW q \in D
  PROVE  /\ At(live, q) \in live /\ At(live, q) \in Nodes /\ At(live, q).path = q
         /\ \A m \in live : m.path = q => m = At(live, q)
BY DEF Unique, At

LEMMA LiveAt ==
  ASSUME NEW live, NEW D, Unique(live, D)
  PROVE  live = {At(live, q) : q \in D}
<1>1. \A q \in D : At(live, q) \in live
  BY AtFacts
<1>2. \A n \in live : n.path \in D /\ n = At(live, n.path)
  BY AtFacts DEF Unique
<1> QED BY <1>1, <1>2

-----------------------------------------------------------------------------
(***************************************************************************)
(* Insertion and removal of references.                                    *)
(***************************************************************************)
\* The node insertTransformRefs finds up the DAG path of another is that of the path.
LEMMA AboveIsAt ==
  ASSUME NEW live, NEW D, Unique(live, D), NEW p \in D, NEW q \in Up(p) \cap D, p \in Paths,
         NEW i, i = CHOOSE k \in 1..Len(Chain[p]) : Chain[p][k] = q
  PROVE  NodeAbove(At(live, p), i, live) = At(live, q)
<1>1. /\ Chain[p] \in Seq(Paths) /\ Chain[p] # << >> /\ Chain[p][1] = p
  BY ChainAssumption
<1>2. \E k \in 1..Len(Chain[p]) : Chain[p][k] = q
  BY <1>1 DEF Up, Range
<1>3. i \in 1..Len(Chain[p]) /\ Chain[p][i] = q
  BY <1>2
<1>4. At(live, p).path = p /\ At(live, p) # Other
  BY AtFacts, OtherAssumption
<1>5. CASE i = 1
  BY <1>1, <1>3, <1>5 DEF NodeAbove
<1>6. CASE i # 1
  <2>1. Len(Chain[p]) \in Nat /\ ~(i > Len(Chain[p]))
    BY <1>1, <1>3
  <2>2. NodeAbove(At(live, p), i, live) = CHOOSE m \in live : m.path = Chain[p][i]
    BY <1>4, <1>6, <2>1 DEF NodeAbove
  <2> QED BY <1>3, <2>2 DEF At
<1> QED BY <1>5, <1>6

LEMMA InsertRefsGives ==
  ASSUME NEW rs, NEW D, NEW s0, NEW s1, NEW req, NEW live, Swaps(rs, D, s0, s1, req, live)
  PROVE  LET mid == InsertRefs(rs, NodesOf(s1 \ s0, live), live)
         IN  /\ Counted(mid, UpAll(s0 \cup s1 \cup req), s0 \cup s1, req)
             /\ Named(mid, live, UpAll(s1 \cup req))
<1> DEFINE I == s1 \ s0
           E == UpAll(s1 \cup req)
           ins == NodesOf(I, live)
<1>a. /\ s0 \in SUBSET Paths /\ s1 \in SUBSET Paths /\ req \in SUBSET Paths
      /\ I \in SUBSET Paths /\ s0 \cap I = {} /\ s0 \cup I = s0 \cup s1
      /\ s0 \cup s1 \cup req \in SUBSET Paths
  BY UpFacts DEF Swaps
<1>b. /\ D \in SUBSET Paths /\ Counted(rs, D, s0, req) /\ Unique(live, E)
      /\ UpAll(s0 \cup req) \subseteq D /\ D \subseteq UpAll(s0 \cup s1 \cup req)
  BY <1>a, UpAllFacts DEF Swaps
<1>c. UpAll(s0) \subseteq D /\ UpAll(req) \subseteq D
  BY <1>b DEF UpAll
<1>d. UpAll(I) \subseteq E /\ D \cup UpAll(I) = UpAll(s0 \cup s1 \cup req)
  BY <1>b DEF UpAll
<1> HIDE DEF I, E
<1> DEFINE valid == {p \in DOMAIN ins : ins[p] \in live \cup {Other}}
           Pick(q) == CHOOSE p \in valid : q \in Up(p)
           Place(q) == CHOOSE k \in 1..Len(Chain[Pick(q)]) : Chain[Pick(q)][k] = q
           Node(q) == NodeAbove(ins[Pick(q)], Place(q), live)
<1>1. DOMAIN ins = I /\ I \subseteq E /\ \A p \in I : ins[p] = At(live, p)
  BY <1>a, <1>d, UpAllFacts DEF NodesOf
<1>0. DOMAIN rs = D
  BY <1>b DEF Counted
<1>2. valid = I
  BY <1>1, <1>b, AtFacts
<1>3. InsertRefs(rs, ins, live) =
        [q \in D \cup UpAll(valid) |->
           IF q \in D
           THEN [rs[q] EXCEPT !.selected = @ + Cardinality(Below(I, q))]
           ELSE [node |-> Node(q), required |-> 0, selected |-> Cardinality(Below(valid, q))]]
  BY <1>0, <1>1, Zenon DEF InsertRefs
<1>4. ASSUME NEW q \in UpAll(I) PROVE Node(q) = At(live, q)
  <2>1. \E p \in I : q \in Up(p)
    BY <1>4 DEF UpAll
  <2>2. Pick(q) \in I /\ q \in Up(Pick(q))
    BY <1>2, <2>1
  <2> DEFINE p == Pick(q)
             i == Place(q)
  <2>3. i = CHOOSE k \in 1..Len(Chain[p]) : Chain[p][k] = q
    OBVIOUS
  <2> HIDE DEF p, i
  <2>4. p \in I /\ q \in Up(p) \cap E /\ p \in E /\ p \in Paths
    BY <2>2, <1>1, <1>a, <1>d DEF p
  <2>5. NodeAbove(At(live, p), i, live) = At(live, q)
    BY <2>3, <2>4, <1>b, AboveIsAt
  <2>6. ins[p] = At(live, p)
    BY <1>1, <2>4
  <2> QED BY <2>5, <2>6 DEF p, i
<1>5. ASSUME NEW q PROVE /\ Cardinality(Below(s0 \cup I, q))
                             = Cardinality(Below(s0, q)) + Cardinality(Below(I, q))
                         /\ q \notin D => Below(s0 \cup I, q) = Below(I, q)
  <2>1. Cardinality(Below(s0 \cup I, q)) = Cardinality(Below(s0, q)) + Cardinality(Below(I, q))
    BY <1>a, BelowUnion
  <2>2. ASSUME q \notin D PROVE Below(s0 \cup I, q) = Below(I, q)
    BY <1>a, <1>c, <2>2, UpAllFacts DEF Below
  <2> QED BY <2>1, <2>2
<1> HIDE DEF valid, Node, Pick, Place, ins
<1>6. ASSUME NEW q \in D
      PROVE  [rs[q] EXCEPT !.selected = @ + Cardinality(Below(I, q))]
               = [node |-> rs[q].node, required |-> Cardinality(Below(req, q)),
                  selected |-> Cardinality(Below(s0 \cup I, q))]
  <2> DEFINE c == Cardinality(Below(s0, q))
             d == Cardinality(Below(I, q))
             e == Cardinality(Below(req, q))
             r == [node |-> rs[q].node, required |-> e, selected |-> c]
  <2>1. rs[q] = r /\ Cardinality(Below(s0 \cup I, q)) = c + d
    BY <1>b, <1>5, <1>6 DEF Counted
  <2>2. [r EXCEPT !.selected = @ + d]
          = [node |-> rs[q].node, required |-> e, selected |-> c + d]
    <3> HIDE DEF c, d, e
    <3> QED OBVIOUS
  <2> HIDE DEF r, c
  <2> QED BY <2>1, <2>2
<1>7. ASSUME NEW q \in UpAll(I), q \notin D
      PROVE  Cardinality(Below(req, q)) = 0
  BY <1>7, <1>a, <1>c, UpAllFacts, BelowFacts
<1> DEFINE mid == InsertRefs(rs, ins, live)
           Entry(q) == [node |-> IF q \in D THEN rs[q].node ELSE At(live, q),
                        required |-> Cardinality(Below(req, q)),
                        selected |-> Cardinality(Below(s0 \cup I, q))]
<1>8. mid = [q \in D \cup UpAll(I) |-> Entry(q)]
  BY <1>2, <1>3, <1>4, <1>5, <1>6, <1>7
<1>9. \A q \in D \cup UpAll(I) : mid[q].node = IF q \in D THEN rs[q].node ELSE At(live, q)
  <2> HIDE DEF mid
  <2> QED BY <1>8
<1>10. mid = [q \in D \cup UpAll(I) |->
                [node |-> mid[q].node, required |-> Cardinality(Below(req, q)),
                 selected |-> Cardinality(Below(s0 \cup I, q))]]
  <2> HIDE DEF mid
  <2> QED BY <1>8, <1>9
<1>11. Counted(mid, UpAll(s0 \cup s1 \cup req), s0 \cup s1, req)
  BY <1>a, <1>d, <1>10 DEF Counted
<1>12. Named(mid, live, UpAll(s1 \cup req))
  <2>1. E \subseteq D \cup UpAll(I)
    BY <1>d DEF UpAll, E
  <2>2. \A q \in D \cap E : rs[q].node = At(live, q)
    BY DEF Swaps, Named, E
  <2> HIDE DEF mid
  <2> QED BY <1>9, <2>1, <2>2 DEF Named, E
<1> QED BY <1>11, <1>12 DEF mid, ins, I

LEMMA RemoveRefsGives ==
  ASSUME NEW s \in SUBSET Prims, NEW req \in SUBSET Prims, NEW R \in SUBSET s,
         NEW rs, Counted(rs, UpAll(s \cup req), s, req),
         NEW live, Named(rs, live, UpAll((s \ R) \cup req))
  PROVE  RemoveRefs(rs, R) = RefsOf(live, s \ R, req)
<1> DEFINE Left(q) == rs[q].selected - Cardinality(Below(R \cap Prims, q))
           Kept == {q \in DOMAIN rs : \/ Below(R \cap Prims, q) = {}
                                      \/ Left(q) > 0 \/ rs[q].required > 0}
           out == RemoveRefs(rs, R)
           Entry(q) == [node |-> rs[q].node, required |-> Cardinality(Below(req, q)),
                        selected |-> Cardinality(Below(s \ R, q))]
<1>1. out = [q \in Kept |-> [rs[q] EXCEPT !.selected = Left(q)]]
  BY DEF RemoveRefs
<1>2. /\ R \cap Prims = R /\ s \in SUBSET Paths /\ req \in SUBSET Paths /\ s \ R \in SUBSET Paths
      /\ s \cup req \in SUBSET Paths /\ (s \ R) \cup req \in SUBSET Paths /\ R \in SUBSET Paths
  BY UpFacts
<1>3. DOMAIN rs = UpAll(s \cup req)
  BY DEF Counted
<1>4. ASSUME NEW q \in DOMAIN rs
      PROVE  /\ Left(q) = Cardinality(Below(s \ R, q))
             /\ rs[q] = [node |-> rs[q].node, required |-> Cardinality(Below(req, q)),
                         selected |-> Cardinality(Below(s, q))]
             /\ rs[q].required = Cardinality(Below(req, q))
  <2>1. rs[q] = [node |-> rs[q].node, required |-> Cardinality(Below(req, q)),
                 selected |-> Cardinality(Below(s, q))]
    BY <1>3 DEF Counted
  <2>2. /\ rs[q].selected = Cardinality(Below(s, q))
        /\ rs[q].required = Cardinality(Below(req, q))
    BY <2>1
  <2>3. Cardinality(Below(s \ R, q)) = Cardinality(Below(s, q)) - Cardinality(Below(R, q))
    BY <1>2, BelowMinus
  <2> QED BY <2>1, <2>2, <2>3, <1>2
<1>5. ASSUME NEW q \in DOMAIN rs
      PROVE  q \in Kept <=> q \in UpAll((s \ R) \cup req)
  <2> DEFINE l == Left(q)
             r == rs[q].required
  <2>1. q \in UpAll((s \ R) \cup req) <=> Below(s \ R, q) # {} \/ Below(req, q) # {}
    BY <1>2, UpAllFacts DEF Below
  <2>2. /\ l = Cardinality(Below(s \ R, q)) /\ r = Cardinality(Below(req, q))
    BY <1>4
  <2>3. Below(s, q) # {} \/ Below(req, q) # {}
    BY <1>2, <1>3, UpAllFacts DEF Below
  <2>4. Below(R, q) = {} => Below(s \ R, q) = Below(s, q)
    BY DEF Below
  <2>5. q \in Kept <=> Below(R, q) = {} \/ l > 0 \/ r > 0
    BY <1>2
  <2> HIDE DEF l, r, Kept
  <2>6. /\ l \in Nat /\ r \in Nat
        /\ l = 0 <=> Below(s \ R, q) = {}
        /\ r = 0 <=> Below(req, q) = {}
    <3>1. \A T \in SUBSET Paths : /\ Cardinality(Below(T, q)) \in Nat
                                  /\ Cardinality(Below(T, q)) = 0 <=> Below(T, q) = {}
      BY BelowFacts
    <3>2. s \ R \in SUBSET Paths /\ req \in SUBSET Paths
      BY <1>2
    <3>3. /\ Cardinality(Below(s \ R, q)) \in Nat
          /\ Cardinality(Below(s \ R, q)) = 0 <=> Below(s \ R, q) = {}
      BY <3>1, <3>2, Zenon
    <3>4. /\ Cardinality(Below(req, q)) \in Nat
          /\ Cardinality(Below(req, q)) = 0 <=> Below(req, q) = {}
      BY <3>1, <3>2, Zenon
    <3> QED BY <2>2, <3>3, <3>4, Zenon
  <2>7. /\ l > 0 <=> Below(s \ R, q) # {}
        /\ r > 0 <=> Below(req, q) # {}
    BY <2>6
  <2> QED BY <2>1, <2>3, <2>4, <2>5, <2>7, Zenon
<1>6. Kept = UpAll((s \ R) \cup req)
  <2>1. UpAll((s \ R) \cup req) \subseteq DOMAIN rs
    BY <1>3 DEF UpAll
  <2> QED BY <1>5, <2>1
<1>7. ASSUME NEW q \in DOMAIN rs
      PROVE  [rs[q] EXCEPT !.selected = Left(q)] = Entry(q)
  <2> DEFINE l == Left(q)
             e == Cardinality(Below(req, q))
             r == [node |-> rs[q].node, required |-> e, selected |-> Cardinality(Below(s, q))]
  <2>1. rs[q] = r /\ l = Cardinality(Below(s \ R, q))
    BY <1>4
  <2>2. [r EXCEPT !.selected = l] = [node |-> rs[q].node, required |-> e, selected |-> l]
    <3> HIDE DEF l, e
    <3> QED OBVIOUS
  <2> HIDE DEF r, l
  <2>3. [rs[q] EXCEPT !.selected = l] = [r EXCEPT !.selected = l]
    BY <2>1
  <2> QED BY <2>1, <2>2, <2>3 DEF l
<1> HIDE DEF Left
<1>8. out = [q \in UpAll((s \ R) \cup req) |-> Entry(q)]
  <2>1. Kept \subseteq DOMAIN rs
    OBVIOUS
  <2> HIDE DEF out, Entry, Kept
  <2> QED BY <1>1, <1>6, <1>7, <2>1
<1> HIDE DEF out
<1>9. \A q \in UpAll((s \ R) \cup req) : rs[q].node = At(live, q)
  BY DEF Named
<1> QED BY <1>8, <1>9 DEF RefsOf, out

\* What doIt and undoIt do with the map: from the prims s0 to s1, with transforms l1.
LEMMA SwappedGives ==
  ASSUME NEW rs, NEW D, NEW s0, NEW s1, NEW req, NEW l1, Swaps(rs, D, s0, s1, req, l1)
  PROVE  RemoveRefs(InsertRefs(rs, NodesOf(s1 \ s0, l1), l1), s0 \ s1) = RefsOf(l1, s1, req)
<1> DEFINE s == s0 \cup s1
           R == s0 \ s1
           mid == InsertRefs(rs, NodesOf(s1 \ s0, l1), l1)
<1>1. /\ s \in SUBSET Prims /\ R \in SUBSET s /\ s \ R = s1 /\ req \in SUBSET Prims
  BY DEF Swaps
<1>2. Counted(mid, UpAll(s \cup req), s, req) /\ Named(mid, l1, UpAll(s1 \cup req))
  BY InsertRefsGives
<1> HIDE DEF mid, s, R
<1>3. Counted(mid, UpAll(s \cup req), s, req) /\ Named(mid, l1, UpAll((s \ R) \cup req))
  BY <1>1, <1>2
<1>4. RemoveRefs(mid, R) = RefsOf(l1, s \ R, req)
  BY <1>1, <1>3, RemoveRefsGives
<1> QED BY <1>1, <1>4 DEF mid, R

-----------------------------------------------------------------------------
(***************************************************************************)
(* Making and deleting transforms.                                         *)
(***************************************************************************)
LEMMA AtIs ==
  ASSUME NEW live, NEW D, Unique(live, D), NEW n \in live
  PROVE  n.path \in D /\ At(live, n.path) = n
BY AtFacts DEF Unique

Fits(rs, M) == \A q \in M : rs[q].node \in Nodes /\ rs[q].node.path = q

And(live, rs, M) == live \cup {rs[q].node : q \in M}

LEMMA Grown ==
  ASSUME NEW live, NEW D, Unique(live, D), NEW M, M \cap D = {}, NEW rs, Fits(rs, M)
  PROVE  /\ Unique(And(live, rs, M), D \cup M)
         /\ Same(live, And(live, rs, M), D) /\ Named(rs, And(live, rs, M), M)
<1> DEFINE l1 == And(live, rs, M)
           node(q) == rs[q].node
<1>0. /\ l1 = live \cup {node(q) : q \in M}
      /\ \A q \in M : node(q) \in Nodes /\ node(q).path = q
  BY DEF Fits, And
<1> HIDE DEF l1
<1>1. \A n \in l1 : n.path \in M => n = node(n.path)
  BY <1>0 DEF Unique
<1>2. \A n \in l1 : n.path \in D => n \in live
  BY <1>0 DEF Unique
<1>3. l1 \subseteq Nodes /\ \A n \in l1 : n.path \in D \cup M
  BY <1>0 DEF Unique
<1>4. \A q \in M : node(q) \in l1 /\ node(q).path = q
  BY <1>0
<1>5. \A q \in D : At(live, q) \in l1 /\ At(live, q).path = q
  BY <1>0, AtFacts
<1>6. Unique(l1, D \cup M)
  <2>1. ASSUME NEW q \in D \cup M
        PROVE  \E n \in l1 : n.path = q /\ \A m \in l1 : m.path = q => m = n
    <3>1. CASE q \in M
      BY <1>1, <1>4, <3>1
    <3>2. CASE q \in D
      <4>1. \A m \in l1 : m.path = q => m = At(live, q)
        BY <1>2, <3>2, AtFacts
      <4> QED BY <1>5, <3>2, <4>1
    <3> QED BY <3>1, <3>2
  <2> QED BY <1>3, <2>1 DEF Unique
<1>7. \A n \in l1 : At(l1, n.path) = n
  BY <1>6, AtIs
<1> QED BY <1>4, <1>5, <1>6, <1>7 DEF Same, Named, l1

\* Maya deletes the nodes below a node with it: those left are of the paths whose
\* chains have none of the paths whose nodes are deleted.
Standing(live, rs, gone) == {n \in live : \A q \in gone : ~GoesWith(n, rs[q].node)}

Clear(D, gone) == {x \in D : Up(x) \cap gone = {}}

LEMMA Shrunk ==
  ASSUME NEW live, NEW D \in SUBSET Paths, Unique(live, D), NEW gone \in SUBSET D,
         NEW rs, Named(rs, live, gone)
  PROVE  /\ Unique(Standing(live, rs, gone), Clear(D, gone))
         /\ Same(live, Standing(live, rs, gone), Clear(D, gone))
<1> DEFINE l1 == Standing(live, rs, gone)
           D1 == Clear(D, gone)
<1>1. ASSUME NEW n \in live PROVE n \in l1 <=> Up(n.path) \cap gone = {}
  <2>1. n.path \in D /\ n.path \in Up(n.path)
    BY UpFacts DEF Unique
  <2>2. ASSUME NEW q \in gone PROVE GoesWith(n, rs[q].node) <=> q \in Up(n.path)
    <3>1. At(live, q) \in Nodes /\ At(live, q).path = q /\ At(live, q) # Other
      BY AtFacts, OtherAssumption
    <3>2. n.path = q => n = At(live, q)
      BY AtFacts
    <3>3. rs[q].node = At(live, q)
      BY DEF Named
    <3> QED BY <2>1, <3>1, <3>2, <3>3 DEF GoesWith
  <2> QED BY <2>2 DEF Standing
<1>2. \A n \in live : n.path \in D /\ (n \in l1 <=> n.path \in D1)
  BY <1>1 DEF Unique, Clear
<1>3. ASSUME NEW q \in D1 PROVE At(live, q) \in l1 /\ At(live, q).path = q
  <2>1. q \in D
    BY DEF Clear
  <2>2. At(live, q) \in live /\ At(live, q).path = q
    BY <2>1, AtFacts
  <2> QED BY <1>2, <2>2
<1>4. l1 \subseteq live /\ D1 \subseteq D
  BY DEF Standing, Clear
<1> HIDE DEF l1, D1
<1>5. ASSUME NEW q \in D1
      PROVE  \E n \in l1 : n.path = q /\ \A m \in l1 : m.path = q => m = n
  BY <1>3, <1>4, AtFacts
<1>6. Unique(l1, D1)
  BY <1>2, <1>4, <1>5 DEF Unique
<1>7. \A n \in l1 : At(l1, n.path) = n
  BY <1>6, AtIs
<1>8. Same(live, l1, D1)
  BY <1>3, <1>7 DEF Same
<1> QED BY <1>6, <1>8 DEF l1, D1

-----------------------------------------------------------------------------
(***************************************************************************)
(* Doing again and undoing.                                                *)
(***************************************************************************)
LEMMA RefsCounted ==
  ASSUME NEW live, NEW s, NEW req
  PROVE  /\ DOMAIN RefsOf(live, s, req) = UpAll(s \cup req)
         /\ Counted(RefsOf(live, s, req), UpAll(s \cup req), s, req)
         /\ Named(RefsOf(live, s, req), live, UpAll(s \cup req))
BY DEF RefsOf, Counted, Named

LEMMA Swapped ==
  ASSUME NEW s0 \in SUBSET Prims, NEW s1 \in SUBSET Prims, NEW req \in SUBSET Prims,
         NEW l0, NEW l1, Unique(l1, UpAll(s1 \cup req)),
         Same(l0, l1, UpAll(s0 \cup req) \cap UpAll(s1 \cup req))
  PROVE  RemoveRefs(InsertRefs(RefsOf(l0, s0, req), NodesOf(s1 \ s0, l1), l1), s0 \ s1)
           = RefsOf(l1, s1, req)
<1> DEFINE D == UpAll(s0 \cup req)
           rs == RefsOf(l0, s0, req)
<1>1. D \subseteq UpAll(s0 \cup s1 \cup req)
  BY DEF UpAll
<1>2. Counted(rs, D, s0, req) /\ Named(rs, l0, D)
  BY RefsCounted
<1> HIDE DEF rs
<1>3. Named(rs, l1, D \cap UpAll(s1 \cup req))
  BY <1>2 DEF Named, Same
<1>4. Swaps(rs, D, s0, s1, req, l1)
  BY <1>1, <1>2, <1>3 DEF Swaps
<1> QED BY <1>4, SwappedGives DEF rs

\* A command that can be undone leads back.
LEMMA UndoneGives ==
  ASSUME NEW h, NEW l0 \in SUBSET Nodes, NEW l1 \in SUBSET Nodes,
         NEW s0 \in SUBSET Paths, NEW s1 \in SUBSET Paths, NEW req \in SUBSET Prims,
         Leads(h, l0, l1, s0, s1, req)
  PROVE  RemoveRefs(InsertRefs(RefsOf(l1, s1 \cap Prims, req), h.removed, l0), DOMAIN h.inserted)
           = RefsOf(l0, s0 \cap Prims, req)
<1> DEFINE h0 == s0 \cap Prims
           h1 == s1 \cap Prims
<1>1. /\ Unique(l0, UpAll(h0 \cup req))
      /\ Same(l1, l0, UpAll(h1 \cup req) \cap UpAll(h0 \cup req))
      /\ h.removed = NodesOf(h0 \ h1, l0) /\ DOMAIN h.inserted = h1 \ h0
  BY DEF Leads, NodesOf, Same
<1>2. h0 \in SUBSET Prims /\ h1 \in SUBSET Prims
  OBVIOUS
<1> HIDE DEF h0, h1
<1>3. RemoveRefs(InsertRefs(RefsOf(l1, h1, req), NodesOf(h0 \ h1, l0), l0), h1 \ h0)
        = RefsOf(l0, h0, req)
  BY <1>1, <1>2, Swapped
<1> QED BY <1>1, <1>3 DEF h0, h1

LEMMA RedoneGives ==
  ASSUME NEW h, NEW l0 \in SUBSET Nodes, NEW l1 \in SUBSET Nodes,
         NEW s0 \in SUBSET Paths, NEW s1 \in SUBSET Paths, NEW req \in SUBSET Prims,
         Leads(h, l0, l1, s0, s1, req)
  PROVE  RemoveRefs(InsertRefs(RefsOf(l0, s0 \cap Prims, req), h.inserted, l1), DOMAIN h.removed)
           = RefsOf(l1, s1 \cap Prims, req)
<1> DEFINE h0 == s0 \cap Prims
           h1 == s1 \cap Prims
<1>1. /\ Unique(l1, UpAll(h1 \cup req))
      /\ Same(l0, l1, UpAll(h0 \cup req) \cap UpAll(h1 \cup req))
      /\ h.inserted = NodesOf(h1 \ h0, l1) /\ DOMAIN h.removed = h0 \ h1
  BY DEF Leads, NodesOf, Same
<1>2. h0 \in SUBSET Prims /\ h1 \in SUBSET Prims
  OBVIOUS
<1> HIDE DEF h0, h1
<1>3. RemoveRefs(InsertRefs(RefsOf(l0, h0, req), NodesOf(h1 \ h0, l1), l1), h0 \ h1)
        = RefsOf(l1, h1, req)
  BY <1>1, <1>2, Swapped
<1> QED BY <1>1, <1>3 DEF h0, h1

-----------------------------------------------------------------------------
(***************************************************************************)
(* The history, as commands are done, undone and redone.                   *)
(***************************************************************************)
LEMMA FrontFacts ==
  ASSUME NEW T, NEW q \in Seq(T), q # << >>
  PROVE  /\ Len(q) \in Nat \ {0} /\ Last(q) = q[Len(q)] /\ Last(q) \in T
         /\ Front(q) \in Seq(T) /\ Len(Front(q)) = Len(q) - 1
         /\ \A i \in 1..Len(q)-1 : Front(q)[i] = q[i]
<1>1. Len(q) \in Nat \ {0} /\ Front(q) = SubSeq(q, 1, Len(q)-1) /\ Last(q) = q[Len(q)]
  BY DEF Front, Last
<1>2. 1 \in 1..Len(q)+1 /\ Len(q)-1 \in 0..Len(q) /\ 1 <= Len(q)-1+1
  BY <1>1
<1>3. /\ SubSeq(q, 1, Len(q)-1) \in Seq(T)
      /\ Len(SubSeq(q, 1, Len(q)-1)) = Len(q)-1 - 1 + 1
      /\ \A j \in 1..Len(q)-1-1+1 : SubSeq(q, 1, Len(q)-1)[j] = q[1+j-1]
  BY <1>2, PieceFacts
<1> QED BY <1>1, <1>3

LEMMA AppendFacts ==
  ASSUME NEW T, NEW q \in Seq(T), NEW e \in T
  PROVE  /\ Append(q, e) \in Seq(T) /\ Len(Append(q, e)) = Len(q) + 1
         /\ Append(q, e)[Len(q)+1] = e /\ \A i \in 1..Len(q) : Append(q, e)[i] = q[i]
OBVIOUS

LEMMA HistoryStarts ==
  ASSUME NEW live \in SUBSET Nodes, NEW sel \in SUBSET Paths, NEW req
  PROVE  Hist(<< >>, << >>, live, sel, req)
<1> DEFINE L == [i \in 0..0 |-> live]
           S == [i \in 0..0 |-> sel]
<1>1. Len(<< >>) = 0
  OBVIOUS
<1>2. L \in [0..0 -> SUBSET Nodes] /\ S \in [0..0 -> SUBSET Paths] /\ L[0] = live /\ S[0] = sel
  OBVIOUS
<1> HIDE DEF L, S
<1> QED BY <1>1, <1>2 DEF Hist

LEMMA HistoryGrows ==
  ASSUME NEW d \in Seq(Helpers), NEW u \in Seq(Helpers), NEW req, NEW h \in Helpers,
         NEW l0, NEW l1 \in SUBSET Nodes, NEW s0, NEW s1 \in SUBSET Paths,
         Hist(d, u, l0, s0, req), Leads(h, l0, l1, s0, s1, req)
  PROVE  Hist(Append(d, h), << >>, l1, s1, req)
<1> DEFINE m == Len(d)
           n == Len(d) + Len(u)
<1>1. PICK L \in [0..n -> SUBSET Nodes], S \in [0..n -> SUBSET Paths] :
        /\ L[m] = l0 /\ S[m] = s0
        /\ \A i \in 1..m : Leads(d[i], L[i-1], L[i], S[i-1], S[i], req)
  BY DEF Hist
<1>2. m \in Nat /\ n \in Nat /\ m <= n
  OBVIOUS
<1> HIDE DEF m, n
<1> DEFINE L1 == [i \in 0..m+1 |-> IF i = m+1 THEN l1 ELSE L[i]]
           S1 == [i \in 0..m+1 |-> IF i = m+1 THEN s1 ELSE S[i]]
           e == Append(d, h)
<1>3. L1 \in [0..m+1 -> SUBSET Nodes] /\ S1 \in [0..m+1 -> SUBSET Paths]
  BY <1>2
<1>4. Len(e) = m+1 /\ e[m+1] = h /\ \A i \in 1..m : e[i] = d[i]
  BY AppendFacts DEF m
<1>5. L1[m+1] = l1 /\ S1[m+1] = s1 /\ \A i \in 0..m : L1[i] = L[i] /\ S1[i] = S[i]
  BY <1>2
<1> HIDE DEF L1, S1, e
<1>6. ASSUME NEW i \in 1..m+1
      PROVE  Leads(e[i], L1[i-1], L1[i], S1[i-1], S1[i], req)
  <2>1. CASE i = m+1
    <3>1. m \in 0..m /\ i-1 = m
      BY <1>2, <2>1
    <3>2. e[i] = h /\ L1[i-1] = l0 /\ L1[i] = l1 /\ S1[i-1] = s0 /\ S1[i] = s1
      BY <1>1, <1>4, <1>5, <2>1, <3>1
    <3> QED BY <3>2
  <2>2. CASE i # m+1
    <3>1. i \in 1..m /\ i-1 \in 0..m /\ i \in 0..m
      BY <1>2, <2>2
    <3>2. /\ e[i] = d[i] /\ L1[i-1] = L[i-1] /\ L1[i] = L[i]
          /\ S1[i-1] = S[i-1] /\ S1[i] = S[i]
      BY <1>4, <1>5, <3>1
    <3> QED BY <1>1, <3>1, <3>2
  <2> QED BY <2>1, <2>2
<1>7. Len(<< >>) = 0 /\ 1..0 = {} /\ m+1+0 = m+1
  BY <1>2
<1>8. Hist(e, << >>, l1, s1, req)
  BY <1>3, <1>4, <1>5, <1>6, <1>7 DEF Hist
<1> QED BY <1>8 DEF e

LEMMA HistoryBack ==
  ASSUME NEW d \in Seq(Helpers), NEW u \in Seq(Helpers), NEW req, d # << >>,
         NEW live, NEW sel, Hist(d, u, live, sel, req)
  PROVE  \E l0 \in SUBSET Nodes, s0 \in SUBSET Paths :
           /\ Leads(Last(d), l0, live, s0, sel, req)
           /\ Hist(Front(d), Append(u, Last(d)), l0, s0, req)
<1> DEFINE m == Len(d)
           k == Len(u)
           n == m + k
           h == Last(d)
           e == Front(d)
           v == Append(u, h)
<1>1. PICK L \in [0..n -> SUBSET Nodes], S \in [0..n -> SUBSET Paths] :
        /\ L[m] = live /\ S[m] = sel
        /\ \A i \in 1..m : Leads(d[i], L[i-1], L[i], S[i-1], S[i], req)
        /\ \A j \in 1..k : Leads(u[j], L[n-j], L[n+1-j], S[n-j], S[n+1-j], req)
  BY DEF Hist
<1>2. /\ m \in Nat \ {0} /\ h = d[m] /\ h \in Helpers /\ k \in Nat
      /\ Len(e) = m-1 /\ \A i \in 1..m-1 : e[i] = d[i]
  <2>1. \A q \in Seq(Helpers) : q # << >> =>
          /\ Len(q) \in Nat \ {0} /\ Last(q) = q[Len(q)] /\ Last(q) \in Helpers
          /\ Len(Front(q)) = Len(q) - 1 /\ \A i \in 1..Len(q)-1 : Front(q)[i] = q[i]
    BY FrontFacts
  <2> QED BY <2>1
<1>3. Len(v) = k+1 /\ v[k+1] = h /\ \A j \in 1..k : v[j] = u[j]
  BY <1>2, AppendFacts
<1> HIDE DEF m, k, h, e, v
<1>4. m-1 \in 0..n /\ L[m-1] \in SUBSET Nodes /\ S[m-1] \in SUBSET Paths /\ m \in 1..m
  BY <1>2
<1>5. Leads(h, L[m-1], live, S[m-1], sel, req)
  BY <1>1, <1>2, <1>4
<1>6. \A i \in 1..m-1 : Leads(e[i], L[i-1], L[i], S[i-1], S[i], req)
  <2>1. \A i \in 1..m-1 : i \in 1..m /\ e[i] = d[i]
    BY <1>2
  <2> HIDE DEF n
  <2> QED BY <1>1, <2>1
<1>7. ASSUME NEW j \in 1..k+1
      PROVE  Leads(v[j], L[n-j], L[n+1-j], S[n-j], S[n+1-j], req)
  <2>1. CASE j = k+1
    <3>1. n-j = m-1 /\ n+1-j = m
      BY <1>2, <2>1
    <3> HIDE DEF n
    <3> QED BY <1>1, <1>3, <1>5, <2>1, <3>1
  <2>2. CASE j # k+1
    <3>1. j \in 1..k
      BY <1>2, <2>2
    <3> HIDE DEF n
    <3> QED BY <1>1, <1>3, <3>1
  <2> QED BY <2>1, <2>2
<1>8. Hist(e, v, L[m-1], S[m-1], req)
  <2>1. Len(e) + Len(v) = n /\ Len(e) = m-1 /\ Len(v) = k+1
    BY <1>2, <1>3
  <2> HIDE DEF n
  <2> QED BY <1>6, <1>7, <2>1 DEF Hist
<1> QED BY <1>4, <1>5, <1>8 DEF h, e, v

LEMMA HistoryOn ==
  ASSUME NEW d \in Seq(Helpers), NEW u \in Seq(Helpers), NEW req, u # << >>,
         NEW live, NEW sel, Hist(d, u, live, sel, req)
  PROVE  \E l1 \in SUBSET Nodes, s1 \in SUBSET Paths :
           /\ Leads(Last(u), live, l1, sel, s1, req)
           /\ Hist(Append(d, Last(u)), Front(u), l1, s1, req)
<1> DEFINE m == Len(d)
           k == Len(u)
           n == m + k
           h == Last(u)
           e == Append(d, h)
           v == Front(u)
<1>1. PICK L \in [0..n -> SUBSET Nodes], S \in [0..n -> SUBSET Paths] :
        /\ L[m] = live /\ S[m] = sel
        /\ \A i \in 1..m : Leads(d[i], L[i-1], L[i], S[i-1], S[i], req)
        /\ \A j \in 1..k : Leads(u[j], L[n-j], L[n+1-j], S[n-j], S[n+1-j], req)
  BY DEF Hist
<1>2. /\ k \in Nat \ {0} /\ h = u[k] /\ h \in Helpers /\ m \in Nat
      /\ Len(v) = k-1 /\ \A i \in 1..k-1 : v[i] = u[i]
  <2>1. \A q \in Seq(Helpers) : q # << >> =>
          /\ Len(q) \in Nat \ {0} /\ Last(q) = q[Len(q)] /\ Last(q) \in Helpers
          /\ Len(Front(q)) = Len(q) - 1 /\ \A i \in 1..Len(q)-1 : Front(q)[i] = q[i]
    BY FrontFacts
  <2> QED BY <2>1
<1>3. Len(e) = m+1 /\ e[m+1] = h /\ \A i \in 1..m : e[i] = d[i]
  BY <1>2, AppendFacts
<1> HIDE DEF m, k, h, e, v
<1>4. m+1 \in 0..n /\ L[m+1] \in SUBSET Nodes /\ S[m+1] \in SUBSET Paths /\ k \in 1..k
      /\ n-k = m /\ n+1-k = m+1
  BY <1>2
<1>5. Leads(h, live, L[m+1], sel, S[m+1], req)
  <2> HIDE DEF n
  <2> QED BY <1>1, <1>2, <1>4
<1>6. ASSUME NEW i \in 1..m+1
      PROVE  Leads(e[i], L[i-1], L[i], S[i-1], S[i], req)
  <2>1. CASE i = m+1
    <3>1. i-1 = m
      BY <1>2, <2>1
    <3> HIDE DEF n
    <3> QED BY <1>1, <1>3, <1>5, <2>1, <3>1
  <2>2. CASE i # m+1
    <3>1. i \in 1..m
      BY <1>2, <2>2
    <3> HIDE DEF n
    <3> QED BY <1>1, <1>3, <3>1
  <2> QED BY <2>1, <2>2
<1>7. \A j \in 1..k-1 : Leads(v[j], L[n-j], L[n+1-j], S[n-j], S[n+1-j], req)
  <2>1. \A j \in 1..k-1 : j \in 1..k /\ v[j] = u[j]
    BY <1>2
  <2> HIDE DEF n
  <2> QED BY <1>1, <2>1
<1>8. Hist(e, v, L[m+1], S[m+1], req)
  <2>1. Len(e) + Len(v) = n /\ Len(e) = m+1 /\ Len(v) = k-1
    BY <1>2, <1>3
  <2> HIDE DEF n
  <2> QED BY <1>6, <1>7, <2>1 DEF Hist
<1> QED BY <1>4, <1>5, <1>8 DEF h, e, v

-----------------------------------------------------------------------------
(***************************************************************************)
(* The steps of the queue.                                                 *)
(***************************************************************************)
Good == StateInv /\ History

LEMMA ReqPrims == StateInv => needed \in SUBSET Prims /\ needed \in SUBSET Paths
BY UpFacts DEF StateInv

LEMMA UndoKeeps == Good /\ UndoSelect => Good'
<1> SUFFICES ASSUME Good, UndoSelect PROVE Good'
  OBVIOUS
<1> DEFINE h == Last(done)
<1>1. PICK l0 \in SUBSET Nodes, s0 \in SUBSET Paths :
        /\ Leads(h, l0, alive, s0, selected, needed)
        /\ Hist(Front(done), Append(undone, h), l0, s0, needed)
  <2>1. done \in Seq(Helpers) /\ undone \in Seq(Helpers) /\ done # << >>
    BY DEF Good, StateInv, UndoSelect
  <2>2. Hist(done, undone, alive, selected, needed)
    BY DEF Good, History
  <2> QED BY <2>1, <2>2, HistoryBack
<1>2. alive \in SUBSET Nodes /\ selected \in SUBSET Paths /\ needed \in SUBSET Prims
  BY ReqPrims DEF Good, StateInv, Unique
<1>3. RemoveRefs(InsertRefs(RefsOf(alive, selected \cap Prims, needed), h.removed, l0),
                 DOMAIN h.inserted) = RefsOf(l0, s0 \cap Prims, needed)
  BY <1>1, <1>2, UndoneGives
<1>4. refs = RefsOf(alive, selected \cap Prims, needed)
  BY DEF Good, StateInv, Here
<1>5. /\ alive' = (alive \ h.created) \cup (h.killed \ h.created)
      /\ refs' = RemoveRefs(InsertRefs(refs, h.removed, alive'), DOMAIN h.inserted)
      /\ selected' = h.before /\ needed' = needed
      /\ done' = Front(done) /\ undone' = Append(undone, h)
  BY Zenon DEF UndoSelect, UndoIt, UndoneRefs
<1>6. /\ h.before = s0 /\ Unique(l0, UpAll((s0 \cap Prims) \cup needed))
      /\ h.created = alive \ l0 /\ h.killed = l0 \ alive
  BY <1>1 DEF Leads
<1>7. alive' = l0 /\ selected' = s0 /\ refs' = RefsOf(l0, s0 \cap Prims, needed)
  <2>1. alive' = l0
    BY <1>5, <1>6
  <2> QED BY <1>3, <1>4, <1>5, <1>6, <2>1
<1>8. done' \in Seq(Helpers) /\ undone' \in Seq(Helpers)
  BY <1>5, FrontFacts, AppendFacts DEF Good, StateInv, UndoSelect
<1>9. needed \subseteq Schema
  BY DEF Good, StateInv
<1> HIDE DEF h
<1>10. StateInv'
  BY <1>5, <1>6, <1>7, <1>8, <1>9 DEF StateInv, Here
<1>11. History'
  BY <1>1, <1>5, <1>7 DEF History
<1> QED BY <1>10, <1>11 DEF Good

LEMMA RedoKeeps == Good /\ RedoSelect => Good'
<1> SUFFICES ASSUME Good, RedoSelect PROVE Good'
  OBVIOUS
<1> DEFINE h == Last(undone)
<1>1. PICK l1 \in SUBSET Nodes, s1 \in SUBSET Paths :
        /\ Leads(h, alive, l1, selected, s1, needed)
        /\ Hist(Append(done, h), Front(undone), l1, s1, needed)
  <2>1. done \in Seq(Helpers) /\ undone \in Seq(Helpers) /\ undone # << >>
    BY DEF Good, StateInv, RedoSelect
  <2>2. Hist(done, undone, alive, selected, needed)
    BY DEF Good, History
  <2> QED BY <2>1, <2>2, HistoryOn
<1>2. alive \in SUBSET Nodes /\ selected \in SUBSET Paths /\ needed \in SUBSET Prims
  BY ReqPrims DEF Good, StateInv, Unique
<1>3. RemoveRefs(InsertRefs(RefsOf(alive, selected \cap Prims, needed), h.inserted, l1),
                 DOMAIN h.removed) = RefsOf(l1, s1 \cap Prims, needed)
  BY <1>1, <1>2, RedoneGives
<1>4. refs = RefsOf(alive, selected \cap Prims, needed)
  BY DEF Good, StateInv, Here
<1>5. /\ alive' = (alive \cup h.created) \ h.killed
      /\ refs' = RemoveRefs(InsertRefs(refs, h.inserted, alive'), DOMAIN h.removed)
      /\ selected' = h.after /\ needed' = needed
      /\ done' = Append(done, h) /\ undone' = Front(undone)
  BY Zenon DEF RedoSelect, DoIt
<1>6. /\ h.after = s1 /\ Unique(l1, UpAll((s1 \cap Prims) \cup needed))
      /\ h.created = l1 \ alive /\ h.killed = alive \ l1
  BY <1>1 DEF Leads
<1>7. alive' = l1 /\ selected' = s1 /\ refs' = RefsOf(l1, s1 \cap Prims, needed)
  <2>1. alive' = l1
    BY <1>5, <1>6
  <2> QED BY <1>3, <1>4, <1>5, <1>6, <2>1
<1>8. done' \in Seq(Helpers) /\ undone' \in Seq(Helpers)
  BY <1>5, FrontFacts, AppendFacts DEF Good, StateInv, RedoSelect
<1>9. needed \subseteq Schema
  BY DEF Good, StateInv
<1> HIDE DEF h
<1>10. StateInv'
  BY <1>5, <1>6, <1>7, <1>8, <1>9 DEF StateInv, Here
<1>11. History'
  BY <1>1, <1>5, <1>7 DEF History
<1> QED BY <1>10, <1>11 DEF Good

LEMMA FlushKeeps == Good /\ FlushUndo => Good'
<1> SUFFICES ASSUME Good, FlushUndo PROVE Good'
  OBVIOUS
<1>1. alive \in SUBSET Nodes /\ selected \in SUBSET Paths
  BY DEF Good, StateInv, Unique
<1>2. UNCHANGED <<refs, selected, alive, needed>> /\ done' = << >> /\ undone' = << >>
  BY DEF FlushUndo, scene
<1>3. History'
  BY <1>1, <1>2, HistoryStarts DEF History
<1>4. StateInv'
  BY <1>2 DEF Good, StateInv, Here
<1> QED BY <1>3, <1>4 DEF Good

-----------------------------------------------------------------------------
(***************************************************************************)
(* Selecting.                                                              *)
(***************************************************************************)
Reasons == UpAll(Here \cup needed)

LEMMA StateFacts ==
  ASSUME StateInv
  PROVE  /\ Here \in SUBSET Prims /\ Here \in SUBSET Paths
         /\ needed \in SUBSET Prims /\ needed \in SUBSET Paths
         /\ Reasons \in SUBSET Prims /\ Reasons \in SUBSET Paths
         /\ Unique(alive, Reasons) /\ DOMAIN refs = Reasons
         /\ Counted(refs, Reasons, Here, needed) /\ Named(refs, alive, Reasons)
<1>1. /\ Here \in SUBSET Prims /\ Here \in SUBSET Paths
      /\ needed \in SUBSET Prims /\ needed \in SUBSET Paths
  BY UpFacts, ReqPrims DEF StateInv, Here
<1>2. Reasons \in SUBSET Prims
  BY <1>1, UpFacts DEF Reasons, UpAll
<1>3. Unique(alive, Reasons) /\ refs = RefsOf(alive, Here, needed)
  BY DEF StateInv, Reasons
<1>4. /\ DOMAIN refs = Reasons /\ Counted(refs, Reasons, Here, needed)
      /\ Named(refs, alive, Reasons)
  BY <1>3, RefsCounted DEF Reasons
<1> QED BY <1>1, <1>2, <1>3, <1>4, UpFacts

\* makeUsdTransformChain: the chains of S have their transforms.
LEMMA Makes ==
  ASSUME StateInv, NEW S \in SUBSET Paths, CanMake(Missing(S))
  PROVE  LET rs   == WithNodes(refs, Missing(S))
             live == And(alive, rs, Missing(S))
             D    == Reasons \cup UpAll(S)
         IN  /\ D \in SUBSET Paths /\ Missing(S) = UpAll(S) \ Reasons
             /\ Counted(rs, D, Here, needed) /\ Unique(live, D) /\ Named(rs, live, D)
             /\ Same(alive, live, Reasons) /\ Named(refs, live, Reasons)
<1> DEFINE M == Missing(S)
           rs == WithNodes(refs, M)
           live == And(alive, rs, M)
           D == Reasons \cup UpAll(S)
<1>1. /\ DOMAIN refs = Reasons /\ M = UpAll(S) \ Reasons /\ D = Reasons \cup M
      /\ M \cap Reasons = {} /\ M \in SUBSET Paths /\ D \in SUBSET Paths
  BY StateFacts, UpAllFacts DEF Missing
<1>2. rs = [q \in M \cup Reasons |->
              IF q \in M THEN [node |-> NewNode(q, Known), required |-> 0, selected |-> 0]
              ELSE refs[q]]
  BY <1>1, Zenon DEF WithNodes
<1>3. ASSUME NEW q \in M PROVE NewNode(q, Known) \in Nodes /\ NewNode(q, Known).path = q
  <2>1. \E n \in 1..MaxNodes : [path |-> q, n |-> n] \notin Known
    BY DEF CanMake
  <2> DEFINE c == CHOOSE n \in 1..MaxNodes : [path |-> q, n |-> n] \notin Known
  <2>2. c \in 1..MaxNodes
    BY <2>1
  <2>3. NewNode(q, Known) = [path |-> q, n |-> c]
    BY DEF NewNode
  <2> HIDE DEF c
  <2> QED BY <1>1, <2>2, <2>3 DEF Nodes
<1> HIDE DEF M, rs, D
<1>4. \A q \in M : /\ rs[q].node \in Nodes /\ rs[q].node.path = q
                   /\ rs[q].required = 0 /\ rs[q].selected = 0
                   /\ rs[q] = [node |-> rs[q].node, required |-> 0, selected |-> 0]
  BY <1>2, <1>3
<1>5. \A q \in Reasons : rs[q] = refs[q]
  BY <1>1, <1>2
<1>6. DOMAIN rs = D
  BY <1>1, <1>2
<1>7. Unique(live, Reasons \cup M) /\ Same(alive, live, Reasons) /\ Named(rs, live, M)
  <2>1. Unique(alive, Reasons)
    BY StateFacts
  <2>2. Fits(rs, M)
    BY <1>4 DEF Fits
  <2> QED BY <1>1, <2>1, <2>2, Grown
<1> HIDE DEF live
<1>8. Named(refs, live, Reasons)
  BY <1>7, StateFacts DEF Named, Same
<1>9. Named(rs, live, D)
  BY <1>1, <1>5, <1>7, <1>8 DEF Named
<1>10. Counted(rs, D, Here, needed)
  <2>1. ASSUME NEW q \in M
        PROVE  Cardinality(Below(Here, q)) = 0 /\ Cardinality(Below(needed, q)) = 0
    <3>1. q \notin UpAll(Here) /\ q \notin UpAll(needed)
      BY <1>1, <2>1 DEF Reasons, UpAll
    <3>2. Below(Here, q) = {} /\ Below(needed, q) = {}
      BY <3>1 DEF UpAll, Below
    <3> QED BY <3>2, FS_EmptySet
  <2>2. \A q \in Reasons :
          refs[q] = [node |-> refs[q].node, required |-> Cardinality(Below(needed, q)),
                     selected |-> Cardinality(Below(Here, q))]
    BY StateFacts DEF Counted
  <2>3. \A q \in D :
          rs[q] = [node |-> rs[q].node, required |-> Cardinality(Below(needed, q)),
                   selected |-> Cardinality(Below(Here, q))]
    BY <1>1, <1>4, <1>5, <2>1, <2>2
  <2>4. rs = [q \in D |-> rs[q]]
    BY <1>2, <1>6
  <2> QED BY <2>3, <2>4 DEF Counted
<1> QED BY <1>1, <1>7, <1>8, <1>9, <1>10 DEF M, rs, live, D

\* The prims a request selects and deselects.
LEMMA Requested ==
  ASSUME NEW mode, NEW S \in SUBSET Paths, selected \in SUBSET Prims
  PROVE  /\ Inserted(mode, S) \in SUBSET Prims /\ Inserted(mode, S) \cap selected = {}
         /\ Removed(mode, S) \in SUBSET selected
         /\ SelectedAfter(mode, S) \in SUBSET Paths
         /\ SelectedAfter(mode, S) \cap Prims
              = (selected \ Removed(mode, S)) \cup Inserted(mode, S)
<1>1. Prims \subseteq Paths
  BY UpFacts
<1>2. Inserted(mode, S) \in SUBSET Prims /\ Inserted(mode, S) \cap selected = {}
  BY DEF Inserted
<1>3. CASE mode = "add"
  <2>1. /\ Removed(mode, S) = {} /\ SelectedAfter(mode, S) = selected \cup S
        /\ Inserted(mode, S) = (S \cap Prims) \ selected
    BY <1>3 DEF Removed, SelectedAfter, Inserted
  <2> QED BY <1>1, <1>2, <2>1
<1>4. CASE mode # "add"
  <2>1. SelectedAfter(mode, S) = (selected \ Removed(mode, S)) \cup Inserted(mode, S)
    BY <1>4 DEF SelectedAfter
  <2>2. \/ Removed(mode, S) = selected \ (S \cap Prims)
        \/ Removed(mode, S) = selected \cap S \cap Prims
    BY <1>4 DEF Removed
  <2> QED BY <1>1, <1>2, <2>1, <2>2
<1> QED BY <1>3, <1>4

\* Of the chains of R, what no prim of K needs.
Orphans(gone, R, K) == \A q : q \in gone <=> q \in UpAll(R) /\ q \notin UpAll(K)

\* Which nodes removeUsdTransformChain_internal finds without a reason.
LEMMA DeletedIs ==
  ASSUME StateInv, NEW R \in SUBSET Here, NEW X \in SUBSET Prims, X \cap Here = {}
  PROVE  Orphans(Deleted(R, X), R, ((Here \ R) \cup X) \cup needed)
<1> SUFFICES ASSUME NEW q
             PROVE  q \in Deleted(R, X) <=>
                      q \in UpAll(R) /\ q \notin UpAll(((Here \ R) \cup X) \cup needed)
  BY DEF Orphans
<1>1. /\ Here \in SUBSET Paths /\ needed \in SUBSET Paths /\ R \in SUBSET Paths
      /\ X \in SUBSET Paths /\ Here \ R \in SUBSET Paths
  BY StateFacts, UpFacts
<1>2. UpAll(R) \subseteq Reasons
  BY DEF Reasons, UpAll
<1>3. ASSUME q \in UpAll(R)
      PROVE  /\ refs[q].required = Cardinality(Below(needed, q))
             /\ refs[q].selected = Cardinality(Below(Here, q))
  BY <1>2, <1>3, StateFacts DEF Counted
<1> DEFINE a == Cardinality(Below(Here \ R, q))
           b == Cardinality(Below(R, q))
           c == Cardinality(Below(X, q))
           d == Cardinality(Below(needed, q))
<1>4. /\ a \in Nat
      /\ a = 0 <=> Below(Here \ R, q) = {}
  BY <1>1, BelowFacts
<1>5. /\ c \in Nat
      /\ c = 0 <=> Below(X, q) = {}
  BY <1>1, BelowFacts
<1>6. /\ d \in Nat
      /\ d = 0 <=> Below(needed, q) = {}
  BY <1>1, BelowFacts
<1>7. b \in Nat /\ Cardinality(Below(Here, q)) \in Nat
  BY <1>1, BelowFacts
<1>8. a = Cardinality(Below(Here, q)) - b
  BY <1>1, BelowMinus
<1>9. q \in UpAll(((Here \ R) \cup X) \cup needed)
        <=> Below(Here \ R, q) # {} \/ Below(X, q) # {} \/ Below(needed, q) # {}
  BY DEF UpAll, Below
<1>10. q \in Deleted(R, X) <=>
         /\ q \in UpAll(R) /\ q \in DOMAIN refs /\ refs[q].required = 0
         /\ refs[q].selected + c = b
  BY DEF Deleted
<1> DEFINE e == refs[q].selected
           r == refs[q].required
<1>11. q \in Deleted(R, X) <=> q \in UpAll(R) /\ q \in DOMAIN refs /\ r = 0 /\ e + c = b
  BY <1>10
<1>12. ASSUME q \in UpAll(R) PROVE r = d /\ e = Cardinality(Below(Here, q)) /\ q \in DOMAIN refs
  BY <1>2, <1>3, <1>12, StateFacts
<1> HIDE DEF a, b, c, d, e, r
<1>13. ASSUME q \in UpAll(R) PROVE e + c = b <=> a = 0 /\ c = 0
  <2>1. a \in Nat /\ b \in Nat /\ c \in Nat
    BY <1>4, <1>5, <1>7
  <2>2. e = a + b
    BY <1>7, <1>8, <1>12, <1>13
  <2> QED BY <2>1, <2>2
<1>14. ASSUME q \in UpAll(R) PROVE q \in Deleted(R, X) <=> a = 0 /\ c = 0 /\ d = 0
  BY <1>11, <1>12, <1>13, <1>14, Zenon
<1>15. ASSUME q \notin UpAll(R) PROVE q \notin Deleted(R, X)
  BY <1>11, <1>15
<1> QED BY <1>4, <1>5, <1>6, <1>9, <1>14, <1>15, Zenon

\* What is deleted where prims R of s0 are deselected and I selected, and req is
\* required: what has no reason left, X of I counted first, and is not for I either.
Deletes(gone, s0, R, I, X, req) ==
  /\ s0 \subseteq Paths /\ I \subseteq Paths /\ req \subseteq Paths
  /\ R \subseteq s0 /\ X \subseteq I
  /\ Orphans(gone, R, ((s0 \ R) \cup X) \cup req) /\ gone \cap UpAll(I) = {}

\* It leaves the chains of the prims that have a reason.
LEMMA ClearIs ==
  ASSUME NEW gone, NEW s0, NEW R, NEW I, NEW X, NEW req, Deletes(gone, s0, R, I, X, req)
  PROVE  Clear(UpAll(s0 \cup req) \cup UpAll(I), gone) = UpAll(((s0 \ R) \cup I) \cup req)
<1> USE DEF Deletes
<1> DEFINE D == UpAll(s0 \cup req) \cup UpAll(I)
           E == UpAll(((s0 \ R) \cup I) \cup req)
<1>1. E \subseteq D /\ D \subseteq Paths
  <2>1. E \subseteq D
    BY DEF UpAll
  <2> QED BY <2>1, UpFacts DEF UpAll
<1>2. ASSUME NEW x \in E PROVE Up(x) \cap gone = {}
  <2>1. Up(x) \subseteq E
    BY <1>2, UpAllFacts
  <2>2. \A y \in E : y \in UpAll(I) \/ y \in UpAll(((s0 \ R) \cup X) \cup req)
    BY DEF UpAll
  <2> QED BY <2>1, <2>2 DEF Orphans
<1>3. ASSUME NEW x \in D, x \notin E PROVE x \in gone /\ x \in Up(x)
  <2>1. x \in UpAll(R)
    BY <1>3 DEF UpAll
  <2>2. x \notin UpAll(((s0 \ R) \cup X) \cup req)
    BY <1>3 DEF UpAll
  <2> QED BY <1>1, <2>1, <2>2, UpFacts DEF Orphans
<1> HIDE DEF D, E
<1>4. Clear(D, gone) = E
  BY <1>1, <1>2, <1>3 DEF Clear
<1> QED BY <1>4 DEF D, E

LEMMA SelectKeeps ==
  ASSUME Good, sound', NEW asked, NEW paths \in SUBSET Paths, Select(asked, paths)
  PROVE  Good'
<1> DEFINE clears == asked = "replace" /\ paths = {}
           mode == IF clears THEN "remove" ELSE asked
           S == IF clears THEN selected ELSE paths
           I == Inserted(mode, S)
           R == Removed(mode, S)
           M == Missing(I)
           rs == WithNodes(refs, M)
           made == {rs[q].node : q \in M}
           X == IF mode = "replace" THEN I ELSE {}
           gone == Deleted(R, X)
           after == SelectedAfter(mode, S)
           killed == {n \in alive \cup made : \E q \in gone : GoesWith(n, refs[q].node)}
           H(removed) == [before |-> selected, after |-> after,
                          inserted |-> [p \in I |-> rs[p].node], removed |-> removed,
                          created |-> made, killed |-> killed]
<1>1. selected \subseteq DOMAIN refs /\ CanMake(M) /\ needed' = needed
  BY Zenon DEF Select
<1>2. PICK removed \in Recorded(asked, R) :
        /\ DoIt(H(removed), rs)
        /\ done' = Append(done, H(removed)) /\ undone' = << >>
        /\ sound' = (sound /\ Sound(H(removed)))
  BY Zenon DEF Select
<1> DEFINE h == H(removed)
<1>3. /\ h.before = selected /\ h.after = after /\ h.inserted = [p \in I |-> rs[p].node]
      /\ h.removed = removed /\ h.created = made /\ h.killed = killed
      /\ h = [before |-> h.before, after |-> h.after, inserted |-> h.inserted,
              removed |-> h.removed, created |-> h.created, killed |-> h.killed]
  BY Zenon
<1>4. /\ DoIt(h, rs) /\ done' = Append(done, h) /\ undone' = << >> /\ Sound(h)
  BY <1>2
<1>5. X = I \/ X = {}
  OBVIOUS
<1>6. StateInv /\ History
  BY DEF Good
<1> HIDE DEF H, h, X
<1>7. /\ selected \in SUBSET Prims /\ selected \in SUBSET Paths /\ Here = selected
  BY <1>1, <1>6, StateFacts, UpFacts DEF Here
<1>8. S \in SUBSET Paths
  BY <1>7
<1> HIDE DEF mode, S
<1>9. /\ I \in SUBSET Prims /\ I \cap selected = {} /\ R \in SUBSET selected
      /\ after \in SUBSET Paths /\ after \cap Prims = (selected \ R) \cup I
  BY <1>7, <1>8, Requested
<1> HIDE DEF I, R, after
<1> DEFINE s1 == (selected \ R) \cup I
           D == Reasons \cup UpAll(I)
           E == UpAll(s1 \cup needed)
           live0 == And(alive, rs, M)
           live == Standing(live0, refs, gone)
<1>10. /\ I \in SUBSET Paths /\ s1 \in SUBSET Prims /\ needed \in SUBSET Prims
       /\ needed \in SUBSET Paths
  BY <1>6, <1>7, <1>9, StateFacts, UpFacts
<1>11. /\ D \in SUBSET Paths /\ M = UpAll(I) \ Reasons
       /\ Counted(rs, D, selected, needed) /\ Unique(live0, D) /\ Named(rs, live0, D)
       /\ Same(alive, live0, Reasons) /\ Named(refs, live0, Reasons)
  BY <1>1, <1>6, <1>7, <1>10, Makes
<1> HIDE DEF rs, M
<1>12. live0 = alive \cup made
  BY DEF And
<1>13. Orphans(gone, R, ((selected \ R) \cup X) \cup needed)
  <2>1. X \in SUBSET Prims /\ X \cap Here = {} /\ R \in SUBSET Here
    BY <1>5, <1>7, <1>9
  <2> QED BY <1>6, <1>7, <2>1, DeletedIs
<1> HIDE DEF gone
<1>14. gone \in SUBSET Reasons /\ gone \in SUBSET D
  BY <1>7, <1>9, <1>13 DEF Orphans, Reasons, UpAll
<1>15. Named(refs, live0, gone) /\ \A q \in gone : refs[q].node \in live0 /\ refs[q].node.path = q
  <2>1. \A q \in gone : refs[q].node = At(live0, q) /\ q \in D
    BY <1>11, <1>14 DEF Named
  <2>2. \A q \in D : At(live0, q) \in live0 /\ At(live0, q).path = q
    BY <1>11, AtFacts
  <2> HIDE DEF D, live0
  <2> QED BY <2>1, <2>2 DEF Named
<1>16. live = live0 \ killed /\ killed \subseteq live0
  BY <1>12 DEF Standing
<1>17. /\ \A p \in DOMAIN removed : removed[p] # Other /\ removed[p].path = p
       /\ \A n \in killed : n \notin made /\ n.path \notin UpAll(I)
  BY <1>3, <1>4 DEF Sound
<1>18. gone \cap UpAll(I) = {}
  <2>1. \A q \in gone : refs[q].node \in killed
    BY <1>12, <1>15 DEF GoesWith
  <2>2. \A q \in gone : refs[q].node.path = q
    BY <1>15
  <2>3. \A n \in killed : n.path \notin UpAll(I)
    BY <1>17
  <2> HIDE DEF killed
  <2> QED BY <2>1, <2>2, <2>3
<1> HIDE DEF killed, made, live0
<1>19. Clear(D, gone) = E
  <2>1. Deletes(gone, selected, R, I, X, needed)
    BY <1>5, <1>7, <1>9, <1>10, <1>13, <1>18 DEF Deletes
  <2>2. Clear(UpAll(selected \cup needed) \cup UpAll(I), gone) = E
    BY <2>1, ClearIs
  <2> QED BY <1>7, <2>2 DEF Reasons
<1>20. Unique(live, E) /\ Same(live0, live, E)
  <2>1. Named(refs, live0, gone)
    BY <1>15
  <2>2. /\ Unique(Standing(live0, refs, gone), Clear(D, gone))
        /\ Same(live0, Standing(live0, refs, gone), Clear(D, gone))
    BY <1>11, <1>14, <2>1, Shrunk
  <2> QED BY <1>19, <2>2
<1> HIDE DEF live
<1>21. /\ alive' = live /\ selected' = after
       /\ refs' = RemoveRefs(InsertRefs(rs, h.inserted, live), DOMAIN h.removed)
  <2>1. /\ alive' = (alive \cup h.created) \ h.killed /\ selected' = h.after
        /\ refs' = RemoveRefs(InsertRefs(rs, h.inserted, alive'), DOMAIN h.removed)
    BY <1>4, Zenon DEF DoIt
  <2>2. (alive \cup h.created) \ h.killed = live
    BY <1>3, <1>12, <1>16
  <2> QED BY <1>3, <2>1, <2>2
<1>22. /\ Here' = s1 /\ s1 \ selected = I /\ selected \ s1 = R
       /\ selected \cap Prims = selected /\ after \cap Prims = s1
  BY <1>7, <1>9, <1>21 DEF Here
<1> HIDE DEF s1
<1>23. E \subseteq D /\ UpAll(selected \cup needed) = Reasons /\ UpAll(I) \subseteq E
       /\ D \subseteq UpAll(selected \cup s1 \cup needed) /\ I \subseteq UpAll(I)
       /\ R \subseteq Reasons
  <2>1. E \subseteq D
    BY <1>19 DEF Clear
  <2>2. UpAll(selected \cup needed) = Reasons
    BY <1>7 DEF Reasons
  <2>3. UpAll(I) \subseteq E
    BY <1>9 DEF UpAll, s1
  <2>4. D \subseteq UpAll(selected \cup s1 \cup needed)
    BY <1>7 DEF Reasons, UpAll, s1
  <2>5. I \subseteq UpAll(I) /\ selected \subseteq UpAll(selected)
    BY <1>7, <1>10, UpAllFacts
  <2>6. R \subseteq Reasons
    BY <1>7, <1>9, <2>5 DEF Reasons, UpAll
  <2> QED BY <2>1, <2>2, <2>3, <2>4, <2>5, <2>6
<1>24. Named(rs, live, D \cap E)
  BY <1>11, <1>20, <1>23 DEF Named, Same
<1>25. h.inserted = NodesOf(I, live)
  <2>1. \A p \in I : rs[p].node = At(live, p)
    BY <1>23, <1>24 DEF Named
  <2> QED BY <1>3, <2>1 DEF NodesOf
<1>26. removed = NodesOf(R, alive)
  <2>1. \A p \in R : refs[p].node = At(alive, p)
    BY <1>6, <1>23, StateFacts DEF Named
  <2>2. \A n \in alive : At(alive, n.path) = n
    BY <1>6, StateFacts, AtIs
  <2>3. CASE removed = [p \in R |-> refs[p].node]
    BY <2>1, <2>3 DEF NodesOf
  <2>4. CASE removed \in {[p \in R |-> last] : last \in alive \cup {Other}}
    <3>1. PICK last \in alive \cup {Other} : removed = [p \in R |-> last]
      BY <2>4
    <3>2. \A p \in R : last # Other /\ last.path = p
      BY <1>17, <3>1
    <3>3. \A p \in R : last = At(alive, p)
      BY <2>2, <3>2
    <3> QED BY <3>1, <3>3 DEF NodesOf
  <2> QED BY <2>3, <2>4 DEF Recorded
<1> HIDE DEF E, D
<1>27. Swaps(rs, D, selected, s1, needed, live)
  <2>1. UpAll(selected \cup needed) \subseteq D
    BY <1>23 DEF D
  <2>2. Unique(live, UpAll(s1 \cup needed)) /\ Named(rs, live, D \cap UpAll(s1 \cup needed))
    BY <1>20, <1>24 DEF E
  <2> QED BY <1>7, <1>10, <1>11, <1>23, <2>1, <2>2 DEF Swaps
<1>28. refs' = RefsOf(live, s1, needed)
  <2>1. DOMAIN h.removed = R
    BY <1>3, <1>26 DEF NodesOf
  <2>2. RemoveRefs(InsertRefs(rs, NodesOf(s1 \ selected, live), live), selected \ s1)
          = RefsOf(live, s1, needed)
    BY <1>27, SwappedGives
  <2> QED BY <1>21, <1>22, <1>25, <2>1, <2>2
<1>29. h.created = live \ alive /\ h.killed = alive \ live
  <2>1. \A n \in made : n.path \in M
    <3>1. \A q \in M : rs[q].node = At(live0, q) /\ q \in D
      BY <1>11 DEF Named, D
    <3>2. \A q \in M : rs[q].node.path = q
      BY <1>11, <3>1, AtFacts
    <3> QED BY <3>2 DEF made
  <2>2. \A n \in alive : n.path \in Reasons
    BY <1>6, StateFacts DEF Unique
  <2>3. made \cap alive = {}
    BY <1>11, <2>1, <2>2
  <2> QED BY <1>3, <1>12, <1>16, <1>17, <2>3
<1>30. Leads(h, alive, live, selected, after, needed)
  <2>1. Unique(alive, UpAll((selected \cap Prims) \cup needed))
    BY <1>6, <1>22, <1>23, StateFacts
  <2>2. Unique(live, UpAll((after \cap Prims) \cup needed))
    BY <1>20, <1>22 DEF E
  <2>3. Same(alive, live, UpAll((selected \cap Prims) \cup needed)
                            \cap UpAll((after \cap Prims) \cup needed))
    BY <1>11, <1>20, <1>22, <1>23 DEF Same, E
  <2>4. /\ h.inserted = NodesOf((after \cap Prims) \ (selected \cap Prims), live)
        /\ h.removed = NodesOf((selected \cap Prims) \ (after \cap Prims), alive)
    BY <1>3, <1>22, <1>25, <1>26
  <2> QED BY <1>3, <1>29, <2>1, <2>2, <2>3, <2>4 DEF Leads
<1>31. alive \in SUBSET Nodes /\ live \in SUBSET Nodes
  BY <1>6, <1>20, StateFacts DEF Unique
<1>32. h \in Helpers
  <2>1. h.inserted \in [I -> Nodes]
    <3>1. \A p \in I : At(live, p) \in Nodes
      BY <1>20, <1>23, AtFacts
    <3> QED BY <1>25, <3>1 DEF NodesOf
  <2>2. h.removed \in [R -> Nodes]
    <3>1. \A p \in R : At(alive, p) \in Nodes
      BY <1>6, <1>23, StateFacts, AtFacts
    <3> QED BY <1>3, <1>26, <3>1 DEF NodesOf
  <2>3. I \in SUBSET Paths /\ R \in SUBSET Paths
    BY <1>7, <1>9, <1>10
  <2>4. /\ h.inserted \in UNION {[T -> Nodes] : T \in SUBSET Paths}
        /\ h.removed \in UNION {[T -> Nodes] : T \in SUBSET Paths}
    BY <2>1, <2>2, <2>3
  <2>5. h.before \in SUBSET Paths /\ h.after \in SUBSET Paths
    BY <1>3, <1>7, <1>9
  <2>6. h.created \in SUBSET Nodes /\ h.killed \in SUBSET Nodes
    BY <1>29, <1>31
  <2> QED BY <1>3, <2>4, <2>5, <2>6 DEF Helpers
<1>33. History'
  <2>1. done \in Seq(Helpers) /\ undone \in Seq(Helpers)
    BY <1>6 DEF StateInv
  <2>2. Hist(done, undone, alive, selected, needed)
    BY <1>6 DEF History
  <2>3. Hist(Append(done, h), << >>, live, after, needed)
    BY <1>9, <1>30, <1>31, <1>32, <2>1, <2>2, HistoryGrows
  <2> QED BY <1>1, <1>4, <1>21, <2>3 DEF History
<1>34. StateInv'
  <2>1. done' \in Seq(Helpers) /\ undone' \in Seq(Helpers)
    BY <1>4, <1>6, <1>32, AppendFacts DEF StateInv
  <2>2. needed \subseteq Schema
    BY <1>6 DEF StateInv
  <2>3. Unique(live, UpAll(s1 \cup needed))
    BY <1>20 DEF E
  <2> QED BY <1>1, <1>9, <1>21, <1>22, <1>28, <2>1, <2>2, <2>3 DEF StateInv
<1> QED BY <1>33, <1>34 DEF Good

-----------------------------------------------------------------------------
(***************************************************************************)
(* Requiring, and the theorems.                                            *)
(***************************************************************************)
LEMMA BelowOne ==
  ASSUME NEW p, NEW q
  PROVE  Cardinality(Below({p}, q)) = IF q \in Up(p) THEN 1 ELSE 0
<1>1. Below({p}, q) = IF q \in Up(p) THEN {p} ELSE {}
  BY DEF Below
<1>2. Cardinality({p}) = 1 /\ Cardinality({}) = 0
  BY FS_Singleton, FS_EmptySet
<1> QED BY <1>1, <1>2

\* A map whose entries are as they should be is the map of its nodes.
LEMMA CountedIs ==
  ASSUME NEW rs, NEW s, NEW req, NEW live,
         Counted(rs, UpAll(s \cup req), s, req), Named(rs, live, UpAll(s \cup req))
  PROVE  rs = RefsOf(live, s, req)
BY DEF Counted, Named, RefsOf

LEMMA RequireKeeps ==
  ASSUME Good, ~Switching, NEW p \in Paths, Require(p)
  PROVE  Good'
<1> DEFINE M == Missing({p})
           rs == WithNodes(refs, M)
           live == And(alive, rs, M)
           req == needed \cup {p}
           D == Reasons \cup UpAll({p})
<1>1. /\ done = << >> /\ undone = << >> /\ p \in Schema \ needed /\ CanMake(M)
      /\ refs' = [q \in DOMAIN rs |->
                    IF q \in Up(p) THEN [rs[q] EXCEPT !.required = @ + 1] ELSE rs[q]]
      /\ alive' = live /\ needed' = req
      /\ UNCHANGED <<selected, done, undone>>
  BY Zenon DEF Require, Settled, And
<1>2. StateInv /\ {p} \in SUBSET Paths
  BY DEF Good
<1>3. /\ D \in SUBSET Paths /\ Counted(rs, D, Here, needed) /\ Unique(live, D)
      /\ Named(rs, live, D)
  BY <1>1, <1>2, Makes
<1> HIDE DEF M, rs, live
<1>4. /\ D = UpAll(Here \cup req) /\ Here' = Here
      /\ needed \in SUBSET Paths /\ {p} \cap needed = {} /\ req \subseteq Schema
  <2>1. D = UpAll(Here \cup req)
    BY DEF Reasons, UpAll
  <2> QED BY <1>1, <1>2, <2>1, StateFacts DEF Here, StateInv
<1>5. ASSUME NEW q
      PROVE  Cardinality(Below(req, q))
               = Cardinality(Below(needed, q)) + (IF q \in Up(p) THEN 1 ELSE 0)
  <2>1. Cardinality(Below(needed \cup {p}, q))
          = Cardinality(Below(needed, q)) + Cardinality(Below({p}, q))
    BY <1>2, <1>4, BelowUnion
  <2> QED BY <2>1, BelowOne
<1> HIDE DEF req, D
<1>6. ASSUME NEW q \in D
      PROVE  /\ refs'[q] = [node |-> rs[q].node, required |-> Cardinality(Below(req, q)),
                            selected |-> Cardinality(Below(Here, q))]
             /\ refs'[q].node = rs[q].node
  <2> DEFINE a == Cardinality(Below(needed, q))
             b == Cardinality(Below(Here, q))
             r == [node |-> rs[q].node, required |-> a, selected |-> b]
  <2>1. rs[q] = r /\ q \in DOMAIN rs
    BY <1>3 DEF Counted
  <2>2. [r EXCEPT !.required = @ + 1] = [node |-> rs[q].node, required |-> a + 1, selected |-> b]
    <3> HIDE DEF a, b
    <3> QED OBVIOUS
  <2>3. refs'[q] = IF q \in Up(p) THEN [r EXCEPT !.required = @ + 1] ELSE r
    <3> HIDE DEF r
    <3> QED BY <1>1, <2>1
  <2>4. a \in Nat
    BY <1>4, BelowFacts
  <2>5. Cardinality(Below(req, q)) = IF q \in Up(p) THEN a + 1 ELSE a
    <3> HIDE DEF a
    <3>1. Cardinality(Below(req, q)) = a + (IF q \in Up(p) THEN 1 ELSE 0)
      BY <1>5 DEF a
    <3> QED BY <2>4, <3>1
  <2> HIDE DEF a
  <2>6. refs'[q] = [node |-> rs[q].node, required |-> Cardinality(Below(req, q)),
                  selected |-> Cardinality(Below(Here, q))]
    <3>1. CASE q \in Up(p)
      BY <2>2, <2>3, <2>5, <3>1
    <3>2. CASE q \notin Up(p)
      BY <2>3, <2>5, <3>2
    <3> QED BY <3>1, <3>2
  <2> QED BY <2>6
<1>7. refs' = [q \in D |-> refs'[q]]
  <2>1. DOMAIN rs = D
    BY <1>3 DEF Counted
  <2> QED BY <1>1, <2>1
<1>8. Counted(refs', D, Here, req) /\ Named(refs', live, D)
  <2>1. \A q \in D : refs'[q].node = rs[q].node
    BY <1>6
  <2> QED BY <1>3, <1>6, <1>7, <2>1 DEF Counted, Named
<1>9. refs' = RefsOf(live, Here, req)
  BY <1>4, <1>8, CountedIs
<1>10. StateInv'
  BY <1>1, <1>2, <1>3, <1>4, <1>9 DEF StateInv
<1>11. History'
  <2>1. live \in SUBSET Nodes /\ selected \in SUBSET Paths
    BY <1>2, <1>3 DEF Unique, StateInv
  <2> QED BY <1>1, <2>1, HistoryStarts DEF History
<1> QED BY <1>10, <1>11 DEF Good

LEMMA UnrequireKeeps ==
  ASSUME Good, ~Switching, NEW p \in Paths, Unrequire(p)
  PROVE  Good'
<1> DEFINE rs == [q \in DOMAIN refs |->
                    IF q \in Up(p) THEN [refs[q] EXCEPT !.required = @ - 1] ELSE refs[q]]
           gone == {q \in Up(p) \cap DOMAIN rs : rs[q].required = 0 /\ rs[q].selected = 0}
           req == needed \ {p}
           E == UpAll(Here \cup req)
           live == Standing(alive, rs, gone)
<1>1. /\ done = << >> /\ undone = << >> /\ p \in needed
      /\ refs' = [q \in DOMAIN rs \ gone |-> rs[q]]
      /\ alive' = live /\ needed' = req
      /\ UNCHANGED <<selected, done, undone>>
  BY Zenon DEF Unrequire, Settled, Standing
<1>2. StateInv /\ {p} \in SUBSET needed
  BY <1>1 DEF Good
<1>3. /\ Here \in SUBSET Paths /\ needed \in SUBSET Paths /\ req \in SUBSET Paths
      /\ Reasons \in SUBSET Paths /\ Here' = Here /\ req \subseteq Schema
      /\ DOMAIN refs = Reasons /\ Unique(alive, Reasons)
      /\ Counted(refs, Reasons, Here, needed) /\ Named(refs, alive, Reasons)
  BY <1>1, <1>2, StateFacts DEF Here, StateInv
<1>4. ASSUME NEW q
      PROVE  Cardinality(Below(req, q))
               = Cardinality(Below(needed, q)) - (IF q \in Up(p) THEN 1 ELSE 0)
  <2>1. Cardinality(Below(needed \ {p}, q))
          = Cardinality(Below(needed, q)) - Cardinality(Below({p}, q))
    BY <1>2, <1>3, BelowMinus
  <2> QED BY <2>1, BelowOne
<1>5. DOMAIN rs = Reasons
  BY <1>3
<1> DEFINE R(q) == rs[q]
<1>6. ASSUME NEW q \in Reasons
      PROVE  /\ rs[q] = [node |-> refs[q].node, required |-> Cardinality(Below(req, q)),
                         selected |-> Cardinality(Below(Here, q))]
             /\ rs[q].node = refs[q].node
             /\ rs[q].required = Cardinality(Below(req, q))
             /\ rs[q].selected = Cardinality(Below(Here, q))
  <2> DEFINE a == Cardinality(Below(needed, q))
             b == Cardinality(Below(Here, q))
             r == [node |-> refs[q].node, required |-> a, selected |-> b]
  <2>1. refs[q] = r
    BY <1>3 DEF Counted
  <2>2. [r EXCEPT !.required = @ - 1] = [node |-> refs[q].node, required |-> a - 1, selected |-> b]
    <3> HIDE DEF a, b
    <3> QED OBVIOUS
  <2>3. rs[q] = IF q \in Up(p) THEN [r EXCEPT !.required = @ - 1] ELSE r
    <3> HIDE DEF r
    <3> QED BY <1>3, <2>1
  <2>4. a \in Nat
    BY <1>3, BelowFacts
  <2>5. Cardinality(Below(req, q)) = IF q \in Up(p) THEN a - 1 ELSE a
    <3> HIDE DEF a, req
    <3>1. Cardinality(Below(req, q)) = a - (IF q \in Up(p) THEN 1 ELSE 0)
      BY <1>4 DEF a
    <3> QED BY <2>4, <3>1
  <2> HIDE DEF a, req, rs
  <2>6. rs[q] = [node |-> refs[q].node, required |-> Cardinality(Below(req, q)),
                  selected |-> Cardinality(Below(Here, q))]
    <3>1. CASE q \in Up(p)
      BY <2>2, <2>3, <2>5, <3>1
    <3>2. CASE q \notin Up(p)
      BY <2>3, <2>5, <3>2
    <3> QED BY <3>1, <3>2
  <2> QED BY <2>6
<1> HIDE DEF rs
<1>7. ASSUME NEW q \in Reasons PROVE q \in gone <=> q \notin E
  <2>1. rs[q].required = Cardinality(Below(req, q)) /\ rs[q].selected = Cardinality(Below(Here, q))
    BY <1>6
  <2>2. q \in gone <=> q \in Up(p) /\ Below(req, q) = {} /\ Below(Here, q) = {}
    <3>1. Cardinality(Below(req, q)) = 0 <=> Below(req, q) = {}
      BY <1>3, BelowFacts
    <3>2. Cardinality(Below(Here, q)) = 0 <=> Below(Here, q) = {}
      BY <1>3, BelowFacts
    <3> QED BY <1>5, <2>1, <3>1, <3>2
  <2>3. q \in E <=> Below(req, q) # {} \/ Below(Here, q) # {}
    BY DEF UpAll, Below
  <2>4. q \in Up(p) \/ q \in E
    BY DEF Reasons, UpAll
  <2> QED BY <2>2, <2>3, <2>4
<1>8. E \subseteq Reasons /\ gone \subseteq Reasons
  BY <1>5 DEF Reasons, UpAll
<1>9. Named(rs, alive, gone)
  <2>1. \A q \in Reasons : rs[q].node = refs[q].node
    BY <1>6
  <2> HIDE DEF gone
  <2> QED BY <1>3, <1>8, <2>1 DEF Named
<1> HIDE DEF gone
<1>10. Clear(Reasons, gone) = E
  <2>1. ASSUME NEW x \in E PROVE Up(x) \cap gone = {}
    <3>1. Up(x) \subseteq E
      BY <1>3, <2>1, UpAllFacts
    <3> QED BY <1>7, <1>8, <3>1
  <2>2. ASSUME NEW x \in Reasons, x \notin E PROVE x \in Up(x) \cap gone
    BY <1>3, <1>7, <2>2, UpFacts
  <2> HIDE DEF E
  <2> QED BY <1>8, <2>1, <2>2 DEF Clear
<1>11. Unique(live, E) /\ Same(alive, live, E)
  <2>1. gone \in SUBSET Reasons
    BY <1>8
  <2>2. /\ Unique(Standing(alive, rs, gone), Clear(Reasons, gone))
        /\ Same(alive, Standing(alive, rs, gone), Clear(Reasons, gone))
    BY <1>3, <1>9, <2>1, Shrunk
  <2> QED BY <1>10, <2>2
<1> HIDE DEF live, R
<1>12. refs' = [q \in E |-> rs[q]]
  <2>1. DOMAIN rs \ gone = E
    BY <1>5, <1>7, <1>8
  <2> QED BY <1>1, <2>1
<1>13. Counted(refs', E, Here, req) /\ Named(refs', live, E)
  <2> HIDE DEF E, req
  <2>1. \A q \in E : refs'[q] = rs[q] /\ rs[q].node = refs[q].node
    <3>1. \A q \in Reasons : rs[q].node = refs[q].node
      BY <1>6
    <3> QED BY <1>8, <1>12, <3>1
  <2>2. \A q \in E : refs'[q] = [node |-> refs'[q].node, required |-> Cardinality(Below(req, q)),
                                selected |-> Cardinality(Below(Here, q))]
    BY <1>6, <1>8, <2>1
  <2>3. refs' = [q \in E |-> refs'[q]]
    BY <1>12
  <2>4. \A q \in E : refs[q].node = At(live, q)
    BY <1>3, <1>8, <1>11 DEF Named, Same
  <2> QED BY <2>1, <2>2, <2>3, <2>4 DEF Counted, Named
<1>14. refs' = RefsOf(live, Here, req)
  BY <1>13, CountedIs
<1>15. StateInv'
  BY <1>1, <1>2, <1>3, <1>11, <1>14 DEF StateInv
<1>16. History'
  <2>1. live \in SUBSET Nodes /\ selected \in SUBSET Paths
    BY <1>2, <1>11 DEF Unique, StateInv
  <2> QED BY <1>1, <2>1, HistoryStarts DEF History
<1> QED BY <1>15, <1>16 DEF Good

LEMMA InitGood == Init => RefsInv
<1> SUFFICES ASSUME Init PROVE Good /\ sound \in BOOLEAN
  BY DEF RefsInv, Good
<1>1. /\ refs = << >> /\ selected = {} /\ needed = {} /\ alive = {}
      /\ done = << >> /\ undone = << >> /\ sound = TRUE
  BY DEF Init
<1>2. Here \cup needed = {} /\ UpAll({}) = {}
  BY <1>1 DEF Here, UpAll
<1>3. Unique(alive, UpAll(Here \cup needed))
  BY <1>1, <1>2 DEF Unique
<1>4. refs = RefsOf(alive, Here, needed)
  <2>1. RefsOf(alive, Here, needed) = [q \in {} |->
           [node |-> At(alive, q), required |-> Cardinality(Below(needed, q)),
            selected |-> Cardinality(Below(Here, q))]]
    BY <1>2, Zenon DEF RefsOf
  <2>2. << >> = [q \in {} |->
           [node |-> At(alive, q), required |-> Cardinality(Below(needed, q)),
            selected |-> Cardinality(Below(Here, q))]]
    OBVIOUS
  <2> QED BY <1>1, <2>1, <2>2, Zenon
<1>5. History
  BY <1>1, HistoryStarts DEF History
<1>6. StateInv
  BY <1>1, <1>3, <1>4 DEF StateInv
<1> QED BY <1>1, <1>5, <1>6 DEF Good

LEMMA StepGood ==
  ASSUME ~Switching, RefsInv, [Next]_vars
  PROVE  RefsInv'
<1>1. sound' \in BOOLEAN /\ (sound' => sound)
  <2>0. sound \in BOOLEAN
    BY DEF RefsInv
  <2>1. ASSUME NEW mode, NEW paths, Select(mode, paths)
        PROVE  sound' \in BOOLEAN /\ (sound' => sound)
    <3>1. \E h : sound' = (sound /\ Sound(h))
      BY <2>1, Zenon DEF Select
    <3>2. PICK h : sound' = (sound /\ Sound(h))
      BY <3>1
    <3>3. Sound(h) \in BOOLEAN
      BY DEF Sound
    <3> HIDE DEF Sound
    <3> QED BY <2>0, <3>2, <3>3
  <2>2. CASE UNCHANGED sound
    BY <2>0, <2>2
  <2> QED BY <2>1, <2>2, Zenon
          DEF Next, vars, UndoSelect, RedoSelect, FlushUndo, Require, Unrequire
<1>2. SUFFICES ASSUME sound' PROVE Good'
  BY <1>1 DEF RefsInv, Good
<1>3. Good
  BY <1>1, <1>2 DEF RefsInv, Good
<1>4. ASSUME NEW mode \in Modes, NEW paths \in SUBSET Paths, Select(mode, paths)
      PROVE  Good'
  BY <1>2, <1>3, <1>4, SelectKeeps
<1>5. CASE UndoSelect
  BY <1>3, <1>5, UndoKeeps
<1>6. CASE RedoSelect
  BY <1>3, <1>6, RedoKeeps
<1>7. CASE FlushUndo
  BY <1>3, <1>7, FlushKeeps
<1>8. ASSUME NEW p \in Paths, Require(p) PROVE Good'
  BY <1>3, <1>8, RequireKeeps
<1>9. ASSUME NEW p \in Paths, Unrequire(p) PROVE Good'
  BY <1>3, <1>9, UnrequireKeeps
<1>10. CASE UNCHANGED vars
  BY <1>3, <1>10 DEF Good, StateInv, History, Here, vars, scene
<1> QED BY <1>4, <1>5, <1>6, <1>7, <1>8, <1>9, <1>10 DEF Next

\* The invariant: the map has the value that the transforms, the selected and the
\* required prims give it, and each command in the undo queue leads from one such
\* state to the next.
THEOREM RefsInvariant == ~Switching => (Spec => []RefsInv)
<1> SUFFICES ASSUME ~Switching PROVE Spec => []RefsInv
  OBVIOUS
<1>1. Init => RefsInv
  BY InitGood
<1>2. RefsInv /\ [Next]_vars => RefsInv'
  BY StepGood
<1> QED BY <1>1, <1>2, PTL DEF Spec

\* The counts of m_requiredPaths are those of the prims selected and required at or
\* below each path, after any number of selections, undos and redos.
THEOREM CountsCorrect == ~Switching => (Spec => []CountsMatch)
<1> SUFFICES ASSUME ~Switching PROVE Spec => []CountsMatch
  OBVIOUS
<1>1. RefsInv => CountsMatch
  <2> SUFFICES ASSUME StateInv
               PROVE  /\ DOMAIN refs = UpAll(Here \cup needed)
                      /\ \A p \in DOMAIN refs :
                           /\ refs[p].selected = Cardinality(Below(Here, p))
                           /\ refs[p].required = Cardinality(Below(needed, p))
    BY DEF RefsInv, CountsMatch
  <2>1. DOMAIN refs = UpAll(Here \cup needed)
    BY StateFacts DEF Reasons
  <2>2. ASSUME NEW p \in DOMAIN refs
        PROVE  /\ refs[p].selected = Cardinality(Below(Here, p))
               /\ refs[p].required = Cardinality(Below(needed, p))
    <3>1. refs[p] = [node |-> refs[p].node, required |-> Cardinality(Below(needed, p)),
                     selected |-> Cardinality(Below(Here, p))]
      BY <2>2, StateFacts DEF Counted
    <3> QED BY <3>1
  <2> QED BY <2>1, <2>2
<1> QED BY <1>1, RefsInvariant, PTL

\* The transforms of the chain of a required prim are there.
THEOREM RequiredStays == ~Switching => (Spec => []RequiredKept)
<1> SUFFICES ASSUME ~Switching PROVE Spec => []RequiredKept
  OBVIOUS
<1>1. RefsInv => RequiredKept
  <2> SUFFICES ASSUME StateInv, NEW p \in UpAll(needed)
               PROVE  p \in DOMAIN refs /\ refs[p].node \in alive /\ refs[p].node.path = p
    BY DEF RefsInv, RequiredKept
  <2>1. p \in Reasons
    BY DEF Reasons, UpAll
  <2>2. refs[p].node = At(alive, p)
    BY <2>1, StateFacts DEF Named
  <2> QED BY <2>1, <2>2, StateFacts, AtFacts
<1> QED BY <1>1, RefsInvariant, PTL

\* The map names the transforms in Maya, each once.
THEOREM OneNode == ~Switching => (Spec => []OneNodePerPath)
<1> SUFFICES ASSUME ~Switching PROVE Spec => []OneNodePerPath
  OBVIOUS
<1>1. RefsInv => OneNodePerPath
  <2> SUFFICES ASSUME StateInv
               PROVE  /\ alive = {refs[p].node : p \in DOMAIN refs}
                      /\ \A p \in DOMAIN refs : refs[p].node.path = p
    BY DEF RefsInv, OneNodePerPath
  <2>1. Unique(alive, Reasons) /\ DOMAIN refs = Reasons
    BY StateFacts
  <2>2. \A p \in Reasons : refs[p].node = At(alive, p)
    BY StateFacts DEF Named
  <2>3. \A p \in Reasons : At(alive, p).path = p
    BY <2>1, AtFacts
  <2>4. alive = {At(alive, p) : p \in Reasons}
    BY <2>1, LiveAt
  <2> QED BY <2>1, <2>2, <2>3, <2>4
<1> QED BY <1>1, RefsInvariant, PTL

\* The types, as long as every command was sound.
THEOREM TypesWhileSound == ~Switching => (Spec => [](sound => RefTypeOK))
<1> SUFFICES ASSUME ~Switching PROVE Spec => [](sound => RefTypeOK)
  OBVIOUS
<1>1. RefsInv => (sound => RefTypeOK)
  <2> SUFFICES ASSUME StateInv, sound \in BOOLEAN PROVE RefTypeOK
    BY DEF RefsInv
  <2>1. /\ DOMAIN refs = Reasons /\ Unique(alive, Reasons) /\ Reasons \in SUBSET Paths
        /\ Here \in SUBSET Paths /\ needed \in SUBSET Paths
    BY StateFacts
  <2>2. ASSUME NEW p \in DOMAIN refs
        PROVE  /\ refs[p].node \in Nodes \cup {Other}
               /\ refs[p].required \in Nat /\ refs[p].selected \in Nat
    <3>1. refs[p] = [node |-> refs[p].node, required |-> Cardinality(Below(needed, p)),
                     selected |-> Cardinality(Below(Here, p))]
      BY <2>2, StateFacts DEF Counted
    <3>2. refs[p].node = At(alive, p)
      BY <2>2, StateFacts DEF Named
    <3>3. At(alive, p) \in Nodes
      BY <2>1, <2>2, AtFacts
    <3>4. Cardinality(Below(needed, p)) \in Nat /\ Cardinality(Below(Here, p)) \in Nat
      BY <2>1, BelowFacts
    <3>5. /\ refs[p].required = Cardinality(Below(needed, p))
          /\ refs[p].selected = Cardinality(Below(Here, p))
      BY <3>1
    <3> QED BY <3>2, <3>3, <3>4, <3>5
  <2>3. \A h \in Range(done \o undone) : h \in Helpers
    <3>1. done \in Seq(Helpers) /\ undone \in Seq(Helpers)
      BY DEF StateInv
    <3>2. done \o undone \in Seq(Helpers)
      BY <3>1
    <3> QED BY <3>2 DEF Range
  <2>4. ASSUME NEW h \in Helpers PROVE HelperOK(h)
    <3>1. PICK S \in SUBSET Paths : h.inserted \in [S -> Nodes]
      BY DEF Helpers
    <3>2. PICK T \in SUBSET Paths : h.removed \in [T -> Nodes]
      BY DEF Helpers
    <3>3. /\ h.before \in SUBSET Paths /\ h.after \in SUBSET Paths
          /\ h.created \in SUBSET Nodes /\ h.killed \in SUBSET Nodes
      BY DEF Helpers
    <3>4. DOMAIN h.inserted \subseteq Paths /\ Range(h.inserted) \subseteq Nodes
      BY <3>1 DEF Range
    <3>5. DOMAIN h.removed \subseteq Paths /\ Range(h.removed) \subseteq Nodes \cup {Other}
      BY <3>2 DEF Range
    <3> QED BY <3>3, <3>4, <3>5 DEF HelperOK
  <2>5. selected \subseteq Paths /\ alive \subseteq Nodes
    BY <2>1 DEF StateInv, Unique
  <2> HIDE DEF StateInv
  <2> QED BY <2>1, <2>2, <2>3, <2>4, <2>5 DEF RefTypeOK
<1> QED BY <1>1, RefsInvariant, PTL

=============================================================================
