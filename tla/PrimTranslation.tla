--------------------------- MODULE PrimTranslation ---------------------------
(***************************************************************************)
(* The Maya nodes that translators make for the prims of a stage, and how  *)
(* a ProxyShape keeps them up to date as variants are switched.            *)
(*                                                                         *)
(*   source  plugin/al/lib/AL_USDMaya/AL/usdmaya/nodes/ProxyShape.cpp      *)
(*           (translatePrimsIntoMaya, variantSelectionListener,            *)
(*           onObjectsChanged), nodes/proxy/PrimFilter.cpp,                *)
(*           fileio/translators/TranslatorContext.cpp and                  *)
(*           cmds/ProxyShapePostLoadProcess.cpp                            *)
(*                                                                         *)
(* The shape hears of a switch twice: before the stage recomposes, when it *)
(* notes which translated prims may be affected, and after, when it        *)
(* compares them with what the stage has now and tears down, imports and   *)
(* updates.  In between it knows only m_changedPath and the list it noted. *)
(*                                                                         *)
(* A prim is a path and a type.  USD (external) composes any of the given  *)
(* stages, all loaded from one file: the shape's path does not change.  A  *)
(* translator makes one node per prim, inserts it in the context, and      *)
(* succeeds; its node is in the DAG just if it needs a transform.  Counts  *)
(* for selections are in module TransformRefs.                             *)
(***************************************************************************)
EXTENDS Naturals, Sequences, FiniteSets, SequencesExt, FiniteSetsExt, TLC

CONSTANTS
  Paths,        \* paths of prims
  Chain,        \* a path and its ancestors, from the path up
  Types,        \* types of prims with a translator
  Parented,     \* those whose nodes need a transform (needsTransformParent)
  Updating,     \* those that support update()
  Automatic,    \* those that are imported by default
  Plain,        \* the type of the other prims
  Absent,       \* no prim
  Unmerged,     \* prims whose parents are tagged as unmerged transforms
  Compositions, \* what the stage may be composed to
  NoPath,
  MaxRequired   \* bound: reasons to have a transform

ASSUME ChainAssumption ==
  /\ IsFiniteSet(Paths)
  /\ Chain \in [Paths -> Seq(Paths)]
  /\ \A p \in Paths :
       /\ Chain[p] # << >> /\ Chain[p][1] = p
       /\ Len(Chain[p]) > 1 => Tail(Chain[p]) = Chain[Chain[p][2]]
ASSUME TypesAssumption ==
  /\ Parented \subseteq Types /\ Updating \subseteq Types /\ Automatic \subseteq Types
  /\ Plain \notin Types /\ Absent \notin Types \cup {Plain} /\ NoPath \notin Paths
ASSUME CompositionsAssumption ==
  /\ Compositions \subseteq [Paths -> Types \cup {Plain, Absent}]
  /\ \A s \in Compositions, p \in Paths :
       s[p] # Absent => \A q \in Range(Chain[p]) : s[q] # Absent
\* What is exported unmerged is a shape: no prim is below one.
ASSUME UnmergedAssumption ==
  \A u \in Unmerged : Len(Chain[u]) > 1 /\ \A p \in Paths \ {u} : u \notin Range(Chain[p])

VARIABLES
  stage,     \* the types of the prims
  entries,   \* m_primMapping: for a prim its type, and whether its node is in
             \* the transforms below the shape
  made,      \* the types of the nodes that translators have made for a prim
  required,  \* the kRequired counts of m_requiredPaths, 0 for no transform
  changed,   \* m_changedPath, if m_compositionHasChanged
  switched   \* m_variantSwitchedPrims

shape == <<entries, made, required>>
vars  == <<stage, shape, changed, switched>>

Up(p)       == Range(Chain[p])
Below(S, p) == {q \in S : p \in Up(q)}
Prims(s)    == {p \in Paths : s[p] # Absent}

\* The prim whose transform the nodes of p are parented to.
Holder(p) == IF p \in Unmerged THEN Chain[p][2] ELSE p

-----------------------------------------------------------------------------
(***************************************************************************)
(* translatePrimsIntoMaya: import some prims of stage s, tear down some    *)
(* paths.  It starts with the PrimFilter.                                  *)
(***************************************************************************)
KnownAs(es, s, p) == p \in DOMAIN es /\ es[p].type = s[p]

Updatable(es, s, imports, removed) ==
  {p \in imports \cap removed : KnownAs(es, s, p) /\ s[p] \in Updating}

\* Mutant: prims that are new under their path are all there is to import.
NewPaths(es, s, imports) == {p \in imports : p \notin DOMAIN es}

NewPrims(es, s, imports) == {p \in imports : ~KnownAs(es, s, p)}

\* All that need a transform, except those to update.
NeedTransform(es, s, imports, removed) ==
  {p \in imports \ Updatable(es, s, imports, removed) : s[p] \in Parented}

TornDown(es, s, imports, removed) == removed \ Updatable(es, s, imports, removed)

\* Mutant: every node is taken to be below the shape's transform.
InChainAny(es, S) == S

\* isPrimInTransformChain.
InChain(es, S) == {p \in S : es[p].chained}

\* makeUsdTransformChain and insertTransformRefs for each of a set of prims,
\* removeUsdTransformChain for each of another.
Reasons(rq, more) == [q \in Paths |-> rq[q] + Cardinality({p \in more : q \in Up(Holder(p))})]

Counted(rq, more, less) ==
  [q \in Paths |-> LET sum == Reasons(rq, more)[q]
                       off == Cardinality(Below(less, q))
                   IN  IF off > sum THEN 0 ELSE sum - off]

\* Mutant: the entry is left, for the translator has removed it.
RemovedByTranslator(es, S) == [p \in {q \in DOMAIN es : q \notin S \/ es[q].chained} |-> es[p]]

\* removeEntries: the entry goes in any case, the node if there is a translator
\* for the type the context has.  A transform goes with what is below it.
Removed(es, S) == [p \in DOMAIN es \ S |-> es[p]]

Unloaded(es, nodes, S, rq) ==
  [p \in Paths |-> IF p \in S /\ es[p].type \in Types THEN {}
                   ELSE IF rq[Holder(p)] = 0 THEN nodes[p] \ Parented
                   ELSE nodes[p]]

\* createSchemaPrims.
Imported(s, S, force) == {p \in S : s[p] \in (IF force THEN Types ELSE Automatic)}

\* An entry that is there is left, with one more node.
Registered(es, s, S) ==
  [p \in DOMAIN es \cup S |->
     LET parented == p \in S /\ s[p] \in Parented
     IN  IF p \in DOMAIN es THEN [es[p] EXCEPT !.chained = @ \/ parented]
         ELSE [type |-> s[p], chained |-> parented]]

\* Mutant: the entries of prims that are gone are not erased.
RetypedGone(es, s) == [p \in DOMAIN es |-> [es[p] EXCEPT !.type = s[p]]]

\* updatePrimTypes.
Retyped(es, s) == [p \in DOMAIN es \cap Prims(s) |-> [es[p] EXCEPT !.type = s[p]]]

TranslatePrims(s, imports, removed, force) ==
  LET more == NeedTransform(entries, s, imports, removed)
      gone == TornDown(entries, s, imports, removed) \cap DOMAIN entries
      new  == Imported(s, NewPrims(entries, s, imports), force)
      left == Unloaded(entries, made, gone, required')
  IN  /\ \A q \in Paths : Reasons(required, more)[q] <= MaxRequired
      /\ required' = Counted(required, more, InChain(entries, gone))
      /\ entries'  = Retyped(Registered(Removed(entries, gone), s, new), s)
      /\ made'     = [p \in Paths |-> left[p] \cup (IF p \in new THEN {s[p]} ELSE {})]

-----------------------------------------------------------------------------
(***************************************************************************)
(* What the shape does when it hears of changes.                           *)
(***************************************************************************)
\* variantSelectionListener: one path is kept, in an order that depends on the
\* change list; the entries below each are noted.
ChangedWith(first) == IF changed = NoPath THEN first ELSE changed
SwitchedWith(P)    == switched \cup UNION {Below(DOMAIN entries, p) : p \in P}

\* huntForNativeNodesUnderPrim.
Hunted(s, path) == {p \in Below(Prims(s), path) : s[p] \in Automatic}

\* onPrimResync: nothing, if the prim is gone.
Resync(s, path, noted) ==
  IF s[path] = Absent THEN UNCHANGED shape
  ELSE TranslatePrims(s, Hunted(s, path), noted, FALSE)

\* onObjectsChanged, with what was noted before and by this change.
ObjectsChanged(s, path, noted) ==
  /\ IF path = NoPath THEN UNCHANGED shape ELSE Resync(s, path, noted)
  /\ changed' = NoPath /\ switched' = {}

\* Variants of the prims P, or whether they are active, are changed in one
\* block: the listener, the new composition, and onObjectsChanged.
Differs(s) == {p \in Paths : s[p] # stage[p]}

Switch(P, first, s) ==
  /\ first \in P /\ P \subseteq Prims(stage)
  /\ \A p \in Differs(s) : Up(p) \cap P # {}
  /\ stage' = s
  /\ ObjectsChanged(s, ChangedWith(first), SwitchedWith(P))

\* The listener hears the layers of every stage: a variant of a prim at one of
\* these paths is switched in another stage.
SwitchElsewhere(P, first) ==
  /\ first \in P
  /\ changed' = ChangedWith(first) /\ switched' = SwitchedWith(P)
  /\ UNCHANGED <<stage, shape>>

\* AL_usdmaya_ProxyShapeResync.
PrimChangedAtPath(p) ==
  /\ stage[p] # Absent
  /\ changed' = p /\ switched' = SwitchedWith({p})
  /\ UNCHANGED <<stage, shape>>

\* An edit of another kind: prims are defined, removed or get another type.
Edit(s) ==
  /\ stage' = s
  /\ ObjectsChanged(s, changed, switched)

\* Any change while Maya reads a file: both functions return at once.
ChangeUnheard(s) ==
  /\ stage' = s
  /\ UNCHANGED <<shape, changed, switched>>

\* AL_usdmaya_TranslatePrim.
TranslatePrim(imports, teardowns, force) ==
  /\ TranslatePrims(stage, imports \cap Prims(stage), teardowns, force)
  /\ UNCHANGED <<stage, changed, switched>>

-----------------------------------------------------------------------------
\* The shape when its stage has been loaded: ProxyShapePostLoadProcess.
Init ==
  /\ stage \in Compositions
  /\ LET first == {p \in Paths : stage[p] \in Automatic}
         none  == [p \in Paths |-> 0]
     IN  /\ required = Counted(none, {p \in first : stage[p] \in Parented}, {})
         /\ entries = Registered(<< >>, stage, first)
         /\ made = [p \in Paths |-> IF p \in first THEN {stage[p]} ELSE {}]
  /\ changed = NoPath /\ switched = {}

Next ==
  \/ \E s \in Compositions :
       \/ \E P \in SUBSET Paths, first \in Paths : Switch(P, first, s)
       \/ Edit(s)
       \/ ChangeUnheard(s)
  \/ \E P \in SUBSET Paths, first \in Paths : SwitchElsewhere(P, first)
  \/ \E p \in Paths : PrimChangedAtPath(p)
  \/ \E imports, teardowns \in SUBSET Paths, force \in BOOLEAN :
       TranslatePrim(imports, teardowns, force)

Spec == Init /\ [][Next]_vars

-----------------------------------------------------------------------------
(***************************************************************************)
(* Properties.                                                             *)
(***************************************************************************)
\* The context has prims that were on the stage when it last looked.
TranslationTypeOK ==
  /\ stage \in Compositions
  /\ DOMAIN entries \subseteq Paths
  /\ entries \in [DOMAIN entries -> [type : Types \cup {Plain}, chained : BOOLEAN]]
  /\ made \in [Paths -> SUBSET Types]
  /\ required \in [Paths -> Nat]
  /\ changed \in Paths \cup {NoPath} /\ switched \subseteq Paths

\* A transform has a reason for each translated node that stands on it: no
\* order of switches, edits and translations deletes a transform from under a
\* node the context knows.
RequiredCovers ==
  \A q \in Paths :
    required[q] >= Cardinality({p \in DOMAIN entries : entries[p].chained /\ q \in Up(Holder(p))})

\* The context has no entry for a prim without a node, as update() and
\* tearDown() look for one.
EntriesHaveNodes == \A p \in DOMAIN entries : made[p] # {}

\* What a switch below p and nothing else makes the shape do.
Steady(q) == made[q] = IF q \in DOMAIN entries THEN {entries[q].type} ELSE {}

AloneSwitched(p) == changed = NoPath /\ Switch({p}, p, stage') /\ stage'[p] # Absent

Unchanged(q) == KnownAs(entries, stage', q) /\ stage'[q] \in Automatic

\* After a switch below a prim, all prims there that are imported by default
\* have one node, of the type they have now, and none of the others has any:
\* whatever edits, translations and half-heard switches came before, if the
\* context was right about the prim.  (Not so for what has not changed and
\* has no update.)
Resynced ==
  [][\A p \in Paths : AloneSwitched(p) =>
       \A q \in Below(Paths, p) :
         Steady(q) /\ ~(Unchanged(q) /\ stage'[q] \notin Updating) =>
           /\ q \in DOMAIN entries' <=> stage'[q] \in Automatic
           /\ made'[q] = IF stage'[q] \in Automatic THEN {stage'[q]} ELSE {}]_vars

\* docpages/docs_translator_plugins.h:310: a node whose translator does not support
\* update "will always be destroyed (via tear down), before being re-imported".
Reimported ==
  [][\A p \in Paths : AloneSwitched(p) =>
       \A q \in Below(Paths, p) :
         Steady(q) /\ Unchanged(q) => q \in DOMAIN entries' /\ made'[q] = {stage'[q]}]_vars

=============================================================================
