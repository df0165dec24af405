--------------------------- MODULE TransformRefs ---------------------------
(***************************************************************************)
(* The Maya transforms a ProxyShape makes for USD prims, while a prim is   *)
(* selected or a translator requires it, and the undo of selections.       *)
(*                                                                         *)
(*   source  plugin/al/lib/AL_USDMaya/AL/usdmaya/nodes/                    *)
(*           ProxyShapeSelection.cpp, ProxyShape.h (TransformReference)    *)
(*           and cmds/ProxyShapeCommands.cpp (ProxyShapeSelect)            *)
(*                                                                         *)
(* A prim's transform stands on those of its ancestors, so every reason to *)
(* have it counts on the whole chain.  m_requiredPaths keeps the counts; a *)
(* selection first works out which nodes to make and to delete, on a copy  *)
(* of the counts (m_selectedTemp), and then makes, deletes and counts, as  *)
(* often as Maya undoes and redoes the command.                            *)
(*                                                                         *)
(* A node is named by its prim and a number.  Maya (external) brings back  *)
(* the nodes themselves when it undoes a deletion, and deletes the nodes   *)
(* below a node with it.  Users select in Maya what they like at any time, *)
(* so its selection list, which a command reads and sets, is no variable;  *)
(* commands with -internal, the answer to such a selection, differ in      *)
(* nothing else.                                                           *)
(***************************************************************************)
EXTENDS Integers, Sequences, FiniteSets, SequencesExt

CONSTANTS
  Paths,       \* paths of prims
  Prims,       \* those that the stage has
  Schema,      \* those with a translator that needs a transform
  Chain,       \* a path and its ancestors, from the path up
  Modes,       \* ways of selecting: "replace", "add", "remove", "toggle"
  Other,       \* a node in Maya's scene that belongs to no prim
  Switching,   \* whether variants may be switched while selections can be undone
  MaxNodes,    \* bound: nodes of a prim that something remembers
  MaxQueue     \* bound: selections to be undone and redone

ASSUME PathsAssumption ==
  /\ IsFiniteSet(Paths) /\ Prims \subseteq Paths /\ Schema \subseteq Prims
\* The ancestors of an ancestor are ancestors; those of a prim are prims.
ASSUME ChainAssumption ==
  /\ Chain \in [Paths -> Seq(Paths)]
  /\ \A p \in Paths :
       /\ Chain[p] # << >> /\ Chain[p][1] = p
       /\ \A q \in Range(Chain[p]) : /\ Range(Chain[q]) \subseteq Range(Chain[p])
                                     /\ p \in Prims => q \in Prims
ASSUME SwitchingAssumption == Switching \in BOOLEAN

VARIABLES
  refs,      \* m_requiredPaths, for kRequired and kSelection
  selected,  \* m_selectedPaths
  needed,    \* the prims whose translators required a transform
  alive,     \* the transforms in Maya's scene
  done,      \* selections Maya can undo ...
  undone,    \* ... and redo
  sound      \* whether every selection so far satisfied Sound

scene == <<refs, selected, alive>>
vars  == <<scene, needed, done, undone, sound>>

Nodes == [path : Paths, n : 1..MaxNodes]

ASSUME OtherAssumption == Other \notin Nodes

Up(p)       == Range(Chain[p])
Below(S, q) == {p \in S : q \in Up(p)}
UpAll(S)    == UNION {Up(p) : p \in S}

\* A node goes with itself and with each node it may stand on.
GoesWith(n, node) ==
  \/ n = node
  \/ node # Other /\ node.path # n.path /\ node.path \in Up(n.path)

-----------------------------------------------------------------------------
\* Nodes with names nothing remembers.
Known ==
  alive \cup {refs[p].node : p \in DOMAIN refs} \cup
  UNION {h.created \cup Range(h.inserted) \cup Range(h.removed) : h \in Range(done \o undone)}

NewNode(p, known) ==
  [path |-> p, n |-> CHOOSE n \in 1..MaxNodes : [path |-> p, n |-> n] \notin known]

CanMake(S) ==
  LET known == Known
  IN  \A p \in S : \E n \in 1..MaxNodes : [path |-> p, n |-> n] \notin known

\* makeUsdTransformChain: nodes for the part of the chains that has none.
Missing(S) == UpAll(S) \ DOMAIN refs

WithNodes(rs, S) ==
  LET known == Known
  IN  [q \in S \cup DOMAIN rs |->
         IF q \in S THEN [node |-> NewNode(q, known), required |-> 0, selected |-> 0]
         ELSE rs[q]]

\* The DAG path of a node, i levels up.
NodeAbove(node, i, live) ==
  IF i = 1 THEN node
  ELSE IF node = Other \/ i > Len(Chain[node.path]) THEN Other
  ELSE CHOOSE m \in live : m.path = Chain[node.path][i]

\* Mutant: a chain that is there already is not counted.
InsertedOnlyNew(rs, given, live) ==
  [q \in DOMAIN rs |-> [rs[q] EXCEPT !.selected =
     IF @ > 0 THEN @ ELSE Cardinality(Below(DOMAIN given, q))]]

\* insertTransformRefs: each chain is counted; where the map has no entry it
\* gets the node of the DAG path of the given node, if that is alive.
InsertRefs(rs, given, live) ==
  LET valid == {p \in DOMAIN given : given[p] \in live \cup {Other}}
      Node(q) == LET p == CHOOSE p \in valid : q \in Up(p)
                     i == CHOOSE i \in 1..Len(Chain[p]) : Chain[p][i] = q
                 IN  NodeAbove(given[p], i, live)
  IN  [q \in DOMAIN rs \cup UpAll(valid) |->
         IF q \in DOMAIN rs
         THEN [rs[q] EXCEPT !.selected = @ + Cardinality(Below(DOMAIN given, q))]
         ELSE [node |-> Node(q), required |-> 0,
               selected |-> Cardinality(Below(valid, q))]]

\* removeTransformRefs: the chains of those that are prims are counted off;
\* an entry without a reason goes.
RemoveRefs(rs, S) ==
  LET Left(q) == rs[q].selected - Cardinality(Below(S \cap Prims, q))
      Kept == {q \in DOMAIN rs : \/ Below(S \cap Prims, q) = {}
                                 \/ Left(q) > 0 \/ rs[q].required > 0}
  IN  [q \in Kept |-> [rs[q] EXCEPT !.selected = Left(q)]]

\* Commands that recorded each removed node under its own prim, and made no node
\* below one they delete.  The code has others.
Sound(h) ==
  /\ \A p \in DOMAIN h.removed : h.removed[p] # Other /\ h.removed[p].path = p
  /\ \A n \in h.killed : n \notin h.created /\ n.path \notin UpAll(DOMAIN h.inserted)

-----------------------------------------------------------------------------
(***************************************************************************)
(* doSelect.  Replacing by nothing is removing everything.                 *)
(***************************************************************************)
Inserted(mode, S) == IF mode = "remove" THEN {} ELSE (S \cap Prims) \ selected

Removed(mode, S) ==
  CASE mode = "replace" -> selected \ (S \cap Prims)
    [] mode = "add"     -> {}
    [] OTHER            -> selected \cap S \cap Prims

SelectedAfter(mode, S) ==
  CASE mode = "add" -> selected \cup S
    [] OTHER        -> (selected \ Removed(mode, S)) \cup Inserted(mode, S)

Refused(mode, S) ==
  CASE mode = "add"    -> FALSE
    [] mode = "remove" -> Removed(mode, S) = {}
    [] OTHER           -> S \cap Prims = {}

\* Mutant: what a translator requires is deleted too.
DeletedRequired(R, I) ==
  {q \in UpAll(R) \cap DOMAIN refs :
     refs[q].selected + Cardinality(Below(I, q)) = Cardinality(Below(R, q))}

\* removeUsdTransformChain_internal, for chains R after I was counted: the nodes
\* to which no reason is left.
Deleted(R, I) ==
  {q \in UpAll(R) \cap DOMAIN refs :
     /\ refs[q].required = 0
     /\ refs[q].selected + Cardinality(Below(I, q)) = Cardinality(Below(R, q))}

\* What is kept for the undo.  Removing and toggling look for the node in Maya's
\* selection list, and `object` ends as the last node of the list, if any.
Recorded(mode, R) ==
  LET own == [p \in R |-> refs[p].node]
  IN  IF mode = "replace" THEN {own}
      ELSE {own} \cup {[p \in R |-> last] : last \in alive \cup {Other}}

(***************************************************************************)
(* SelectionUndoHelper::doIt and undoIt.                                   *)
(***************************************************************************)
DoIt(h, rs) ==
  LET live == (alive \cup h.created) \ h.killed
  IN  /\ alive' = live
      /\ refs' = RemoveRefs(InsertRefs(rs, h.inserted, live), DOMAIN h.removed)
      /\ selected' = h.after

\* Mutant: the removed references are not inserted again.
UndoneHalf(h, live) == RemoveRefs(refs, DOMAIN h.inserted)

UndoneRefs(h, live) ==
  RemoveRefs(InsertRefs(refs, h.removed, live), DOMAIN h.inserted)

UndoIt(h) ==
  LET live == (alive \ h.created) \cup (h.killed \ h.created)
  IN  /\ alive' = live
      /\ refs' = UndoneRefs(h, live)
      /\ selected' = h.before

\* The command.  A selected path that the map lacks would be read through end().
\* Replacing counts what it inserts before it looks for what to delete, toggling
\* after.
Select(asked, paths) ==
  LET clears == asked = "replace" /\ paths = {}
      mode   == IF clears THEN "remove" ELSE asked
      S      == IF clears THEN selected ELSE paths
      I      == Inserted(mode, S)
      R      == Removed(mode, S)
      rs     == WithNodes(refs, Missing(I))
      made   == {rs[q].node : q \in Missing(I)}
      gone   == Deleted(R, IF mode = "replace" THEN I ELSE {})
  IN  /\ Len(done) < MaxQueue
      /\ ~Refused(mode, S)
      /\ selected \subseteq DOMAIN refs
      /\ CanMake(Missing(I))
      /\ \E removed \in Recorded(asked, R) :
           LET h == [before   |-> selected, after |-> SelectedAfter(mode, S),
                     inserted |-> [p \in I |-> rs[p].node], removed |-> removed,
                     created  |-> made,
                     killed   |-> {n \in alive \cup made :
                                     \E q \in gone : GoesWith(n, refs[q].node)}]
           IN  /\ DoIt(h, rs)
               /\ done' = Append(done, h) /\ undone' = << >>
               /\ sound' = (sound /\ Sound(h))
      /\ UNCHANGED needed

UndoSelect ==
  /\ done # << >>
  /\ UndoIt(Last(done))
  /\ done' = Front(done) /\ undone' = Append(undone, Last(done))
  /\ UNCHANGED <<needed, sound>>

RedoSelect ==
  /\ undone # << >>
  /\ DoIt(Last(undone), refs)
  /\ done' = Append(done, Last(undone)) /\ undone' = Front(undone)
  /\ UNCHANGED <<needed, sound>>

\* Maya's file > new and other commands that cannot be undone.
FlushUndo ==
  /\ done' = << >> /\ undone' = << >>
  /\ UNCHANGED <<scene, needed, sound>>

(***************************************************************************)
(* The translators of a stage: makeUsdTransformChain with kRequired for a  *)
(* prim that needs a transform; removeUsdTransformChain with kRequired     *)
(* when the prim leaves the translator context.  Neither can be undone.    *)
(***************************************************************************)
Settled == Switching \/ (done = << >> /\ undone = << >>)

Require(p) ==
  /\ Settled /\ p \in Schema \ needed
  /\ CanMake(Missing({p}))
  /\ LET rs == WithNodes(refs, Missing({p}))
     IN  /\ refs' = [q \in DOMAIN rs |->
                       IF q \in Up(p) THEN [rs[q] EXCEPT !.required = @ + 1] ELSE rs[q]]
         /\ alive' = alive \cup {rs[q].node : q \in Missing({p})}
  /\ needed' = needed \cup {p}
  /\ UNCHANGED <<selected, done, undone, sound>>

Unrequire(p) ==
  /\ Settled /\ p \in needed
  /\ LET rs == [q \in DOMAIN refs |->
                  IF q \in Up(p) THEN [refs[q] EXCEPT !.required = @ - 1] ELSE refs[q]]
         gone == {q \in Up(p) \cap DOMAIN rs : rs[q].required = 0 /\ rs[q].selected = 0}
     IN  /\ refs' = [q \in DOMAIN rs \ gone |-> rs[q]]
         /\ alive' = {n \in alive : \A q \in gone : ~GoesWith(n, rs[q].node)}
  /\ needed' = needed \ {p}
  /\ UNCHANGED <<selected, done, undone, sound>>

Init ==
  /\ refs = << >> /\ selected = {} /\ needed = {} /\ alive = {}
  /\ done = << >> /\ undone = << >> /\ sound = TRUE

Next ==
  \/ \E mode \in Modes, paths \in SUBSET Paths : Select(mode, paths)
  \/ UndoSelect
  \/ RedoSelect
  \/ FlushUndo
  \/ \E p \in Paths : Require(p) \/ Unrequire(p)

Spec == Init /\ [][Next]_vars

-----------------------------------------------------------------------------
HelperOK(h) ==
  /\ h.before \subseteq Paths /\ h.after \subseteq Paths
  /\ DOMAIN h.inserted \subseteq Paths /\ Range(h.inserted) \subseteq Nodes
  /\ DOMAIN h.removed \subseteq Paths /\ Range(h.removed) \subseteq Nodes \cup {Other}
  /\ h.created \subseteq Nodes /\ h.killed \subseteq Nodes

RefTypeOK ==
  /\ DOMAIN refs \subseteq Paths
  /\ \A p \in DOMAIN refs : /\ refs[p].node \in Nodes \cup {Other}
                            /\ refs[p].required \in Nat /\ refs[p].selected \in Nat
  /\ selected \subseteq Paths /\ needed \subseteq Paths
  /\ alive \subseteq Nodes
  /\ sound \in BOOLEAN
  /\ \A h \in Range(done \o undone) : HelperOK(h)

\* What is selected and in the stage: adding lets paths in that no prim has.
Here == selected \cap Prims

\* The counts are those of the reasons there are: the selected prims and the
\* required ones at or below each path; a path without a reason has no entry.
\* decRef's assertions (ProxyShapeSelection.cpp:262-264) rest on it, and so does
\* every find() of a prim in doSelect that is dereferenced unchecked.
CountsMatch ==
  sound =>
    /\ DOMAIN refs = UpAll(Here \cup needed)
    /\ \A p \in DOMAIN refs :
         /\ refs[p].selected = Cardinality(Below(Here, p))
         /\ refs[p].required = Cardinality(Below(needed, p))

\* A required prim keeps the transforms of its chain, whatever is selected,
\* deselected, undone and redone: "paths that must always exist, and never get
\* deleted" (ProxyShape.h:960-961).
RequiredKept ==
  sound => \A p \in UpAll(needed) :
             p \in DOMAIN refs /\ refs[p].node \in alive /\ refs[p].node.path = p

\* The transforms in Maya are exactly those the map names, one for each path with
\* a reason, and none is left behind or lost by undo and redo, as long as every
\* command was sound.
OneNodePerPath ==
  sound =>
    /\ alive = {refs[p].node : p \in DOMAIN refs}
    /\ \A p \in DOMAIN refs : refs[p].node.path = p

=============================================================================
