------------------------- MODULE LayerClients_proof -------------------------
(***************************************************************************)
(* Those who use the layer database: the ProxyShapes with the commands     *)
(* that can be undone, and the reading and saving of scenes; for any       *)
(* proxies, layers, identifiers and depth of nesting.                      *)
(*                                                                         *)
(* First what tracking and each command do to a database and to the        *)
(* stages, as lemmas about one step; then the inductive invariants:        *)
(* CommandInv, of the state that is there and of what each command in the  *)
(* queue remembers of it; UndoInv, what the commands that can be undone    *)
(* and redone will find; HeldInv, that the database has each edit target   *)
(* with edits; SceneInv, what the reads in progress leave to do; and       *)
(* SavedInv, what is left of what was saved until it is read again.        *)
(***************************************************************************)
EXTENDS LayerCommands, SceneFiles, LayerDatabase_proof

-----------------------------------------------------------------------------
(***************************************************************************)
(* The database of those who add layers under their own identifiers: each  *)
(* key is the identifier of the layer it leads to, so that adding a layer  *)
(* takes nothing from another.                                             *)
(***************************************************************************)
Identified ==
  /\ identifier \in [Layers -> Ids]
  /\ \A l, m \in Layers : identifier[l] = identifier[m] => l = m

IsDatabase(db) == db = Database(db.toIds, db.toLayer)

OwnKeys(db) == \A id \in DOMAIN db.toLayer : identifier[db.toLayer[id]] = id

Kept(db) == IsDatabase(db) /\ Good(db, {}) /\ OwnKeys(db)

\* The layers a database keeps are those its keys lead to.
LEMMA KeptLayers ==
  ASSUME NEW db, Good(db, {})
  PROVE  /\ DOMAIN db.toIds = {db.toLayer[id] : id \in DOMAIN db.toLayer}
         /\ DOMAIN db.toIds \subseteq Layers
<1>1. ASSUME NEW layer \in DOMAIN db.toIds
      PROVE  \E id \in DOMAIN db.toLayer : db.toLayer[id] = layer
  <2>1. db.toIds[layer] \in Seq(Ids) /\ db.toIds[layer] # << >>
    BY DEF Good, Typed, AllNamed
  <2>2. 1 \in 1..Len(db.toIds[layer])
    BY <2>1
  <2> QED BY <2>2 DEF Good, Listed
<1>2. \A id \in DOMAIN db.toLayer : db.toLayer[id] \in DOMAIN db.toIds
  BY DEF Good, Keyed
<1> QED BY <1>1, <1>2 DEF Good, Typed

\* A layer is kept if its identifier is a key, and only then.
LEMMA KeptKey ==
  ASSUME Identified, NEW db, Kept(db), NEW layer \in Layers
  PROVE  /\ layer \in DOMAIN db.toIds <=> identifier[layer] \in DOMAIN db.toLayer
         /\ identifier[layer] \in DOMAIN db.toLayer => db.toLayer[identifier[layer]] = layer
<1>1. \A id \in DOMAIN db.toLayer : db.toLayer[id] \in Layers /\ identifier[db.toLayer[id]] = id
  BY DEF Kept, OwnKeys, Good, Typed
<1> QED BY <1>1, KeptLayers DEF Kept, Identified

LEMMA AddKept ==
  ASSUME Identified, NEW db, Kept(db), NEW layer \in Layers,
         NEW new, new = AddCanonical(db, layer)
  PROVE  Kept(new) /\ DOMAIN new.toIds = DOMAIN db.toIds \cup {layer}
<1>1. identifier[layer] \in Ids /\ Good(db, {})
  BY DEF Identified, Kept
<1>2. /\ Good(new, {})
      /\ new.toLayer = KeysWith(db.toLayer, {identifier[layer]}, layer)
  BY <1>1, AddCanonicalGood
<1>3. IsDatabase(new)
  BY DEF AddCanonical, AddKey, Database, IsDatabase
<1>4. /\ DOMAIN new.toLayer = DOMAIN db.toLayer \cup {identifier[layer]}
      /\ new.toLayer[identifier[layer]] = layer
      /\ \A id \in DOMAIN db.toLayer : id # identifier[layer] => new.toLayer[id] = db.toLayer[id]
  BY <1>2 DEF KeysWith
<1>5. OwnKeys(new)
  BY <1>4 DEF OwnKeys, Kept
<1>6. identifier[layer] \in DOMAIN db.toLayer => db.toLayer[identifier[layer]] = layer
  BY KeptKey
<1>7. /\ DOMAIN new.toIds = {new.toLayer[id] : id \in DOMAIN new.toLayer}
      /\ DOMAIN db.toIds = {db.toLayer[id] : id \in DOMAIN db.toLayer}
  BY <1>1, <1>2, KeptLayers
<1>8. DOMAIN new.toIds = DOMAIN db.toIds \cup {layer}
  BY <1>4, <1>6, <1>7
<1> QED BY <1>2, <1>3, <1>5, <1>8 DEF Kept

LEMMA RemoveKept ==
  ASSUME NEW db, Kept(db), NEW layer, NEW new, new = Removed(db, layer)
  PROVE  Kept(new) /\ DOMAIN new.toIds = DOMAIN db.toIds \ {layer}
<1>1. /\ Good(new, {})
      /\ new.toLayer = [id \in {i \in DOMAIN db.toLayer : db.toLayer[i] # layer} |->
                         db.toLayer[id]]
      /\ DOMAIN new.toIds = DOMAIN db.toIds \ {layer}
  BY RemovedGood DEF Kept
<1>2. IsDatabase(new)
  BY DEF Removed, Database, IsDatabase, Kept
<1>3. OwnKeys(new)
  BY <1>1 DEF OwnKeys, Kept
<1> QED BY <1>1, <1>2, <1>3 DEF Kept

\* What trackEditTargetLayer does to the layers that are kept.
KeptAfter(S, old, new) ==
  IF old = new THEN S ELSE (S \ ({old} \ dirty)) \cup {new}

LEMMA TrackKept ==
  ASSUME Identified, NEW db, Kept(db), NEW old, NEW layer \in Layers,
         NEW new, new = Tracked(db, old, layer)
  PROVE  Kept(new) /\ DOMAIN new.toIds = KeptAfter(DOMAIN db.toIds, old, layer)
<1>1. CASE old = layer
  BY <1>1 DEF Tracked, KeptAfter
<1>2. CASE old # layer
  <2> DEFINE mid == IF old \in dirty THEN db ELSE Removed(db, old)
  <2>1. Kept(mid) /\ DOMAIN mid.toIds = DOMAIN db.toIds \ ({old} \ dirty)
    <3>1. CASE old \in dirty
      BY <3>1
    <3>2. CASE old \notin dirty
      <4>1. mid = Removed(db, old)
        BY <3>2
      <4> HIDE DEF mid
      <4> QED BY <3>2, <4>1, RemoveKept
    <3> QED BY <3>1, <3>2
  <2>2. new = AddCanonical(mid, layer)
    BY <1>2 DEF Tracked
  <2> HIDE DEF mid
  <2> QED BY <1>2, <2>1, <2>2, AddKept DEF KeptAfter
<1> QED BY <1>1, <1>2

-----------------------------------------------------------------------------
(***************************************************************************)
(* What serializeAll does, one stage after the other.                      *)
(***************************************************************************)
OneOf(d) == CHOOSE p \in d : TRUE

SerializeSteps(it) ==
  /\ it[{}] = Current /\ it[Loaded] = FoldSet(Serialized, Current, Loaded)
  /\ \A d \in SUBSET Loaded : d # {} => it[d] = Serialized(OneOf(d), it[d \ {OneOf(d)}])

LEMMA LoadedFinite == IsFiniteSet(Loaded) /\ Loaded \subseteq Proxies
BY FiniteAssumption, FS_Subset DEF Loaded

LEMMA SerializeChain ==
  ASSUME NEW ST, Current \in ST, \A db \in ST, p \in Loaded : Serialized(p, db) \in ST
  PROVE  \E it : SerializeSteps(it)
<1> DEFINE D == Loaded
           c == [d \in SUBSET D |-> OneOf(d)]
           G == [a \in ST |-> [p \in D |-> Serialized(p, a)]]
           Body(it, d) == IF d = {} THEN Current ELSE Serialized(OneOf(d), it[d \ {OneOf(d)}])
           iter == CHOOSE it : it = [d \in SUBSET D |-> Body(it, d)]
<1>1. FoldSet(Serialized, Current, D) = iter[D]
  BY Zenon DEF FoldSet, MapThenFoldSet, OneOf
<1>2. /\ IsFiniteSet(D) /\ Chooses(c, D) /\ (\A d \in SUBSET D : c[d] = OneOf(d))
  BY LoadedFinite DEF Chooses, OneOf
<1>3. G \in [ST -> [D -> ST]] /\ \A a \in ST, p \in D : G[a][p] = Serialized(p, a)
  OBVIOUS
<1> HIDE DEF D, c, G
<1>4. PICK h \in [SUBSET D -> ST] : IsFold(h, D, c, Current, G)
  BY <1>2, <1>3, FoldExists
<1>5. ASSUME NEW d \in SUBSET D PROVE h[d] = Body(h, d)
  <2>1. h[d] = IF d = {} THEN Current ELSE G[h[d \ {c[d]}]][c[d]]
    BY <1>4 DEF IsFold
  <2>2. CASE d # {}
    <3>1. c[d] = OneOf(d) /\ OneOf(d) \in D /\ d \ {OneOf(d)} \in SUBSET D
      BY <1>2, <2>2 DEF Chooses
    <3> QED BY <1>3, <2>1, <2>2, <3>1
  <2> QED BY <2>1, <2>2
<1>6. h = [d \in SUBSET D |-> Body(h, d)]
  BY <1>5
<1>7. iter = [d \in SUBSET D |-> Body(iter, d)]
  BY <1>6
<1> HIDE DEF iter
<1>8. \A d \in SUBSET D : iter[d] = Body(iter, d)
  BY <1>7
<1>9. iter[D] = FoldSet(Serialized, Current, D) /\ iter[{}] = Current
  BY <1>1, <1>8
<1>10. \A d \in SUBSET D : d # {} => iter[d] = Serialized(OneOf(d), iter[d \ {OneOf(d)}])
  BY <1>8
<1> QED BY <1>9, <1>10 DEF D, SerializeSteps

\* What each stage keeps holds in the end.
LEMMA SerializeKeeps ==
  ASSUME NEW it, SerializeSteps(it), NEW Fine, Current \in Fine[{}],
         \A d \in SUBSET Loaded : d # {} /\ it[d \ {OneOf(d)}] \in Fine[d \ {OneOf(d)}]
                                    => it[d] \in Fine[d]
  PROVE  FoldSet(Serialized, Current, Loaded) \in Fine[Loaded]
<1> DEFINE D == Loaded
           c == [d \in SUBSET D |-> OneOf(d)]
<1>1. IsFiniteSet(D) /\ Chooses(c, D) /\ \A d \in SUBSET D : c[d] = OneOf(d)
  BY LoadedFinite DEF Chooses, OneOf
<1>2. it[{}] \in Fine[{}] /\ it[D] = FoldSet(Serialized, Current, D)
  BY DEF SerializeSteps
<1>3. \A d \in SUBSET D : d # {} /\ it[d \ {c[d]}] \in Fine[d \ {c[d]}] => it[d] \in Fine[d]
  BY <1>1
<1> HIDE DEF D, c
<1>4. it[D] \in Fine[D]
  BY <1>1, <1>2, <1>3, FoldKeeps
<1> QED BY <1>2, <1>4 DEF D

\* The databases, a set.
Databases ==
  {db \in [toIds : UNION {[S -> Seq(Ids)] : S \in SUBSET Layers},
           toLayer : UNION {[S -> Layers] : S \in SUBSET Ids}] : Good(db, {})}

LEMMA InDatabases ==
  ASSUME NEW db, IsDatabase(db), Good(db, {})
  PROVE  db \in Databases
<1>1. /\ db.toIds \in UNION {[S -> Seq(Ids)] : S \in SUBSET Layers}
      /\ db.toLayer \in UNION {[S -> Layers] : S \in SUBSET Ids}
  <2>1. db.toIds \in [DOMAIN db.toIds -> Seq(Ids)] /\ DOMAIN db.toIds \in SUBSET Layers
    BY DEF Good, Typed
  <2>2. db.toLayer \in [DOMAIN db.toLayer -> Layers] /\ DOMAIN db.toLayer \in SUBSET Ids
    BY DEF Good, Typed
  <2> QED BY <2>1, <2>2
<1>2. db \in [toIds : UNION {[S -> Seq(Ids)] : S \in SUBSET Layers},
              toLayer : UNION {[S -> Layers] : S \in SUBSET Ids}]
  BY <1>1 DEF IsDatabase, Database
<1> QED BY <1>2 DEF Databases

KeptDatabases == {db \in Databases : Kept(db)}

LEMMA InKept ==
  ASSUME NEW db, Kept(db)
  PROVE  db \in KeptDatabases
BY InDatabases DEF KeptDatabases, Kept

\* Loaded stages have a session layer and a target.
StagesTyped ==
  /\ session \in [Proxies -> SessionLayers \cup {NoLayer}]
  /\ target \in [Proxies -> Layers \cup {NoLayer}]
  /\ \A p \in Loaded : session[p] \in SessionLayers /\ target[p] \in Layers

LEMMA SerializedKept ==
  ASSUME Identified, StagesTyped, NEW db, Kept(db), NEW p \in Loaded,
         NEW new, new = Serialized(p, db)
  PROVE  /\ Kept(new)
         /\ DOMAIN new.toIds = KeptAfter(DOMAIN db.toIds \cup {session[p]}, prev[p], target[p])
<1> DEFINE mid == AddCanonical(db, session[p])
<1>1. session[p] \in Layers /\ target[p] \in Layers
  BY SessionAssumption DEF StagesTyped
<1>2. new = Tracked(mid, prev[p], target[p])
  BY DEF Serialized
<1> HIDE DEF mid
<1>3. Kept(mid) /\ DOMAIN mid.toIds = DOMAIN db.toIds \cup {session[p]}
  BY <1>1, AddKept DEF mid
<1>4. Kept(new) /\ DOMAIN new.toIds = KeptAfter(DOMAIN mid.toIds, prev[p], target[p])
  BY <1>1, <1>2, <1>3, TrackKept
<1> QED BY <1>3, <1>4

\* Saving takes off the former targets that have no edits, no others; it keeps
\* the session layers.
Dropped == {prev[p] : p \in {q \in Loaded : prev[q] # target[q]}} \ dirty

LEMMA SerializeAllKept ==
  ASSUME Identified, StagesTyped, Kept(Current),
         NEW new, new = FoldSet(Serialized, Current, Loaded)
  PROVE  /\ Kept(new)
         /\ DOMAIN layerToIds \ Dropped \subseteq DOMAIN new.toIds
         /\ {session[p] : p \in Loaded} \ Dropped \subseteq DOMAIN new.toIds
<1> DEFINE Has(db, d) == /\ Kept(db)
                         /\ DOMAIN layerToIds \ Dropped \subseteq DOMAIN db.toIds
                         /\ {session[p] : p \in d} \ Dropped \subseteq DOMAIN db.toIds
           Fine == [d \in SUBSET Loaded |-> {db \in KeptDatabases : Has(db, d)}]
<1>1. Current \in KeptDatabases
  BY InKept
<1>2. ASSUME NEW db \in KeptDatabases, NEW p \in Loaded
      PROVE  Serialized(p, db) \in KeptDatabases
  BY SerializedKept, InKept DEF KeptDatabases
<1>3. PICK it : SerializeSteps(it)
  BY <1>1, <1>2, SerializeChain
<1>4. \A d \in SUBSET Loaded : \A db : db \in Fine[d] <=> db \in KeptDatabases /\ Has(db, d)
  OBVIOUS
<1>5. Current \in Fine[{}]
  BY <1>1, <1>4 DEF Current, Database
<1>6. ASSUME NEW d \in SUBSET Loaded, d # {}, it[d \ {OneOf(d)}] \in Fine[d \ {OneOf(d)}]
      PROVE  it[d] \in Fine[d]
  <2> DEFINE p == OneOf(d)
             db == it[d \ {p}]
  <2>1. p \in d /\ p \in Loaded /\ d \ {p} \in SUBSET Loaded
    BY <1>6 DEF OneOf
  <2>2. it[d] = Serialized(p, db)
    BY <1>3, <1>6 DEF SerializeSteps
  <2>3. Has(db, d \ {p})
    BY <1>4, <1>6, <2>1
  <2> HIDE DEF p, db, Fine
  <2>4. /\ Kept(it[d])
        /\ DOMAIN it[d].toIds = KeptAfter(DOMAIN db.toIds \cup {session[p]}, prev[p], target[p])
    BY <2>1, <2>2, <2>3, SerializedKept
  <2>5. prev[p] # target[p] => prev[p] \in Dropped \/ prev[p] \in dirty
    BY <2>1 DEF Dropped
  <2>6. \A l \in DOMAIN db.toIds \cup {session[p]} : l \notin Dropped => l \in DOMAIN it[d].toIds
    BY <2>4, <2>5 DEF KeptAfter
  <2>7. Has(it[d], d)
    BY <2>3, <2>4, <2>6
  <2> QED BY <1>4, <2>4, <2>7, InKept
<1> HIDE DEF Fine
<1>7. new \in Fine[Loaded]
  BY <1>3, <1>5, <1>6, SerializeKeeps
<1> QED BY <1>4, <1>7

-----------------------------------------------------------------------------
(***************************************************************************)
(* What the actions of LayerTracking do, in a word each.                   *)
(***************************************************************************)
LEMMA BecomeKept ==
  ASSUME NEW db, Kept(db), Become(db), UNCHANGED identifier
  PROVE  Kept(Current)' /\ DOMAIN layerToIds' = DOMAIN db.toIds
<1>1. Current' = db
  BY DEF Become, Current, Database, Kept, IsDatabase
<1>2. Kept(db)'
  BY DEF Kept, Good, OwnKeys, IsDatabase
<1> QED BY <1>1, <1>2 DEF Become, Kept, IsDatabase, Good, OwnKeys

\* The layers that are kept once the old stage of p was tracked again.
KeptOld(p) ==
  IF p \in Loaded THEN KeptAfter(DOMAIN layerToIds, prev[p], target[p]) ELSE DOMAIN layerToIds

LEMMA OldStageKept ==
  ASSUME Identified, StagesTyped, Kept(Current), NEW p
  PROVE  Kept(AfterOldStage(p)) /\ DOMAIN AfterOldStage(p).toIds = KeptOld(p)
<1>0. Current.toIds = layerToIds
  BY DEF Current, Database
<1>1. CASE p \in Loaded
  <2>1. target[p] \in Layers
    BY <1>1 DEF StagesTyped
  <2>2. /\ Kept(Tracked(Current, prev[p], target[p]))
        /\ DOMAIN Tracked(Current, prev[p], target[p]).toIds
             = KeptAfter(DOMAIN Current.toIds, prev[p], target[p])
    BY <2>1, TrackKept
  <2> QED BY <1>0, <1>1, <2>2 DEF AfterOldStage, KeptOld
<1>2. CASE p \notin Loaded
  BY <1>0, <1>2 DEF AfterOldStage, KeptOld
<1> QED BY <1>1, <1>2

\* The new stage of p opens on this layer, and is tracked now or later.
Loads(p, layer) ==
  /\ layer \in Layers
  /\ session' = [session EXCEPT ![p] = layer] /\ target' = [target EXCEPT ![p] = layer]
  /\ \/ /\ DOMAIN layerToIds' = KeptAfter(KeptOld(p), LastTracked(p), layer)
        /\ prev' = [prev EXCEPT ![p] = layer]
     \/ /\ DOMAIN layerToIds' = KeptOld(p)
        /\ prev' = [prev EXCEPT ![p] = LastTracked(p)]
  /\ UNCHANGED <<added, identifier, dirty, sessionName>>

\* The layer that a save named for p, if it still has edits and is kept.
LEMMA SavedSessionIs ==
  ASSUME Identified, Kept(Current), NEW p, sessionName[p] # NoId, NEW layer \in Layers
  PROVE  layer \in SavedSession(p) <=>
           layer \in DOMAIN layerToIds \cap dirty /\ identifier[layer] = sessionName[p]
<1>1. Current.toIds = layerToIds /\ Current.toLayer = idToLayer
  BY DEF Current, Database
<1>2. \A id \in DOMAIN idToLayer : identifier[idToLayer[id]] = id
  BY <1>1 DEF Kept, OwnKeys
<1>3. /\ layer \in DOMAIN layerToIds <=> identifier[layer] \in DOMAIN idToLayer
      /\ identifier[layer] \in DOMAIN idToLayer => idToLayer[identifier[layer]] = layer
  BY <1>1, KeptKey
<1> QED BY <1>2, <1>3 DEF SavedSession, Found

LEMMA LoadEffect ==
  ASSUME Identified, StagesTyped, Kept(Current), NEW p \in Proxies, LoadStage(p)
  PROVE  /\ Kept(Current)'
         /\ \E layer \in (IF SavedSession(p) # {} THEN SavedSession(p) ELSE Fresh) : Loads(p, layer)
<1>1. PICK layer \in (IF SavedSession(p) # {} THEN SavedSession(p) ELSE Fresh) :
        /\ session' = [session EXCEPT ![p] = layer]
        /\ target' = [target EXCEPT ![p] = layer]
        /\ \/ /\ Become(Tracked(AfterOldStage(p), LastTracked(p), layer))
              /\ prev' = [prev EXCEPT ![p] = layer]
           \/ /\ Become(AfterOldStage(p))
              /\ prev' = [prev EXCEPT ![p] = LastTracked(p)]
  BY DEF LoadStage
<1>2. layer \in Layers
  <2>1. \A id \in DOMAIN idToLayer : idToLayer[id] \in Layers
    BY DEF Kept, Good, Typed, Current, Database
  <2>2. SavedSession(p) \subseteq Layers
    BY <2>1 DEF SavedSession, Found
  <2>3. Fresh \subseteq Layers
    BY SessionAssumption DEF Fresh
  <2> QED BY <2>2, <2>3
<1>3. Kept(AfterOldStage(p)) /\ DOMAIN AfterOldStage(p).toIds = KeptOld(p)
  BY OldStageKept
<1>4. UNCHANGED <<added, identifier, dirty, sessionName>>
  BY DEF LoadStage
<1>5. CASE Become(Tracked(AfterOldStage(p), LastTracked(p), layer)) /\ prev' = [prev EXCEPT ![p] = layer]
  <2> DEFINE new == Tracked(AfterOldStage(p), LastTracked(p), layer)
  <2>1. Kept(new) /\ DOMAIN new.toIds = KeptAfter(DOMAIN AfterOldStage(p).toIds, LastTracked(p), layer)
    <3> HIDE DEF new
    <3> QED BY <1>2, <1>3, TrackKept DEF new
  <2>2. Kept(Current)' /\ DOMAIN layerToIds' = DOMAIN new.toIds
    <3> HIDE DEF new
    <3> QED BY <1>4, <1>5, <2>1, BecomeKept DEF new
  <2> QED BY <1>1, <1>2, <1>3, <1>4, <1>5, <2>1, <2>2 DEF Loads
<1>6. CASE Become(AfterOldStage(p)) /\ prev' = [prev EXCEPT ![p] = LastTracked(p)]
  <2>1. Kept(Current)' /\ DOMAIN layerToIds' = KeptOld(p)
    BY <1>3, <1>4, <1>6, BecomeKept
  <2> QED BY <1>1, <1>2, <1>4, <1>6, <2>1 DEF Loads
<1> QED BY <1>1, <1>5, <1>6

LEMMA FailEffect ==
  ASSUME Identified, StagesTyped, Kept(Current), NEW p \in Proxies, LoadFails(p)
  PROVE  Kept(Current)' /\ DOMAIN layerToIds' = KeptOld(p)
<1>1. Kept(AfterOldStage(p)) /\ DOMAIN AfterOldStage(p).toIds = KeptOld(p)
  BY OldStageKept
<1> QED BY <1>1, BecomeKept DEF LoadFails

LEMMA TargetEffect ==
  ASSUME Identified, Kept(Current), NEW p \in Proxies, NEW layer \in Layers,
         TargetChanged(p, layer)
  PROVE  Kept(Current)' /\ DOMAIN layerToIds' = KeptAfter(DOMAIN layerToIds, prev[p], layer)
<1> DEFINE new == Tracked(Current, prev[p], layer)
<1>1. Kept(new) /\ DOMAIN new.toIds = KeptAfter(DOMAIN layerToIds, prev[p], layer)
  <2>1. Current.toIds = layerToIds
    BY DEF Current, Database
  <2> HIDE DEF new
  <2> QED BY <2>1, TrackKept DEF new
<1> QED BY <1>1, BecomeKept DEF TargetChanged

LEMMA SaveEffect ==
  ASSUME Identified, StagesTyped, Kept(Current), SerializeAll
  PROVE  /\ Kept(Current)'
         /\ DOMAIN layerToIds \ Dropped \subseteq DOMAIN layerToIds'
         /\ {session[p] : p \in Loaded} \ Dropped \subseteq DOMAIN layerToIds'
<1> DEFINE new == FoldSet(Serialized, Current, Loaded)
<1>1. /\ Kept(new)
      /\ DOMAIN layerToIds \ Dropped \subseteq DOMAIN new.toIds
      /\ {session[p] : p \in Loaded} \ Dropped \subseteq DOMAIN new.toIds
  <2> HIDE DEF new
  <2> QED BY SerializeAllKept DEF new
<1>2. Become(new) /\ UNCHANGED identifier
  BY DEF SerializeAll
<1> HIDE DEF new
<1> QED BY <1>1, <1>2, BecomeKept

\* Nothing but the database is what it was.
LEMMA SameKept ==
  ASSUME Kept(Current), UNCHANGED <<layerToIds, idToLayer, identifier>>
  PROVE  Kept(Current)' /\ DOMAIN layerToIds' = DOMAIN layerToIds
BY DEF Kept, Current, Database, IsDatabase, Good, OwnKeys

-----------------------------------------------------------------------------
(***************************************************************************)
(* The commands: what they do to the database.                             *)
(***************************************************************************)
LEMMA CreateEffect ==
  ASSUME Identified, Kept(Current), NEW p \in Proxies, NEW layer \in Layers, NEW sub,
         DoCreate(p, layer, sub)
  PROVE  Kept(Current)' /\ DOMAIN layerToIds' = DOMAIN layerToIds \cup {layer}
<1> DEFINE new == AddCanonical(Current, layer)
<1>1. Kept(new) /\ DOMAIN new.toIds = DOMAIN layerToIds \cup {layer}
  <2>1. Current.toIds = layerToIds
    BY DEF Current, Database
  <2> HIDE DEF new
  <2> QED BY <2>1, AddKept DEF new
<1> QED BY <1>1, BecomeKept DEF DoCreate

LEMMA UncreateEffect ==
  ASSUME Identified, Kept(Current), NEW e, UndoCreate(e)
  PROVE  /\ Kept(Current)'
         /\ DOMAIN layerToIds' = IF e.inserted THEN DOMAIN layerToIds \ {e.layer}
                                 ELSE DOMAIN layerToIds
<1> DEFINE new == IF e.inserted THEN Removed(Current, e.layer) ELSE Current
<1>1. /\ Kept(new)
      /\ DOMAIN new.toIds = IF e.inserted THEN DOMAIN layerToIds \ {e.layer}
                            ELSE DOMAIN layerToIds
  <2>1. Current.toIds = layerToIds
    BY DEF Current, Database
  <2>2. /\ Kept(Removed(Current, e.layer))
        /\ DOMAIN Removed(Current, e.layer).toIds = DOMAIN layerToIds \ {e.layer}
    BY <2>1, RemoveKept
  <2> QED BY <2>1, <2>2
<1> QED BY <1>1, BecomeKept DEF UndoCreate

-----------------------------------------------------------------------------
(***************************************************************************)
(* The queue holds commands, each with the layers it may have.             *)
(***************************************************************************)
CreateCommands ==
  [kind : {"create"}, proxy : Proxies, layer : Layers, sublayer : BOOLEAN,
   inserted : BOOLEAN, listed : BOOLEAN]

TargetCommands ==
  [kind : {"target"}, proxy : Proxies, layer : Layers \cup {NoLayer},
   previous : Layers \cup {NoLayer}, onStage : BOOLEAN]

AllCommands == CreateCommands \cup TargetCommands

\* A layer that was created is none a stage opened on or was saved with, and
\* a stage is there as long as its commands are.
FineCommand(e) ==
  /\ e.kind = "create" =>
       /\ e.layer \in SessionLayers \cup Openable[e.proxy]
       /\ \A p \in Proxies : session[p] # e.layer /\ sessionName[p] # identifier[e.layer]
  /\ e.kind = "target" /\ e.onStage => e.proxy \in Loaded

QueueInv ==
  /\ done \in Seq(AllCommands) /\ undone \in Seq(AllCommands)
  /\ \A i \in 1..Len(done) : FineCommand(done[i])
  /\ \A i \in 1..Len(undone) : FineCommand(undone[i])

LEMMA CommandKinds ==
  ASSUME NEW e \in AllCommands
  PROVE  /\ e.kind = "create" <=> e \in CreateCommands
         /\ e.kind = "target" <=> e \in TargetCommands
         /\ e.kind = "create" \/ e.kind = "target"
         /\ e.kind # "create" \/ e.kind # "target"
         /\ e.proxy \in Proxies
BY DEF AllCommands, CreateCommands, TargetCommands

\* The commands are those of the two sequences.
LEMMA CommandsAre ==
  ASSUME NEW S, done \in Seq(S), undone \in Seq(S)
  PROVE  Commands = {done[i] : i \in 1..Len(done)} \cup {undone[i] : i \in 1..Len(undone)}
<1>1. done \o undone \in Seq(S) /\ Len(done \o undone) = Len(done) + Len(undone)
  BY JoinFacts
<1>2. /\ \A j \in 1..Len(done) : (done \o undone)[j] = done[j]
      /\ \A j \in Len(done)+1..Len(done)+Len(undone) : (done \o undone)[j] = undone[j - Len(done)]
  BY JoinFacts
<1>3. Len(done) \in Nat /\ Len(undone) \in Nat
  OBVIOUS
<1>4. Commands = {(done \o undone)[j] : j \in 1..Len(done)+Len(undone)}
  BY <1>1 DEF Commands, Range
<1> DEFINE both == done \o undone
<1> HIDE DEF both
<1>5. ASSUME NEW i \in 1..Len(undone)
      PROVE  \E j \in 1..Len(done)+Len(undone) : (done \o undone)[j] = undone[i]
  <2>1. Len(done) + i \in Len(done)+1..Len(done)+Len(undone) /\ (Len(done) + i) - Len(done) = i
    BY <1>3
  <2>2. (done \o undone)[Len(done) + i] = undone[i]
    BY <1>2, <2>1
  <2>3. Len(done) + i \in 1..Len(done)+Len(undone)
    BY <1>3
  <2> QED BY <2>2, <2>3
<1>6. ASSUME NEW j \in 1..Len(done)+Len(undone)
      PROVE  (done \o undone)[j] \in {done[i] : i \in 1..Len(done)} \cup {undone[i] : i \in 1..Len(undone)}
  <2>1. CASE j \in 1..Len(done)
    BY <1>2, <2>1
  <2>2. CASE j \notin 1..Len(done)
    <3>1. j \in Len(done)+1..Len(done)+Len(undone) /\ j - Len(done) \in 1..Len(undone)
      BY <1>3, <2>2
    <3> QED BY <1>2, <3>1
  <2> QED BY <2>1, <2>2
<1>7. \A i \in 1..Len(done) : i \in 1..Len(done)+Len(undone) /\ (done \o undone)[i] = done[i]
  BY <1>2, <1>3
<1> QED BY <1>4, <1>5, <1>6, <1>7

\* What the last, the first and the others of a sequence are.
LEMMA OneOff ==
  ASSUME NEW S, NEW s \in Seq(S), s # << >>
  PROVE  /\ Len(s) \in 1..Len(s) /\ Last(s) = s[Len(s)] /\ Last(s) \in S
         /\ Front(s) \in Seq(S) /\ Len(Front(s)) = Len(s) - 1
         /\ \A i \in 1..Len(s) - 1 : i \in 1..Len(s) /\ Front(s)[i] = s[i]
<1>1. Len(s) \in Nat /\ Len(s) # 0
  OBVIOUS
<1>2. Front(s) = SubSeq(s, 1, Len(s) - 1)
  BY DEF Front
<1>3. /\ SubSeq(s, 1, Len(s) - 1) \in Seq(S)
      /\ Len(SubSeq(s, 1, Len(s) - 1)) = Len(s) - 1
      /\ \A j \in 1..Len(s) - 1 : SubSeq(s, 1, Len(s) - 1)[j] = s[j]
  <2>1. 1 \in 1..Len(s)+1 /\ Len(s) - 1 \in 0..Len(s) /\ 1 <= Len(s) - 1 + 1
    BY <1>1
  <2>2. /\ SubSeq(s, 1, Len(s) - 1) \in Seq(S)
        /\ Len(SubSeq(s, 1, Len(s) - 1)) = Len(s) - 1 - 1 + 1
        /\ \A j \in 1..Len(s)-1-1+1 : SubSeq(s, 1, Len(s) - 1)[j] = s[1+j-1]
    BY <2>1, PieceFacts
  <2> QED BY <1>1, <2>2
<1>4. Last(s) = s[Len(s)] /\ Last(s) \in S
  BY <1>1, ElementOfSeq DEF Last
<1> QED BY <1>1, <1>2, <1>3, <1>4

LEMMA OneOn ==
  ASSUME NEW S, NEW s \in Seq(S), NEW e \in S
  PROVE  /\ Append(s, e) \in Seq(S) /\ Len(Append(s, e)) = Len(s) + 1
         /\ Append(s, e)[Len(s) + 1] = e
         /\ \A i \in 1..Len(s) : i \in 1..Len(s) + 1 /\ Append(s, e)[i] = s[i]
<1>1. Len(s) \in Nat
  OBVIOUS
<1> QED BY <1>1, AppendProperties

-----------------------------------------------------------------------------
(***************************************************************************)
(* Whose layers are whose.  A session layer, or an anonymous one that a    *)
(* command made, has to do with one shape only: it is its session layer,   *)
(* the target, the former target, a sublayer, or what its sessionLayerName *)
(* names.                                                                  *)
(***************************************************************************)
Has(p, layer) ==
  \/ layer \in {session[p], target[p], prev[p]} \cup sublayers[p]
  \/ identifier[layer] = sessionName[p]

StageInv ==
  /\ StagesTyped
  /\ prev \in [Proxies -> Layers \cup {NoLayer}]
  /\ sessionName \in [Proxies -> {identifier[l] : l \in SessionLayers} \cup {NoId}]
  /\ sublayers \in [Proxies -> SUBSET Layers]
  /\ \A p \in Loaded : prev[p] # target[p] => target[p] = session[p]

OwnerInv ==
  /\ \A p \in Proxies : {target[p], prev[p]} \cup sublayers[p]
       \subseteq SessionLayers \cup Used[p] \cup Openable[p] \cup {NoLayer}
  /\ \A layer \in SessionLayers : \A p, q \in Proxies : Has(p, layer) /\ Has(q, layer) => p = q
  /\ \A layer \in SessionLayers : \A p \in Proxies :
       layer = session[p] \/ identifier[layer] = sessionName[p] => layer \notin sublayers[p]

\* While it has edits, or is the target, the layer that a save named is kept.
NamesInv ==
  \A p \in Proxies : \A layer \in Layers : identifier[layer] = sessionName[p] =>
    /\ layer \in dirty => layer \in DOMAIN layerToIds
    /\ p \in Loaded /\ target[p] = layer => layer \in DOMAIN layerToIds

DatabaseInv ==
  /\ Identified /\ Kept(Current)
  /\ dirty \subseteq Layers /\ added \in BOOLEAN

TrackInv == DatabaseInv /\ StageInv /\ OwnerInv /\ NamesInv

\* Nobody has this layer.
Free(layer) ==
  /\ layer \in SessionLayers /\ layer \notin DOMAIN layerToIds \cup dirty
  /\ \A p \in Proxies : ~Has(p, layer)

LEMMA NewIsFree ==
  ASSUME StageInv, QueueInv, NEW layer \in NewLayers
  PROVE  /\ Free(layer)
         /\ \A i \in 1..Len(done) : done[i].layer # layer
         /\ \A i \in 1..Len(undone) : undone[i].layer # layer
<1>1. layer \in Fresh /\ layer \notin Remembered
  BY DEF NewLayers
<1>2. /\ DOMAIN session = Proxies /\ DOMAIN target = Proxies /\ DOMAIN prev = Proxies
      /\ DOMAIN sessionName = Proxies /\ DOMAIN sublayers = Proxies
  BY DEF StageInv, StagesTyped
<1>3. /\ layer \in SessionLayers /\ layer \notin DOMAIN layerToIds \cup dirty
      /\ \A p \in Proxies : session[p] # layer /\ prev[p] # layer /\ sessionName[p] # identifier[layer]
  BY <1>1, <1>2 DEF Fresh, Range
<1>4. \A p \in Proxies : target[p] # layer /\ layer \notin sublayers[p]
  BY <1>1, <1>2 DEF Remembered, Range
<1>5. \A e \in Commands : e.layer # layer
  <2> DEFINE layers == {e.layer : e \in Commands}
             others == Range(target) \cup UNION Range(sublayers)
             former == {e.previous : e \in {c \in Commands : c.kind = "target"}}
  <2>1. Remembered = others \cup layers \cup former
    BY Zenon DEF Remembered
  <2>2. \A e \in Commands : e.layer \in layers
    OBVIOUS
  <2> HIDE DEF layers, others, former
  <2> QED BY <1>1, <2>1, <2>2
<1>6. Commands = {done[i] : i \in 1..Len(done)} \cup {undone[i] : i \in 1..Len(undone)}
  BY CommandsAre DEF QueueInv
<1> QED BY <1>3, <1>4, <1>5, <1>6 DEF Free, Has

\* The names that saves gave are not of these layers.
LEMMA NameIsOfSession ==
  ASSUME Identified, StageInv, NEW p \in Proxies, NEW layer \in Layers,
         identifier[layer] = sessionName[p]
  PROVE  layer \in SessionLayers /\ sessionName[p] # NoId
<1>1. identifier[layer] # NoId
  BY NoAssumption DEF Identified
<1>2. PICK l \in SessionLayers : sessionName[p] = identifier[l]
  BY <1>1 DEF StageInv
<1> QED BY <1>1, <1>2, SessionAssumption DEF Identified

-----------------------------------------------------------------------------
\* A stage is loaded on a layer that nobody has, or on the one a save named.
LoadsOwn(p, layer) ==
  /\ layer \in SessionLayers
  /\ Loads(p, layer)
  /\ \/ Free(layer)
     \/ layer \in DOMAIN layerToIds \cap dirty /\ identifier[layer] = sessionName[p]
  /\ \A l \in DOMAIN layerToIds \cap dirty : identifier[l] = sessionName[p] => l = layer
  /\ UNCHANGED sublayers

LEMMA LoadOwn ==
  ASSUME TrackInv, QueueInv, NEW p \in Proxies, LoadStage(p), session'[p] \notin Fresh \ NewLayers,
         UNCHANGED sublayers
  PROVE  /\ Kept(Current)'
         /\ \E layer \in SessionLayers :
              /\ LoadsOwn(p, layer)
              /\ layer \in NewLayers \/ identifier[layer] = sessionName[p]
<1> USE DEF TrackInv, DatabaseInv
<1>0. StagesTyped
  BY DEF StageInv
<1>1. PICK layer \in (IF SavedSession(p) # {} THEN SavedSession(p) ELSE Fresh) : Loads(p, layer)
  BY <1>0, LoadEffect
<1>2. Kept(Current)'
  BY <1>0, LoadEffect
<1>3. layer \in Layers /\ session'[p] = layer
  BY <1>0, <1>1 DEF Loads, StagesTyped
<1>4. \A l \in Layers : l \in SavedSession(p) <=>
           sessionName[p] # NoId /\ l \in DOMAIN layerToIds \cap dirty /\ identifier[l] = sessionName[p]
  BY SavedSessionIs DEF SavedSession
<1>5. CASE SavedSession(p) # {}
  <2>1. /\ layer \in DOMAIN layerToIds \cap dirty /\ identifier[layer] = sessionName[p]
        /\ layer \in SessionLayers
    BY <1>1, <1>3, <1>4, <1>5, NameIsOfSession
  <2>2. \A l \in DOMAIN layerToIds \cap dirty : identifier[l] = sessionName[p] => l = layer
    BY <1>3, <2>1 DEF Identified
  <2> QED BY <1>1, <1>2, <2>1, <2>2 DEF LoadsOwn
<1>6. CASE SavedSession(p) = {}
  <2>1. layer \in NewLayers /\ Free(layer) /\ layer \in SessionLayers
    <3>1. layer \in NewLayers
      BY <1>1, <1>3, <1>6
    <3> QED BY <3>1, NewIsFree DEF Free
  <2>2. \A l \in DOMAIN layerToIds \cap dirty : identifier[l] # sessionName[p]
    <3> SUFFICES ASSUME NEW l \in DOMAIN layerToIds \cap dirty, identifier[l] = sessionName[p]
                 PROVE FALSE
      OBVIOUS
    <3>1. l \in Layers /\ sessionName[p] # NoId
      BY NameIsOfSession
    <3> QED BY <1>4, <1>6, <3>1
  <2> QED BY <1>1, <1>2, <2>1, <2>2 DEF LoadsOwn
<1> QED BY <1>5, <1>6

LEMMA LoadKeepsStages ==
  ASSUME TrackInv, NEW p \in Proxies, NEW layer \in SessionLayers, LoadsOwn(p, layer)
  PROVE  StageInv'
<1> USE DEF TrackInv, DatabaseInv
<1>1. layer \in Layers /\ layer # NoLayer
  BY SessionAssumption, NoAssumption
<1>2. /\ session' = [session EXCEPT ![p] = layer] /\ target' = [target EXCEPT ![p] = layer]
      /\ prev' = [prev EXCEPT ![p] = layer] \/ prev' = [prev EXCEPT ![p] = LastTracked(p)]
      /\ UNCHANGED <<added, identifier, dirty, sessionName, sublayers>>
  BY DEF LoadsOwn, Loads
<1>3. LastTracked(p) \in Layers \cup {NoLayer}
  BY DEF LastTracked, StageInv, StagesTyped
<1>4. Loaded' = Loaded \cup {p}
  BY <1>1, <1>2 DEF Loaded, StageInv, StagesTyped
<1>5. StagesTyped'
  BY <1>1, <1>2, <1>4 DEF StageInv, StagesTyped
<1>6. prev' \in [Proxies -> Layers \cup {NoLayer}]
  BY <1>1, <1>2, <1>3 DEF StageInv
<1>7. ASSUME NEW q \in Loaded', prev'[q] # target'[q] PROVE target'[q] = session'[q]
  <2>1. q \in Proxies /\ p \in DOMAIN session /\ p \in DOMAIN target /\ p \in DOMAIN prev
        /\ q \in DOMAIN session /\ q \in DOMAIN target /\ q \in DOMAIN prev
    BY DEF Loaded, StageInv, StagesTyped
  <2>2. CASE q = p
    BY <1>2, <2>1, <2>2
  <2>3. CASE q # p
    <3>1. q \in Loaded /\ session'[q] = session[q] /\ target'[q] = target[q] /\ prev'[q] = prev[q]
      BY <1>2, <1>4, <2>1, <2>3
    <3> QED BY <1>7, <3>1 DEF StageInv
  <2> QED BY <2>2, <2>3
<1> QED BY <1>2, <1>5, <1>6, <1>7 DEF StageInv

\* Every step gives new layers to one shape at most, and only such as nobody had.
LEMMA OwnersStep ==
  ASSUME OwnerInv, UNCHANGED identifier, NEW p \in Proxies,
         \A q \in Proxies, l \in SessionLayers : Has(q, l)' =>
           Has(q, l) \/ (q = p /\ \A r \in Proxies : ~Has(r, l))
  PROVE  \A l \in SessionLayers : \A q, r \in Proxies : Has(q, l)' /\ Has(r, l)' => q = r
BY DEF OwnerInv

LEMMA LoadKeepsOwners ==
  ASSUME TrackInv, NEW p \in Proxies, NEW layer \in SessionLayers, LoadsOwn(p, layer)
  PROVE  OwnerInv'
<1> USE DEF TrackInv, DatabaseInv
<1>1. layer \in Layers /\ layer # NoLayer
  BY SessionAssumption, NoAssumption
<1>2. /\ session' = [session EXCEPT ![p] = layer] /\ target' = [target EXCEPT ![p] = layer]
      /\ prev' = [prev EXCEPT ![p] = layer] \/ prev' = [prev EXCEPT ![p] = LastTracked(p)]
      /\ UNCHANGED <<added, identifier, dirty, sessionName, sublayers>>
  BY DEF LoadsOwn, Loads
<1>3. DOMAIN session = Proxies /\ DOMAIN target = Proxies /\ DOMAIN prev = Proxies
  BY DEF StageInv, StagesTyped
<1>4. /\ session'[p] = layer /\ target'[p] = layer
      /\ prev'[p] \in {layer, prev[p], target[p]}
      /\ \A q \in Proxies : q # p => session'[q] = session[q] /\ target'[q] = target[q] /\ prev'[q] = prev[q]
  BY <1>2, <1>3 DEF LastTracked
<1>5. Free(layer) \/ identifier[layer] = sessionName[p]
  BY DEF LoadsOwn
<1>6. \A q \in Proxies, l \in SessionLayers : Has(q, l)' =>
        Has(q, l) \/ (q = p /\ \A r \in Proxies : ~Has(r, l))
  <2> TAKE q \in Proxies, l \in SessionLayers
  <2>1. CASE q # p
    BY <1>2, <1>4, <2>1 DEF Has
  <2>2. CASE q = p /\ l = layer
    BY <1>5, <2>2 DEF Has, Free
  <2>3. CASE q = p /\ l # layer
    BY <1>2, <1>4, <2>3 DEF Has
  <2> QED BY <2>1, <2>2, <2>3
<1>7. \A l \in SessionLayers : \A q, r \in Proxies : Has(q, l)' /\ Has(r, l)' => q = r
  BY <1>2, <1>6, OwnersStep
<1>8. \A q \in Proxies : {target'[q], prev'[q]} \cup sublayers'[q]
        \subseteq SessionLayers \cup Used[q] \cup Openable[q] \cup {NoLayer}
  <2> TAKE q \in Proxies
  <2>1. {target[q], prev[q]} \cup sublayers[q] \subseteq SessionLayers \cup Used[q] \cup Openable[q] \cup {NoLayer}
    BY DEF OwnerInv
  <2>2. CASE q # p
    BY <1>2, <1>4, <2>1, <2>2
  <2>3. CASE q = p
    BY <1>2, <1>4, <2>1, <2>3
  <2> QED BY <2>2, <2>3
<1>9. ASSUME NEW l \in SessionLayers, NEW q \in Proxies,
             l = session'[q] \/ identifier[l] = sessionName[q]
      PROVE  l \notin sublayers[q]
  <2>1. CASE l = session[q] \/ identifier[l] = sessionName[q]
    BY <2>1 DEF OwnerInv
  <2>2. CASE l = layer /\ q = p
    BY <1>5, <2>1, <2>2 DEF Free, Has
  <2> QED BY <1>4, <1>9, <2>1, <2>2
<1> QED BY <1>2, <1>7, <1>8, <1>9 DEF OwnerInv

LEMMA LoadKeepsNames ==
  ASSUME TrackInv, NEW p \in Proxies, NEW layer \in SessionLayers, LoadsOwn(p, layer)
  PROVE  NamesInv'
<1> USE DEF TrackInv, DatabaseInv
<1>1. layer \in Layers /\ layer # NoLayer
  BY SessionAssumption, NoAssumption
<1>2. /\ session' = [session EXCEPT ![p] = layer] /\ target' = [target EXCEPT ![p] = layer]
      /\ UNCHANGED <<added, identifier, dirty, sessionName, sublayers>>
  BY DEF LoadsOwn, Loads
<1>3. DOMAIN session = Proxies /\ DOMAIN target = Proxies /\ DOMAIN prev = Proxies
  BY DEF StageInv, StagesTyped
<1>4. /\ target'[p] = layer
      /\ \A q \in Proxies : q # p => session'[q] = session[q] /\ target'[q] = target[q]
  BY <1>2, <1>3
<1>5. \A l \in DOMAIN layerToIds :
        l \in dirty \/ (l # prev[p] /\ l # target[p]) => l \in DOMAIN layerToIds'
  BY DEF LoadsOwn, Loads, KeptOld, KeptAfter, LastTracked
<1>6. Free(layer) \/ (layer \in DOMAIN layerToIds \cap dirty /\ identifier[layer] = sessionName[p])
  BY DEF LoadsOwn
<1> SUFFICES ASSUME NEW q \in Proxies, NEW l \in Layers, identifier[l] = sessionName[q]
             PROVE  /\ l \in dirty => l \in DOMAIN layerToIds'
                    /\ q \in Loaded' /\ target'[q] = l => l \in DOMAIN layerToIds'
  BY <1>2 DEF NamesInv
<1>7. l \in dirty => l \in DOMAIN layerToIds'
  BY <1>5 DEF NamesInv
<1>8. ASSUME q \in Loaded', target'[q] = l PROVE l \in DOMAIN layerToIds'
  <2>1. CASE q = p
    <3>1. l = layer
      BY <1>4, <1>8, <2>1
    <3>2. ~Free(layer)
      BY <2>1, <3>1 DEF Free, Has
    <3> QED BY <1>5, <1>6, <3>1, <3>2
  <2>2. CASE q # p
    <3>1. q \in Loaded /\ target[q] = l
      BY <1>4, <1>8, <2>2 DEF Loaded
    <3>2. l \in DOMAIN layerToIds
      BY <3>1 DEF NamesInv
    <3>3. l \in SessionLayers
      BY NameIsOfSession
    <3>4. ~Has(p, l)
      BY <2>2, <3>1, <3>3 DEF OwnerInv, Has
    <3> QED BY <1>5, <3>2, <3>4 DEF Has
  <2> QED BY <2>1, <2>2
<1> QED BY <1>7, <1>8

\* The stage of p is gone; what it was saved with, may be too.
Unloads(p) ==
  /\ session' = [session EXCEPT ![p] = NoLayer] /\ target' = [target EXCEPT ![p] = NoLayer]
  /\ \/ DOMAIN layerToIds' = KeptOld(p) /\ prev' = [prev EXCEPT ![p] = LastTracked(p)]
     \/ DOMAIN layerToIds' = DOMAIN layerToIds /\ prev' = [prev EXCEPT ![p] = NoLayer]
  /\ UNCHANGED sessionName \/ sessionName' = [sessionName EXCEPT ![p] = NoId]
  /\ UNCHANGED <<added, identifier, dirty, sublayers>>

LEMMA UnloadEffect ==
  ASSUME TrackInv, NEW p \in Proxies, LoadFails(p) \/ DestroyProxy(p), UNCHANGED sublayers
  PROVE  Kept(Current)' /\ Unloads(p)
<1> USE DEF TrackInv, DatabaseInv
<1>1. CASE LoadFails(p)
  <2>1. Kept(Current)' /\ DOMAIN layerToIds' = KeptOld(p)
    BY <1>1, FailEffect DEF StageInv
  <2> QED BY <1>1, <2>1 DEF LoadFails, Unloads
<1>2. CASE DestroyProxy(p)
  <2>1. Kept(Current)' /\ DOMAIN layerToIds' = DOMAIN layerToIds
    BY <1>2, SameKept DEF DestroyProxy, vars, dbVars
  <2> QED BY <1>2, <2>1 DEF DestroyProxy, Unloads, vars, dbVars
<1> QED BY <1>1, <1>2

LEMMA UnloadKeepsStages ==
  ASSUME TrackInv, NEW p \in Proxies, Unloads(p)
  PROVE  StageInv' /\ OwnerInv' /\ Loaded' = Loaded \ {p}
<1> USE DEF TrackInv, DatabaseInv
<1>1. /\ DOMAIN session = Proxies /\ DOMAIN target = Proxies /\ DOMAIN prev = Proxies
      /\ DOMAIN sessionName = Proxies
  BY DEF StageInv, StagesTyped
<1>2. /\ session'[p] = NoLayer /\ target'[p] = NoLayer /\ prev'[p] \in {NoLayer, prev[p], target[p]}
      /\ sessionName'[p] \in {sessionName[p], NoId}
      /\ \A q \in Proxies : q # p => /\ session'[q] = session[q] /\ target'[q] = target[q]
                                     /\ prev'[q] = prev[q] /\ sessionName'[q] = sessionName[q]
      /\ UNCHANGED <<identifier, sublayers>>
  BY <1>1 DEF Unloads, LastTracked
<1>3. Loaded' = Loaded \ {p}
  BY <1>2 DEF Loaded
<1>4. LastTracked(p) \in Layers \cup {NoLayer}
  BY DEF LastTracked, StageInv, StagesTyped
<1>5. StagesTyped'
  <2>1. session' \in [Proxies -> SessionLayers \cup {NoLayer}] /\ target' \in [Proxies -> Layers \cup {NoLayer}]
    BY DEF Unloads, StageInv, StagesTyped
  <2>2. ASSUME NEW q \in Loaded' PROVE session'[q] \in SessionLayers /\ target'[q] \in Layers
    <3>1. q \in Proxies /\ q \in Loaded /\ q # p
      BY <1>3 DEF Loaded
    <3> QED BY <1>2, <3>1 DEF StageInv, StagesTyped
  <2> QED BY <2>1, <2>2 DEF StagesTyped
<1>6. prev' \in [Proxies -> Layers \cup {NoLayer}]
  BY <1>4 DEF Unloads, StageInv
<1>7. sessionName' \in [Proxies -> {identifier'[l] : l \in SessionLayers} \cup {NoId}]
  BY <1>2 DEF Unloads, StageInv
<1>8. StageInv'
  <2>1. sublayers' \in [Proxies -> SUBSET Layers]
    BY <1>2 DEF StageInv
  <2>2. ASSUME NEW q \in Loaded', prev'[q] # target'[q] PROVE target'[q] = session'[q]
    <3>1. q \in Proxies /\ q \in Loaded /\ q # p
      BY <1>3 DEF Loaded
    <3> QED BY <1>2, <2>2, <3>1 DEF StageInv
  <2> QED BY <1>5, <1>6, <1>7, <2>1, <2>2 DEF StageInv
<1>9. \A l \in Layers : identifier[l] # NoId
  BY NoAssumption DEF Identified
<1>10. \A q \in Proxies, l \in SessionLayers : Has(q, l)' => Has(q, l)
  BY <1>2, <1>9, SessionAssumption, NoAssumption DEF Has
<1>11. \A l \in SessionLayers : \A q, r \in Proxies : Has(q, l)' /\ Has(r, l)' => q = r
  BY <1>2, <1>10, OwnersStep
<1>12. \A q \in Proxies : {target'[q], prev'[q]} \cup sublayers'[q]
        \subseteq SessionLayers \cup Used[q] \cup Openable[q] \cup {NoLayer}
  <2> TAKE q \in Proxies
  <2>1. {target[q], prev[q]} \cup sublayers[q] \subseteq SessionLayers \cup Used[q] \cup Openable[q] \cup {NoLayer}
    BY DEF OwnerInv
  <2>2. CASE q # p
    BY <1>2, <2>1, <2>2
  <2>3. CASE q = p
    BY <1>2, <2>1, <2>3
  <2> QED BY <2>2, <2>3
<1>13. \A l \in SessionLayers : \A q \in Proxies :
         l = session'[q] \/ identifier[l] = sessionName'[q] => l \notin sublayers'[q]
  BY <1>2, <1>9, SessionAssumption, NoAssumption DEF OwnerInv
<1> QED BY <1>2, <1>3, <1>8, <1>11, <1>12, <1>13 DEF OwnerInv

LEMMA UnloadKeepsNames ==
  ASSUME TrackInv, NEW p \in Proxies, Unloads(p)
  PROVE  NamesInv'
<1> USE DEF TrackInv, DatabaseInv
<1>1. /\ DOMAIN session = Proxies /\ DOMAIN target = Proxies /\ DOMAIN sessionName = Proxies
  BY DEF StageInv, StagesTyped
<1>2. /\ sessionName'[p] \in {sessionName[p], NoId}
      /\ \A q \in Proxies : q # p => target'[q] = target[q] /\ sessionName'[q] = sessionName[q]
      /\ UNCHANGED <<identifier, dirty>>
  BY <1>1 DEF Unloads
<1>3. Loaded' = Loaded \ {p}
  BY UnloadKeepsStages
<1>4. \A l \in DOMAIN layerToIds : l \in dirty \/ l # prev[p] => l \in DOMAIN layerToIds'
  BY DEF Unloads, KeptOld, KeptAfter
<1> SUFFICES ASSUME NEW q \in Proxies, NEW l \in Layers, identifier[l] = sessionName'[q]
             PROVE  /\ l \in dirty => l \in DOMAIN layerToIds'
                    /\ q \in Loaded' /\ target'[q] = l => l \in DOMAIN layerToIds'
  BY <1>2 DEF NamesInv
<1>5. identifier[l] = sessionName[q]
  BY <1>2, NoAssumption DEF Identified
<1>6. l \in dirty => l \in DOMAIN layerToIds'
  BY <1>4, <1>5 DEF NamesInv
<1>7. ASSUME q \in Loaded', target'[q] = l PROVE l \in DOMAIN layerToIds'
  <2>1. q # p /\ q \in Loaded /\ target[q] = l
    BY <1>2, <1>3, <1>7
  <2>2. l \in DOMAIN layerToIds /\ l \in SessionLayers
    BY <1>5, <2>1, NameIsOfSession DEF NamesInv
  <2>3. l # prev[p]
    BY <2>1, <2>2 DEF OwnerInv, Has
  <2> QED BY <1>4, <2>2, <2>3
<1> QED BY <1>6, <1>7

-----------------------------------------------------------------------------
\* The stage of p, which is loaded, gets another of its layers for its target.
Targets(p, layer) ==
  /\ p \in Loaded /\ layer \in Layers /\ layer \in StageLayers(p) \ {target[p]}
  /\ DOMAIN layerToIds' = KeptAfter(DOMAIN layerToIds, prev[p], layer)
  /\ target' = [target EXCEPT ![p] = layer] /\ prev' = [prev EXCEPT ![p] = layer]
  /\ UNCHANGED <<added, identifier, dirty, session, sessionName, sublayers>>

LEMMA TargetsEffect ==
  ASSUME TrackInv, NEW p \in Loaded, NEW layer \in StageLayers(p) \ {target[p]},
         TargetChanged(p, layer), UNCHANGED sublayers
  PROVE  Kept(Current)' /\ Targets(p, layer)
<1> USE DEF TrackInv, DatabaseInv
<1>1. layer \in Layers
  BY SessionAssumption, UsedAssumption DEF StageLayers, StageInv, StagesTyped, Loaded
<1>2. p \in Proxies
  BY DEF Loaded
<1>3. Kept(Current)' /\ DOMAIN layerToIds' = KeptAfter(DOMAIN layerToIds, prev[p], layer)
  BY <1>1, <1>2, TargetEffect
<1> QED BY <1>1, <1>3 DEF Targets, TargetChanged

LEMMA TargetsKeepsStages ==
  ASSUME TrackInv, NEW p \in Proxies, NEW layer, Targets(p, layer)
  PROVE  StageInv' /\ OwnerInv' /\ Loaded' = Loaded
<1> USE DEF TrackInv, DatabaseInv
<1>1. DOMAIN target = Proxies /\ DOMAIN prev = Proxies
  BY DEF StageInv, StagesTyped
<1>2. /\ target'[p] = layer /\ prev'[p] = layer
      /\ \A q \in Proxies : q # p => target'[q] = target[q] /\ prev'[q] = prev[q]
      /\ UNCHANGED <<identifier, sublayers, session, sessionName>>
      /\ layer \in Layers
  BY <1>1 DEF Targets
<1>3. Loaded' = Loaded
  BY <1>2 DEF Loaded
<1>4. StagesTyped'
  <2>1. target' \in [Proxies -> Layers \cup {NoLayer}]
    BY <1>2 DEF Targets, StageInv, StagesTyped
  <2>2. ASSUME NEW q \in Loaded' PROVE session'[q] \in SessionLayers /\ target'[q] \in Layers
    <3>1. q \in Proxies /\ q \in Loaded
      BY <1>3 DEF Loaded
    <3> QED BY <1>2, <3>1 DEF StageInv, StagesTyped
  <2> QED BY <1>2, <2>1, <2>2 DEF StagesTyped, StageInv
<1>5. prev' \in [Proxies -> Layers \cup {NoLayer}]
  BY <1>2 DEF Targets, StageInv
<1>6. StageInv'
  <2>1. sublayers' \in [Proxies -> SUBSET Layers]
    BY <1>2 DEF StageInv
  <2>2. sessionName' \in [Proxies -> {identifier'[l] : l \in SessionLayers} \cup {NoId}]
    BY <1>2 DEF StageInv
  <2>3. ASSUME NEW q \in Loaded', prev'[q] # target'[q] PROVE target'[q] = session'[q]
    <3>1. q \in Proxies /\ q \in Loaded
      BY <1>3 DEF Loaded
    <3> QED BY <1>2, <2>3, <3>1 DEF StageInv
  <2> QED BY <1>4, <1>5, <2>1, <2>2, <2>3 DEF StageInv
<1>7. layer \in Used[p] \cup sublayers[p] \cup {session[p]} /\ p \in Loaded
  BY DEF Targets, StageLayers
<1>8. \A l \in SessionLayers : l \notin Used[p]
  BY UsedAssumption
<1>9. \A q \in Proxies, l \in SessionLayers : Has(q, l)' => Has(q, l)
  BY <1>2, <1>7, <1>8 DEF Has
<1>10. \A l \in SessionLayers : \A q, r \in Proxies : Has(q, l)' /\ Has(r, l)' => q = r
  BY <1>2, <1>9, OwnersStep
<1>11. \A q \in Proxies : {target'[q], prev'[q]} \cup sublayers'[q]
        \subseteq SessionLayers \cup Used[q] \cup Openable[q] \cup {NoLayer}
  <2> TAKE q \in Proxies
  <2>1. {target[q], prev[q]} \cup sublayers[q] \subseteq SessionLayers \cup Used[q] \cup Openable[q] \cup {NoLayer}
    BY DEF OwnerInv
  <2>2. CASE q # p
    BY <1>2, <2>1, <2>2
  <2>3. CASE q = p
    <3>1. session[p] \in SessionLayers
      BY <1>7 DEF StageInv, StagesTyped
    <3> QED BY <1>2, <1>7, <2>1, <2>3, <3>1
  <2> QED BY <2>2, <2>3
<1> QED BY <1>2, <1>3, <1>6, <1>10, <1>11 DEF OwnerInv

LEMMA TargetsKeepsNames ==
  ASSUME TrackInv, NEW p \in Proxies, NEW layer, Targets(p, layer)
  PROVE  NamesInv'
<1> USE DEF TrackInv, DatabaseInv
<1>1. DOMAIN target = Proxies
  BY DEF StageInv, StagesTyped
<1>2. /\ target'[p] = layer /\ layer # target[p] /\ p \in Loaded
      /\ \A q \in Proxies : q # p => target'[q] = target[q]
      /\ UNCHANGED <<identifier, dirty, session, sessionName>>
  BY <1>1 DEF Targets
<1>3. \A l \in DOMAIN layerToIds : l \in dirty \/ l # prev[p] => l \in DOMAIN layerToIds'
  BY DEF Targets, KeptAfter
<1> SUFFICES ASSUME NEW q \in Proxies, NEW l \in Layers, identifier[l] = sessionName[q]
             PROVE  /\ l \in dirty => l \in DOMAIN layerToIds'
                    /\ q \in Loaded' /\ target'[q] = l => l \in DOMAIN layerToIds'
  BY <1>2 DEF NamesInv
<1>4. l \in SessionLayers
  BY NameIsOfSession
<1>5. l \in dirty => l \in DOMAIN layerToIds'
  BY <1>3 DEF NamesInv
<1>6. ASSUME q \in Loaded', target'[q] = l PROVE l \in DOMAIN layerToIds'
  <2>1. CASE q = p
    <3>1. l = layer
      BY <1>2, <1>6, <2>1
    <3>2. CASE prev[p] # layer
      BY <3>1, <3>2 DEF Targets, KeptAfter
    <3>3. CASE prev[p] = layer
      <4>1. target[p] = session[p]
        BY <1>2, <3>3 DEF StageInv
      <4>2. l \in sublayers[p]
        <5>1. l \notin Used[p] /\ l # session[p]
          BY <1>2, <1>4, <3>1, <4>1, UsedAssumption
        <5> QED BY <3>1, <5>1 DEF Targets, StageLayers
      <4> QED BY <1>4, <2>1, <4>2 DEF OwnerInv
    <3> QED BY <3>2, <3>3
  <2>2. CASE q # p
    <3>1. q \in Loaded /\ target[q] = l
      BY <1>2, <1>6, <2>2 DEF Loaded
    <3>2. l \in DOMAIN layerToIds
      BY <3>1 DEF NamesInv
    <3>3. l # prev[p]
      BY <1>4, <2>2, <3>1 DEF OwnerInv, Has
    <3> QED BY <1>3, <3>2, <3>3
  <2> QED BY <2>1, <2>2
<1> QED BY <1>5, <1>6

-----------------------------------------------------------------------------
\* Saving.  The session layer of a stage is never taken off: a former target that is
\* left behind is none, or it is still the target.
LEMMA SessionNotDropped ==
  ASSUME TrackInv, NEW p \in Loaded
  PROVE  session[p] \in SessionLayers /\ session[p] \notin Dropped
<1>1. session[p] \in SessionLayers /\ p \in Proxies
  BY DEF TrackInv, StageInv, StagesTyped, Loaded
<1>2. ASSUME NEW q \in Loaded, prev[q] = session[p] PROVE prev[q] = target[q]
  <2>1. q = p
    BY <1>1, <1>2 DEF TrackInv, OwnerInv, Has, Loaded
  <2> QED BY <1>2, <2>1 DEF TrackInv, StageInv
<1> QED BY <1>1, <1>2 DEF Dropped

LEMMA SaveKeepsStages ==
  ASSUME TrackInv, SerializeAll, UNCHANGED sublayers
  PROVE  StageInv' /\ OwnerInv' /\ Loaded' = Loaded
<1> USE DEF TrackInv, DatabaseInv
<1>1. /\ \A q \in Proxies : prev'[q] = LastTracked(q)
      /\ \A q \in Proxies : sessionName'[q] = IF q \in Loaded THEN identifier[session[q]] ELSE sessionName[q]
      /\ UNCHANGED <<identifier, sublayers, session, target, added, dirty>>
  BY DEF SerializeAll
<1>2. Loaded' = Loaded
  BY <1>1 DEF Loaded
<1>3. StagesTyped'
  BY <1>1, <1>2 DEF StageInv, StagesTyped
<1>4. prev' \in [Proxies -> Layers \cup {NoLayer}]
  <2>1. \A q \in Proxies : LastTracked(q) \in Layers \cup {NoLayer}
    BY DEF LastTracked, StageInv, StagesTyped
  <2> QED BY <2>1 DEF SerializeAll
<1>5. sessionName' \in [Proxies -> {identifier'[l] : l \in SessionLayers} \cup {NoId}]
  <2> DEFINE names == {identifier[l] : l \in SessionLayers} \cup {NoId}
  <2>1. ASSUME NEW q \in Proxies
        PROVE  (IF q \in Loaded THEN identifier[session[q]] ELSE sessionName[q]) \in names
    <3>1. q \in Loaded => session[q] \in SessionLayers
      BY DEF StageInv, StagesTyped
    <3> QED BY <3>1 DEF StageInv
  <2> HIDE DEF names
  <2>2. sessionName' \in [Proxies -> names]
    BY <2>1 DEF SerializeAll
  <2> QED BY <1>1, <2>2 DEF names
<1>6. StageInv'
  <2>1. sublayers' \in [Proxies -> SUBSET Layers]
    BY <1>1 DEF StageInv
  <2>2. \A q \in Loaded' : prev'[q] = target'[q]
    BY <1>1, <1>2 DEF LastTracked, Loaded
  <2> QED BY <1>3, <1>4, <1>5, <2>1, <2>2 DEF StageInv
<1>7. ASSUME NEW q \in Proxies, NEW l \in SessionLayers, identifier[l] = sessionName'[q]
      PROVE  l = session[q] \/ identifier[l] = sessionName[q]
  <2>1. CASE q \in Loaded
    <3>1. session[q] \in SessionLayers
      BY <2>1 DEF StageInv, StagesTyped
    <3> QED BY <1>1, <1>7, <2>1, <3>1, SessionAssumption DEF Identified
  <2>2. CASE q \notin Loaded
    BY <1>1, <1>7, <2>2
  <2> QED BY <2>1, <2>2
<1>8. \A q \in Proxies, l \in SessionLayers : Has(q, l)' => Has(q, l)
  BY <1>1, <1>7 DEF Has, LastTracked
<1>9. \A l \in SessionLayers : \A q, r \in Proxies : Has(q, l)' /\ Has(r, l)' => q = r
  BY <1>8 DEF OwnerInv
<1>10. \A q \in Proxies : {target'[q], prev'[q]} \cup sublayers'[q]
        \subseteq SessionLayers \cup Used[q] \cup Openable[q] \cup {NoLayer}
  BY <1>1 DEF OwnerInv, LastTracked
<1>11. \A l \in SessionLayers : \A q \in Proxies :
         l = session'[q] \/ identifier[l] = sessionName'[q] => l \notin sublayers'[q]
  BY <1>1, <1>7 DEF OwnerInv
<1> QED BY <1>1, <1>2, <1>6, <1>9, <1>10, <1>11 DEF OwnerInv

LEMMA SaveKeepsNames ==
  ASSUME TrackInv, SerializeAll, UNCHANGED sublayers
  PROVE  Kept(Current)' /\ NamesInv'
<1> USE DEF TrackInv, DatabaseInv
<1>1. /\ \A q \in Proxies : sessionName'[q] = IF q \in Loaded THEN identifier[session[q]] ELSE sessionName[q]
      /\ UNCHANGED <<identifier, sublayers, session, target, added, dirty>>
  BY DEF SerializeAll
<1>2. Loaded' = Loaded
  BY SaveKeepsStages
<1>3. /\ Kept(Current)'
      /\ DOMAIN layerToIds \ Dropped \subseteq DOMAIN layerToIds'
      /\ {session[p] : p \in Loaded} \ Dropped \subseteq DOMAIN layerToIds'
  BY SaveEffect DEF StageInv
<1> SUFFICES ASSUME NEW q \in Proxies, NEW l \in Layers, identifier[l] = sessionName'[q]
             PROVE  /\ l \in dirty => l \in DOMAIN layerToIds'
                    /\ q \in Loaded /\ target[q] = l => l \in DOMAIN layerToIds'
  BY <1>1, <1>2, <1>3 DEF NamesInv
<1>4. CASE q \in Loaded
  <2>1. session[q] \in SessionLayers /\ session[q] \notin Dropped
    BY <1>4, SessionNotDropped
  <2>2. l = session[q]
    BY <1>1, <1>4, <2>1, SessionAssumption DEF Identified
  <2> QED BY <1>3, <1>4, <2>1, <2>2
<1>5. CASE q \notin Loaded
  <2>1. l \in dirty => l \in DOMAIN layerToIds /\ l \notin Dropped
    BY <1>1, <1>5 DEF NamesInv, Dropped
  <2> QED BY <1>3, <1>5, <2>1
<1> QED BY <1>4, <1>5

-----------------------------------------------------------------------------
\* A layer is created for p: one that nobody has or a file.
Creates(p, layer) ==
  /\ layer \in Layers /\ (Free(layer) \/ layer \in Openable[p])
  /\ DOMAIN layerToIds' = DOMAIN layerToIds \cup {layer}
  /\ sublayers' \in {sublayers, [sublayers EXCEPT ![p] = sublayers[p] \cup {layer}]}
  /\ dirty' \in {dirty, dirty \cup {Root[p]}}
  /\ UNCHANGED <<added, identifier, session, target, prev, sessionName>>

Uncreates(p, layer) ==
  /\ \A q \in Proxies : sessionName[q] # identifier[layer]
  /\ DOMAIN layerToIds \ {layer} \subseteq DOMAIN layerToIds'
  /\ DOMAIN layerToIds' \subseteq DOMAIN layerToIds
  /\ sublayers' \in {sublayers, [sublayers EXCEPT ![p] = sublayers[p] \ {layer}]}
  /\ dirty' \in {dirty, dirty \cup {Root[p]}}
  /\ UNCHANGED <<added, identifier, session, target, prev, sessionName>>

LEMMA CreateKeeps ==
  ASSUME TrackInv, NEW p \in Proxies, NEW layer, Creates(p, layer) \/ Uncreates(p, layer)
  PROVE  StageInv' /\ OwnerInv' /\ NamesInv' /\ Loaded' = Loaded
<1> USE DEF TrackInv, DatabaseInv
<1>1. DOMAIN sublayers = Proxies
  BY DEF StageInv
<1>2. UNCHANGED <<added, identifier, session, target, prev, sessionName>>
  BY DEF Creates, Uncreates
<1>3. Loaded' = Loaded
  BY <1>2 DEF Loaded
<1>4. /\ sublayers'[p] \subseteq sublayers[p] \cup {layer}
      /\ \A q \in Proxies : q # p => sublayers'[q] = sublayers[q]
  BY <1>1 DEF Creates, Uncreates
<1>5. layer \in sublayers'[p] \ sublayers[p] => layer \in Layers /\ (Free(layer) \/ layer \in Openable[p])
  BY <1>1 DEF Creates, Uncreates
<1>6. sublayers' \in [Proxies -> SUBSET Layers]
  BY DEF Creates, Uncreates, StageInv
<1>7. StageInv'
  <2>1. StagesTyped'
    BY <1>2, <1>3 DEF StageInv, StagesTyped
  <2> QED BY <1>2, <1>3, <1>6, <2>1 DEF StageInv
<1>8. \A l \in SessionLayers : \A q \in Proxies : l \notin Openable[q]
  BY RootAssumption
<1>9. \A q \in Proxies, l \in SessionLayers : Has(q, l)' =>
        Has(q, l) \/ (q = p /\ \A r \in Proxies : ~Has(r, l))
  <2> TAKE q \in Proxies, l \in SessionLayers
  <2>1. CASE q = p /\ l = layer /\ l \in sublayers'[p] \ sublayers[p]
    BY <1>5, <1>8, <2>1 DEF Free
  <2>2. CASE ~(q = p /\ l = layer /\ l \in sublayers'[p] \ sublayers[p])
    BY <1>2, <1>4, <2>2 DEF Has
  <2> QED BY <2>1, <2>2
<1>10. \A l \in SessionLayers : \A q, r \in Proxies : Has(q, l)' /\ Has(r, l)' => q = r
  BY <1>2, <1>9, OwnersStep
<1>11. \A q \in Proxies : {target'[q], prev'[q]} \cup sublayers'[q]
        \subseteq SessionLayers \cup Used[q] \cup Openable[q] \cup {NoLayer}
  BY <1>2, <1>4, <1>5 DEF OwnerInv, Free
<1>12. \A l \in SessionLayers : \A q \in Proxies :
         l = session'[q] \/ identifier[l] = sessionName'[q] => l \notin sublayers'[q]
  <2> SUFFICES ASSUME NEW l \in SessionLayers, NEW q \in Proxies,
                      l = session[q] \/ identifier[l] = sessionName[q]
               PROVE  l \notin sublayers'[q]
    BY <1>2
  <2>1. l \notin sublayers[q] /\ Has(q, l)
    BY DEF OwnerInv, Has
  <2> QED BY <1>4, <1>5, <1>8, <2>1 DEF Free
<1>13. OwnerInv'
  BY <1>2, <1>10, <1>11, <1>12 DEF OwnerInv
<1>14. NamesInv'
  <2> SUFFICES ASSUME NEW q \in Proxies, NEW l \in Layers, identifier[l] = sessionName[q]
               PROVE  /\ l \in dirty' => l \in DOMAIN layerToIds'
                      /\ q \in Loaded /\ target[q] = l => l \in DOMAIN layerToIds'
    BY <1>2, <1>3 DEF NamesInv
  <2>1. l \in DOMAIN layerToIds => l \in DOMAIN layerToIds'
    BY DEF Creates, Uncreates
  <2>2. l \in SessionLayers
    BY NameIsOfSession
  <2>3. l # Root[p]
    BY <2>2, RootAssumption, UsedAssumption
  <2>4. l \in dirty' => l \in dirty
    BY <2>3 DEF Creates, Uncreates
  <2> QED BY <2>1, <2>4 DEF NamesInv
<1> QED BY <1>3, <1>7, <1>13, <1>14

\* An edit through a stage, or a layer that has edits no more.
LEMMA EditKeeps ==
  ASSUME TrackInv,
         \/ \E p \in Loaded : dirty' = dirty \cup {target[p]}
         \/ dirty' \subseteq dirty,
         UNCHANGED <<layerToIds, idToLayer, identifier, session, target, prev, sessionName, sublayers>>
  PROVE  /\ Kept(Current)' /\ dirty' \subseteq Layers
         /\ StageInv' /\ OwnerInv' /\ NamesInv' /\ Loaded' = Loaded
<1> USE DEF TrackInv, DatabaseInv
<1>1. Loaded' = Loaded
  BY DEF Loaded
<1>2. Kept(Current)'
  BY SameKept
<1>3. dirty' \subseteq Layers
  BY DEF StageInv, StagesTyped
<1>4. StageInv' /\ OwnerInv'
  <2>1. StagesTyped'
    BY <1>1 DEF StageInv, StagesTyped
  <2> QED BY <1>1, <2>1 DEF StageInv, OwnerInv, Has
<1>5. NamesInv'
  <2> SUFFICES ASSUME NEW q \in Proxies, NEW l \in Layers, identifier[l] = sessionName[q]
               PROVE  /\ l \in dirty' => l \in DOMAIN layerToIds
                      /\ q \in Loaded /\ target[q] = l => l \in DOMAIN layerToIds
    BY <1>1 DEF NamesInv
  <2>1. ASSUME NEW p \in Loaded, target[p] = l PROVE l \in DOMAIN layerToIds
    <3>1. l \in SessionLayers /\ p \in Proxies
      BY NameIsOfSession DEF Loaded
    <3>2. p = q
      BY <2>1, <3>1 DEF OwnerInv, Has
    <3> QED BY <2>1, <3>2 DEF NamesInv
  <2> QED BY <2>1 DEF NamesInv
<1> QED BY <1>1, <1>2, <1>3, <1>4, <1>5

-----------------------------------------------------------------------------
(***************************************************************************)
(* What each action of LayerCommands does, in these words.                 *)
(***************************************************************************)
LEMMA StageChangedIs ==
  ASSUME TrackInv, QueueInv, NEW p \in Proxies, StageChanged(p)
  PROVE  /\ Kept(Current)'
         /\ \/ \E layer \in SessionLayers : /\ LoadsOwn(p, layer)
                                            /\ layer \in NewLayers \/ identifier[layer] = sessionName[p]
            \/ Unloads(p)
         /\ UNCHANGED <<identifier, dirty, added, sublayers>>
<1>1. UNCHANGED sublayers
  BY DEF StageChanged
<1>2. CASE LoadStage(p) /\ session'[p] \notin Fresh \ NewLayers
  BY <1>1, <1>2, LoadOwn DEF LoadStage
<1>3. CASE LoadFails(p) \/ DestroyProxy(p)
  BY <1>1, <1>3, UnloadEffect DEF LoadFails, DestroyProxy, vars, dbVars
<1> QED BY <1>2, <1>3 DEF StageChanged

LEMMA SetTargetIs ==
  ASSUME TrackInv, NEW p \in Loaded, NEW layer, SetTarget(p, layer)
  PROVE  /\ Kept(Current)'
         /\ \/ Targets(p, layer)
            \/ layer \notin StageLayers(p) \ {target[p]} /\ UNCHANGED trackVars
         /\ UNCHANGED <<sublayers, silent>>
<1>1. UNCHANGED <<sublayers, silent>>
  BY DEF SetTarget
<1>2. CASE layer \in StageLayers(p) \ {target[p]}
  <2>1. TargetChanged(p, layer)
    BY <1>2 DEF SetTarget
  <2> QED BY <1>1, <1>2, <2>1, TargetsEffect
<1>3. CASE layer \notin StageLayers(p) \ {target[p]}
  <2>1. UNCHANGED trackVars
    BY <1>3 DEF SetTarget
  <2> QED BY <1>1, <1>3, <2>1, SameKept DEF trackVars, vars, dbVars, TrackInv, DatabaseInv
<1> QED BY <1>2, <1>3

LEMMA DoCreateIs ==
  ASSUME TrackInv, NEW p \in Proxies, NEW layer, NEW sub, DoCreate(p, layer, sub),
         Free(layer) \/ layer \in Openable[p]
  PROVE  /\ Kept(Current)' /\ Creates(p, layer)
         /\ sublayers' = IF sub THEN [sublayers EXCEPT ![p] = sublayers[p] \cup {layer}] ELSE sublayers
<1>0. layer \in Layers
  BY SessionAssumption, RootAssumption DEF Free
<1>1. Kept(Current)' /\ DOMAIN layerToIds' = DOMAIN layerToIds \cup {layer}
  BY <1>0, CreateEffect DEF TrackInv, DatabaseInv
<1>2. SetSublayers(p, IF sub THEN sublayers[p] \cup {layer} ELSE sublayers[p])
  BY DEF DoCreate
<1>3. sublayers' = IF sub THEN [sublayers EXCEPT ![p] = sublayers[p] \cup {layer}] ELSE sublayers
  <2>1. sublayers \in [Proxies -> SUBSET Layers]
    BY DEF TrackInv, StageInv
  <2>2. CASE sub
    BY <1>2, <2>2 DEF SetSublayers
  <2>3. CASE ~sub
    BY <1>2, <2>1, <2>3 DEF SetSublayers
  <2> QED BY <2>2, <2>3
<1>4. dirty' \in {dirty, dirty \cup {Root[p]}}
  BY <1>2 DEF SetSublayers
<1>5. UNCHANGED <<added, identifier, session, target, prev, sessionName>>
  BY DEF DoCreate
<1> QED BY <1>0, <1>1, <1>3, <1>4, <1>5 DEF Creates

LEMMA UndoCreateIs ==
  ASSUME TrackInv, NEW e, e.proxy \in Proxies, UndoCreate(e),
         \A q \in Proxies : sessionName[q] # identifier[e.layer]
  PROVE  /\ Kept(Current)' /\ Uncreates(e.proxy, e.layer)
         /\ sublayers' = IF e.sublayer THEN [sublayers EXCEPT ![e.proxy] = sublayers[e.proxy] \ {e.layer}]
                         ELSE sublayers
<1> DEFINE p == e.proxy
<1>1. /\ Kept(Current)'
      /\ DOMAIN layerToIds \ {e.layer} \subseteq DOMAIN layerToIds'
      /\ DOMAIN layerToIds' \subseteq DOMAIN layerToIds
  BY UncreateEffect DEF TrackInv, DatabaseInv
<1>2. SetSublayers(p, IF e.sublayer THEN sublayers[p] \ {e.layer} ELSE sublayers[p])
  BY DEF UndoCreate
<1>3. sublayers' = IF e.sublayer THEN [sublayers EXCEPT ![p] = sublayers[p] \ {e.layer}] ELSE sublayers
  <2>1. sublayers \in [Proxies -> SUBSET Layers]
    BY DEF TrackInv, StageInv
  <2>2. CASE e.sublayer
    BY <1>2, <2>2 DEF SetSublayers
  <2>3. CASE ~e.sublayer
    BY <1>2, <2>1, <2>3 DEF SetSublayers
  <2> QED BY <2>2, <2>3
<1>4. dirty' \in {dirty, dirty \cup {Root[p]}}
  BY <1>2 DEF SetSublayers
<1>5. UNCHANGED <<added, identifier, session, target, prev, sessionName>>
  BY DEF UndoCreate
<1> QED BY <1>1, <1>3, <1>4, <1>5 DEF Uncreates

-----------------------------------------------------------------------------
\* A command is fine after a step.
FineAfter(e) ==
  /\ e.kind = "create" =>
       /\ e.layer \in SessionLayers \cup Openable[e.proxy]
       /\ \A p \in Proxies : session'[p] # e.layer /\ sessionName'[p] # identifier'[e.layer]
  /\ e.kind = "target" /\ e.onStage => e.proxy \in Loaded'

LEMMA QueueAfter ==
  ASSUME done' \in Seq(AllCommands), undone' \in Seq(AllCommands),
         \A i \in 1..Len(done') : FineAfter(done'[i]),
         \A i \in 1..Len(undone') : FineAfter(undone'[i])
  PROVE  QueueInv'
BY DEF QueueInv, FineCommand, FineAfter

LEMMA StaysFine ==
  ASSUME UNCHANGED <<identifier, session, sessionName>>, Loaded' = Loaded, NEW e, FineCommand(e)
  PROVE  FineAfter(e)
BY DEF FineCommand, FineAfter

LEMMA QueueStays ==
  ASSUME QueueInv, UNCHANGED <<identifier, session, sessionName, done, undone>>, Loaded' = Loaded
  PROVE  QueueInv'
BY DEF QueueInv, FineCommand

\* The commands of p, without their stage.
OffStageOf(p, s, t) ==
  /\ t \in Seq(AllCommands) /\ Len(t) = Len(s)
  /\ \A i \in 1..Len(s) :
       \/ t[i] = s[i] /\ ~(s[i].kind = "target" /\ s[i].proxy = p)
       \/ /\ s[i].kind = "target" /\ s[i].proxy = p
          /\ t[i] \in TargetCommands /\ ~t[i].onStage

LEMMA OffStageIs ==
  ASSUME NEW p, NEW s \in Seq(AllCommands), NEW t, t = OffStage(p, s)
  PROVE  OffStageOf(p, s, t)
<1>1. Len(s) \in Nat /\ \A i \in 1..Len(s) : s[i] \in AllCommands
  BY ElementOfSeq
<1>2. t = [i \in 1..Len(s) |-> IF s[i].kind = "target" /\ s[i].proxy = p
                               THEN [s[i] EXCEPT !.onStage = FALSE] ELSE s[i]]
  BY DEF OffStage
<1>3. ASSUME NEW i \in 1..Len(s), s[i].kind = "target"
      PROVE  /\ [s[i] EXCEPT !.onStage = FALSE] \in TargetCommands
             /\ ~[s[i] EXCEPT !.onStage = FALSE].onStage
  <2>1. s[i] \in TargetCommands
    BY <1>1, <1>3, CommandKinds
  <2> QED BY <2>1 DEF TargetCommands
<1>4. \A i \in 1..Len(s) : t[i] \in AllCommands
  BY <1>1, <1>2, <1>3 DEF AllCommands
<1>5. t \in [1..Len(s) -> AllCommands]
  BY <1>2, <1>4
<1>6. t \in Seq(AllCommands) /\ Len(t) = Len(s)
  BY <1>1, <1>5
<1> QED BY <1>2, <1>3, <1>6 DEF OffStageOf

\* What is left to show of a step, when the rest is known.
LEMMA DatabaseStep ==
  ASSUME TrackInv, Kept(Current)', UNCHANGED <<identifier, added>>, dirty' \subseteq Layers
  PROVE  DatabaseInv'
BY DEF TrackInv, DatabaseInv, Identified

LEMMA StageChangedKeeps ==
  ASSUME TrackInv, QueueInv, NEW p \in Proxies, StageChanged(p)
  PROVE  TrackInv' /\ QueueInv'
<1>1. /\ Kept(Current)'
      /\ \/ \E layer \in SessionLayers : /\ LoadsOwn(p, layer)
                                         /\ layer \in NewLayers \/ identifier[layer] = sessionName[p]
         \/ Unloads(p)
      /\ UNCHANGED <<identifier, dirty, added, sublayers>>
  BY StageChangedIs
<1>2. DatabaseInv'
  BY <1>1, DatabaseStep DEF TrackInv, DatabaseInv
<1>3. /\ OffStageOf(p, done, done') /\ OffStageOf(p, undone, undone')
      /\ done \in Seq(AllCommands) /\ undone \in Seq(AllCommands)
  <2>1. /\ done' = OffStage(p, done) /\ undone' = OffStage(p, undone)
        /\ done \in Seq(AllCommands) /\ undone \in Seq(AllCommands)
    BY DEF StageChanged, QueueInv
  <2> QED BY <2>1, OffStageIs
<1>6. ASSUME NEW e \in TargetCommands, ~e.onStage PROVE FineAfter(e)
  BY <1>6 DEF FineAfter, TargetCommands
<1>7. ASSUME \A e \in AllCommands : /\ \/ \E i \in 1..Len(done) : e = done[i]
                                       \/ \E i \in 1..Len(undone) : e = undone[i]
                                    /\ ~(e.kind = "target" /\ e.proxy = p)
                                    => FineAfter(e)
      PROVE  QueueInv'
  <2>1. ASSUME NEW i \in 1..Len(done) PROVE FineAfter(done'[i])
    <3>1. done[i] \in AllCommands
      BY <1>3, ElementOfSeq
    <3> QED BY <1>3, <1>6, <1>7, <3>1 DEF OffStageOf
  <2>2. ASSUME NEW i \in 1..Len(undone) PROVE FineAfter(undone'[i])
    <3>1. undone[i] \in AllCommands
      BY <1>3, ElementOfSeq
    <3> QED BY <1>3, <1>6, <1>7, <3>1 DEF OffStageOf
  <2> QED BY <1>3, <2>1, <2>2, QueueAfter DEF OffStageOf
<1>8. ASSUME NEW layer \in SessionLayers, LoadsOwn(p, layer),
             layer \in NewLayers \/ identifier[layer] = sessionName[p]
      PROVE  TrackInv' /\ QueueInv'
  <2>1. TrackInv'
    BY <1>2, <1>8, LoadKeepsStages, LoadKeepsOwners, LoadKeepsNames DEF TrackInv
  <2>2. /\ session' = [session EXCEPT ![p] = layer] /\ UNCHANGED <<identifier, sessionName>>
        /\ session \in [Proxies -> SessionLayers \cup {NoLayer}]
    BY <1>8 DEF LoadsOwn, Loads, TrackInv, StageInv, StagesTyped
  <2>3. ASSUME NEW e \in AllCommands, \/ \E i \in 1..Len(done) : e = done[i]
                                      \/ \E i \in 1..Len(undone) : e = undone[i],
               ~(e.kind = "target" /\ e.proxy = p)
        PROVE  FineAfter(e)
    <3>1. FineCommand(e)
      BY <2>3 DEF QueueInv
    <3>2. CASE e.kind = "create"
      <4>1. layer # e.layer
        <5>1. CASE layer \in NewLayers
          BY <2>3, <5>1, NewIsFree DEF TrackInv
        <5>2. CASE identifier[layer] = sessionName[p]
          BY <3>1, <3>2, <5>2 DEF FineCommand
        <5> QED BY <1>8, <5>1, <5>2
      <4> QED BY <2>2, <3>1, <3>2, <4>1, CommandKinds DEF FineCommand, FineAfter
    <3>3. CASE e.kind # "create"
      <4>1. e.proxy # p
        BY <2>3, <3>3, CommandKinds
      <4>2. e.proxy \in Loaded => e.proxy \in Loaded'
        BY <2>2, <4>1 DEF Loaded
      <4> QED BY <3>1, <3>3, <4>2 DEF FineCommand, FineAfter
    <3> QED BY <3>2, <3>3
  <2> QED BY <1>7, <2>1, <2>3
<1>9. ASSUME Unloads(p) PROVE TrackInv' /\ QueueInv'
  <2>1. TrackInv' /\ Loaded' = Loaded \ {p}
    BY <1>2, <1>9, UnloadKeepsStages, UnloadKeepsNames DEF TrackInv
  <2>2. /\ \A q \in Proxies : session'[q] \in {session[q], NoLayer} /\ sessionName'[q] \in {sessionName[q], NoId}
        /\ UNCHANGED identifier
    BY <1>9 DEF Unloads, TrackInv, StageInv, StagesTyped
  <2>3. ASSUME NEW e \in AllCommands, \/ \E i \in 1..Len(done) : e = done[i]
                                      \/ \E i \in 1..Len(undone) : e = undone[i],
               ~(e.kind = "target" /\ e.proxy = p)
        PROVE  FineAfter(e)
    <3>1. FineCommand(e)
      BY <2>3 DEF QueueInv
    <3>2. CASE e.kind = "create"
      <4>1. e.layer \in Layers /\ e.layer # NoLayer /\ identifier[e.layer] # NoId
        BY <3>2, CommandKinds, NoAssumption DEF CreateCommands, TrackInv, DatabaseInv, Identified
      <4> QED BY <2>2, <3>1, <3>2, <4>1, CommandKinds DEF FineCommand, FineAfter
    <3>3. CASE e.kind # "create"
      <4>1. e.proxy # p
        BY <2>3, <3>3, CommandKinds
      <4> QED BY <2>1, <3>1, <3>3, <4>1 DEF FineCommand, FineAfter
    <3> QED BY <3>2, <3>3
  <2> QED BY <1>7, <2>1, <2>3
<1> QED BY <1>1, <1>8, <1>9

-----------------------------------------------------------------------------
\* The root layers that are silent have edits.
GhostInv == silent \subseteq dirty \cap Range(Root) /\ sound \in BOOLEAN

CommandInv == TrackInv /\ QueueInv /\ GhostInv

LEMMA SublayersSilent ==
  ASSUME GhostInv, NEW p \in Proxies, NEW S, SetSublayers(p, S), sound' \in BOOLEAN
  PROVE  GhostInv'
<1>1. Root[p] \in Range(Root)
  BY RootAssumption DEF Range
<1> QED BY <1>1 DEF GhostInv, SetSublayers

\* A step of a queue, which the stages are the same after.
LEMMA QueueMoves ==
  ASSUME QueueInv, UNCHANGED <<identifier, session, sessionName>>, Loaded' = Loaded,
         done' \in Seq(AllCommands), undone' \in Seq(AllCommands),
         \A i \in 1..Len(done') : \/ FineAfter(done'[i])
                                  \/ \E j \in 1..Len(done) : done'[i] = done[j]
                                  \/ \E j \in 1..Len(undone) : done'[i] = undone[j],
         \A i \in 1..Len(undone') : \/ FineAfter(undone'[i])
                                    \/ \E j \in 1..Len(done) : undone'[i] = done[j]
                                    \/ \E j \in 1..Len(undone) : undone'[i] = undone[j]
  PROVE  QueueInv'
<1>1. \A j \in 1..Len(done) : FineAfter(done[j])
  BY StaysFine DEF QueueInv
<1>2. \A j \in 1..Len(undone) : FineAfter(undone[j])
  BY StaysFine DEF QueueInv
<1> QED BY <1>1, <1>2, QueueAfter

LEMMA SameTracking ==
  ASSUME TrackInv, UNCHANGED <<trackVars, sublayers>>
  PROVE  TrackInv' /\ Loaded' = Loaded
<1>1. UNCHANGED <<layerToIds, idToLayer, added, identifier, dirty, session, target, prev, sessionName,
                  sublayers>>
  BY DEF trackVars, vars, dbVars
<1>2. Kept(Current)'
  BY <1>1, SameKept DEF TrackInv, DatabaseInv
<1>3. Loaded' = Loaded
  BY <1>1 DEF Loaded
<1>4. StageInv'
  <2>1. StagesTyped'
    BY <1>1, <1>3 DEF TrackInv, StageInv, StagesTyped
  <2> QED BY <1>1, <1>3, <2>1 DEF TrackInv, StageInv
<1>5. OwnerInv'
  BY <1>1 DEF TrackInv, OwnerInv, Has
<1>6. NamesInv'
  BY <1>1, <1>3 DEF TrackInv, NamesInv
<1>7. DatabaseInv'
  BY <1>1, <1>2, DatabaseStep DEF TrackInv, DatabaseInv
<1> QED BY <1>3, <1>4, <1>5, <1>6, <1>7 DEF TrackInv

LEMMA PushKeeps ==
  ASSUME QueueInv, UNCHANGED <<identifier, session, sessionName>>, Loaded' = Loaded,
         NEW e \in AllCommands, FineAfter(e), Pushed(e)
  PROVE  QueueInv'
<1>1. done \in Seq(AllCommands) /\ done' = Append(done, e) /\ undone' = << >>
  BY DEF QueueInv, Pushed
<1>2. /\ done' \in Seq(AllCommands) /\ Len(done') = Len(done) + 1
      /\ done'[Len(done) + 1] = e
      /\ \A i \in 1..Len(done) : done'[i] = done[i]
  BY <1>1, OneOn
<1>3. Len(done) \in Nat
  BY <1>1
<1>4. undone' \in Seq(AllCommands) /\ Len(undone') = 0
  BY <1>1
<1>5. ASSUME NEW i \in 1..Len(done')
      PROVE  FineAfter(done'[i]) \/ \E j \in 1..Len(done) : done'[i] = done[j]
  <2>1. i = Len(done) + 1 \/ i \in 1..Len(done)
    BY <1>2, <1>3
  <2> QED BY <1>2, <2>1
<1>6. 1..Len(undone') = {}
  BY <1>4
<1> QED BY <1>2, <1>4, <1>5, <1>6, QueueMoves

LEMMA CreatedIs ==
  ASSUME TrackInv, NEW p \in Proxies, NEW layer, Free(layer) \/ layer \in Openable[p],
         NEW sub \in BOOLEAN, UNCHANGED <<identifier, session, sessionName>>
  PROVE  Created(p, layer, sub) \in AllCommands /\ FineAfter(Created(p, layer, sub))
<1>1. layer \in Layers /\ (layer \in SessionLayers \/ layer \in Openable[p])
  BY SessionAssumption, RootAssumption DEF Free
<1>2. Created(p, layer, sub) \in AllCommands
  BY <1>1 DEF Created, AllCommands, CreateCommands
<1>3. ASSUME NEW q \in Proxies PROVE session[q] # layer /\ sessionName[q] # identifier[layer]
  <2>1. CASE Free(layer)
    BY <2>1 DEF Free, Has
  <2>2. CASE layer \notin SessionLayers
    <3>1. session[q] \in SessionLayers \cup {NoLayer}
      BY DEF TrackInv, StageInv, StagesTyped
    <3> QED BY <1>1, <2>2, <3>1, NameIsOfSession, NoAssumption DEF TrackInv, DatabaseInv
  <2> QED BY <2>1, <2>2, RootAssumption
<1>4. FineAfter(Created(p, layer, sub))
  BY <1>1, <1>3 DEF Created, FineAfter
<1> QED BY <1>2, <1>4

LEMMA CreatesKeeps ==
  ASSUME TrackInv, NEW p \in Proxies, NEW layer, Creates(p, layer) \/ Uncreates(p, layer),
         Kept(Current)'
  PROVE  TrackInv' /\ Loaded' = Loaded
<1>1. StageInv' /\ OwnerInv' /\ NamesInv' /\ Loaded' = Loaded
  BY CreateKeeps
<1>2. dirty' \subseteq Layers /\ UNCHANGED <<identifier, added>>
  BY RootAssumption DEF Creates, Uncreates, TrackInv, DatabaseInv
<1> QED BY <1>1, <1>2, DatabaseStep DEF TrackInv

LEMMA TargetsKeeps ==
  ASSUME TrackInv, NEW p \in Proxies, NEW layer, Targets(p, layer), Kept(Current)'
  PROVE  TrackInv' /\ Loaded' = Loaded
<1>1. StageInv' /\ OwnerInv' /\ NamesInv' /\ Loaded' = Loaded
  BY TargetsKeepsStages, TargetsKeepsNames
<1>2. dirty' \subseteq Layers /\ UNCHANGED <<identifier, added>>
  BY DEF Targets, TrackInv, DatabaseInv
<1> QED BY <1>1, <1>2, DatabaseStep DEF TrackInv

\* A command that sets a target, whether it does so or not.
LEMMA SetTargetKeeps ==
  ASSUME TrackInv, NEW p \in Loaded, NEW layer, SetTarget(p, layer)
  PROVE  /\ TrackInv' /\ Loaded' = Loaded
         /\ UNCHANGED <<identifier, added, dirty, session, sessionName, sublayers, silent>>
<1>1. /\ Kept(Current)'
      /\ Targets(p, layer) \/ UNCHANGED trackVars
      /\ UNCHANGED <<sublayers, silent>>
  BY SetTargetIs
<1>2. CASE Targets(p, layer)
  BY <1>1, <1>2, TargetsKeeps DEF Targets, Loaded
<1>3. CASE UNCHANGED trackVars
  BY <1>1, <1>3, SameTracking DEF trackVars, vars, dbVars
<1> QED BY <1>1, <1>2, <1>3

LEMMA CreateLayerKeeps ==
  ASSUME CommandInv, NEW p \in Proxies, NEW layer, NEW sub \in BOOLEAN,
         LayerCreateLayer(p, layer, sub)
  PROVE  CommandInv'
<1> USE DEF CommandInv
<1>1. /\ DoCreate(p, layer, sub) /\ Pushed(Created(p, layer, sub)) /\ sound' = sound
      /\ layer \in NewLayers \/ layer \in Openable[p]
  BY DEF LayerCreateLayer
<1>2. Free(layer) \/ layer \in Openable[p]
  BY <1>1, NewIsFree DEF TrackInv
<1>3. Kept(Current)' /\ Creates(p, layer)
  BY <1>1, <1>2, DoCreateIs
<1>4. TrackInv' /\ Loaded' = Loaded
  BY <1>3, CreatesKeeps
<1>5. GhostInv'
  BY <1>1, SublayersSilent DEF DoCreate, GhostInv
<1>6. UNCHANGED <<identifier, session, sessionName>>
  BY <1>3 DEF Creates
<1>7. Created(p, layer, sub) \in AllCommands /\ FineAfter(Created(p, layer, sub))
  BY <1>2, <1>6, CreatedIs
<1>8. QueueInv'
  BY <1>1, <1>4, <1>6, <1>7, PushKeeps
<1> QED BY <1>4, <1>5, <1>8

LEMMA TargetedIs ==
  ASSUME TrackInv, NEW p \in Loaded, NEW layer \in Layers
  PROVE  Targeted(p, layer) \in AllCommands
<1>1. p \in Proxies /\ target[p] \in Layers
  BY DEF TrackInv, StageInv, StagesTyped, Loaded
<1> QED BY <1>1 DEF Targeted, AllCommands, TargetCommands

LEMMA CurrentEditTargetKeeps ==
  ASSUME CommandInv, NEW p \in Proxies, NEW layer \in Layers, LayerCurrentEditTarget(p, layer)
  PROVE  CommandInv'
<1> USE DEF CommandInv
<1>1. /\ p \in Loaded /\ SetTarget(p, layer) /\ Pushed(Targeted(p, layer)) /\ sound' = sound
  BY DEF LayerCurrentEditTarget
<1>2. /\ TrackInv' /\ Loaded' = Loaded
      /\ UNCHANGED <<identifier, added, dirty, session, sessionName, sublayers, silent>>
  BY <1>1, SetTargetKeeps
<1>3. GhostInv'
  BY <1>1, <1>2 DEF GhostInv
<1>4. Targeted(p, layer) \in AllCommands /\ FineAfter(Targeted(p, layer))
  <2>1. FineAfter(Targeted(p, layer))
    BY <1>1, <1>2 DEF FineAfter, Targeted
  <2> QED BY <1>1, <2>1, TargetedIs
<1>5. QueueInv'
  BY <1>1, <1>2, <1>4, PushKeeps
<1> QED BY <1>2, <1>3, <1>5

-----------------------------------------------------------------------------
\* What is done last is a command, and a fine one.
LEMMA LastIs ==
  ASSUME NEW s \in Seq(AllCommands), s # << >>, \A i \in 1..Len(s) : FineCommand(s[i])
  PROVE  /\ Last(s) \in AllCommands /\ FineCommand(Last(s)) /\ Last(s).proxy \in Proxies
         /\ Last(s).kind = "create" => Last(s) \in CreateCommands
         /\ Last(s).kind # "create" => Last(s) \in TargetCommands /\ Last(s).kind = "target"
<1>1. Last(s) \in AllCommands /\ FineCommand(Last(s))
  BY OneOff
<1> QED BY <1>1, CommandKinds

\* A command goes from one sequence to the other.
LEMMA MoveKeeps ==
  ASSUME QueueInv, UNCHANGED <<identifier, session, sessionName>>, Loaded' = Loaded,
         \/ done # << >> /\ done' = Front(done) /\ undone' = Append(undone, Last(done))
         \/ undone # << >> /\ undone' = Front(undone) /\ done' = Append(done, Last(undone))
  PROVE  QueueInv'
<1>1. done \in Seq(AllCommands) /\ undone \in Seq(AllCommands) /\ Len(done) \in Nat /\ Len(undone) \in Nat
  BY DEF QueueInv
<1>2. ASSUME NEW s \in Seq(AllCommands), NEW t \in Seq(AllCommands), s # << >>
      PROVE  /\ Front(s) \in Seq(AllCommands) /\ Append(t, Last(s)) \in Seq(AllCommands)
             /\ \A i \in 1..Len(Front(s)) : \E j \in 1..Len(s) : Front(s)[i] = s[j]
             /\ \A i \in 1..Len(Append(t, Last(s))) :
                  \/ \E j \in 1..Len(s) : Append(t, Last(s))[i] = s[j]
                  \/ \E j \in 1..Len(t) : Append(t, Last(s))[i] = t[j]
  <2>1. /\ Len(s) \in 1..Len(s) /\ Last(s) = s[Len(s)] /\ Last(s) \in AllCommands
        /\ Front(s) \in Seq(AllCommands) /\ Len(Front(s)) = Len(s) - 1
        /\ \A i \in 1..Len(s) - 1 : i \in 1..Len(s) /\ Front(s)[i] = s[i]
    BY <1>2, OneOff
  <2>2. /\ Append(t, Last(s)) \in Seq(AllCommands) /\ Len(Append(t, Last(s))) = Len(t) + 1
        /\ Append(t, Last(s))[Len(t) + 1] = Last(s)
        /\ \A i \in 1..Len(t) : i \in 1..Len(t) + 1 /\ Append(t, Last(s))[i] = t[i]
    BY <2>1, OneOn
  <2>3. Len(t) \in Nat
    OBVIOUS
  <2>4. \A i \in 1..Len(t)+1 : i = Len(t)+1 \/ i \in 1..Len(t)
    BY <2>3
  <2>5. \A i \in 1..Len(Append(t, Last(s))) :
          \/ \E j \in 1..Len(s) : Append(t, Last(s))[i] = s[j]
          \/ \E j \in 1..Len(t) : Append(t, Last(s))[i] = t[j]
    BY <2>1, <2>2, <2>4
  <2>6. \A i \in 1..Len(Front(s)) : \E j \in 1..Len(s) : Front(s)[i] = s[j]
    BY <2>1
  <2> QED BY <2>1, <2>2, <2>5, <2>6
<1>3. CASE done # << >> /\ done' = Front(done) /\ undone' = Append(undone, Last(done))
  <2>1. /\ done' \in Seq(AllCommands) /\ undone' \in Seq(AllCommands)
        /\ \A i \in 1..Len(done') : \E j \in 1..Len(done) : done'[i] = done[j]
        /\ \A i \in 1..Len(undone') : \/ \E j \in 1..Len(done) : undone'[i] = done[j]
                                      \/ \E j \in 1..Len(undone) : undone'[i] = undone[j]
    <3>1. /\ Front(done) \in Seq(AllCommands) /\ Append(undone, Last(done)) \in Seq(AllCommands)
          /\ \A i \in 1..Len(Front(done)) : \E j \in 1..Len(done) : Front(done)[i] = done[j]
          /\ \A i \in 1..Len(Append(undone, Last(done))) :
               \/ \E j \in 1..Len(done) : Append(undone, Last(done))[i] = done[j]
               \/ \E j \in 1..Len(undone) : Append(undone, Last(done))[i] = undone[j]
      BY <1>1, <1>2, <1>3
    <3> QED BY <1>3, <3>1
  <2> QED BY <2>1, QueueMoves
<1>4. CASE undone # << >> /\ undone' = Front(undone) /\ done' = Append(done, Last(undone))
  <2>1. /\ done' \in Seq(AllCommands) /\ undone' \in Seq(AllCommands)
        /\ \A i \in 1..Len(undone') : \E j \in 1..Len(undone) : undone'[i] = undone[j]
        /\ \A i \in 1..Len(done') : \/ \E j \in 1..Len(undone) : done'[i] = undone[j]
                                    \/ \E j \in 1..Len(done) : done'[i] = done[j]
    BY <1>1, <1>2, <1>4
  <2> QED BY <2>1, QueueMoves
<1> QED BY <1>3, <1>4

LEMMA UndoKeeps ==
  ASSUME CommandInv, Undo
  PROVE  CommandInv'
<1> USE DEF CommandInv
<1> DEFINE e == Last(done)
<1>1. /\ done # << >> /\ done' = Front(done) /\ undone' = Append(undone, e)
      /\ IF e.kind = "create" THEN UndoCreate(e) ELSE UndoTarget(e)
      /\ sound' = (sound /\ Sound(e))
  BY DEF Undo
<1>2. /\ e \in AllCommands /\ FineCommand(e) /\ e.proxy \in Proxies
      /\ e.kind # "create" => e.kind = "target"
  BY <1>1, LastIs DEF QueueInv
<1> HIDE DEF e
<1>3. sound' \in BOOLEAN
  BY <1>1
<1>4. CASE e.kind = "create"
  <2>1. UndoCreate(e) /\ \A q \in Proxies : sessionName[q] # identifier[e.layer]
    BY <1>1, <1>2, <1>4 DEF FineCommand
  <2>2. Kept(Current)' /\ Uncreates(e.proxy, e.layer)
    BY <1>2, <2>1, UndoCreateIs
  <2>3. TrackInv' /\ Loaded' = Loaded
    BY <1>2, <2>2, CreatesKeeps
  <2>4. GhostInv'
    BY <1>2, <1>3, <2>1, SublayersSilent DEF UndoCreate
  <2>5. UNCHANGED <<identifier, session, sessionName>>
    BY <2>1 DEF UndoCreate
  <2>6. QueueInv'
    BY <1>1, <2>3, <2>5, MoveKeeps DEF e
  <2> QED BY <2>3, <2>4, <2>6
<1>5. CASE e.kind # "create"
  <2>1. UndoTarget(e)
    BY <1>1, <1>5
  <2>2. /\ TrackInv' /\ Loaded' = Loaded
        /\ UNCHANGED <<identifier, added, dirty, session, sessionName, sublayers, silent>>
    <3>1. CASE e.onStage
      BY <1>2, <1>5, <2>1, <3>1, SetTargetKeeps DEF FineCommand, UndoTarget
    <3>2. CASE ~e.onStage
      BY <2>1, <3>2, SameTracking DEF UndoTarget, trackVars, vars, dbVars
    <3> QED BY <3>1, <3>2
  <2>3. GhostInv'
    BY <1>3, <2>2 DEF GhostInv
  <2>4. QueueInv'
    BY <1>1, <2>2, MoveKeeps DEF e
  <2> QED BY <2>2, <2>3, <2>4
<1> QED BY <1>4, <1>5

\* What redoing a creation makes of the commands that wait behind it.
ForgottenOf(a, b) ==
  \/ b = a
  \/ /\ a.kind = "target" /\ b \in TargetCommands
     /\ b.proxy = a.proxy /\ b.onStage = a.onStage

LEMMA ForgottenIs ==
  ASSUME NEW layer, NEW e \in AllCommands
  PROVE  Forgotten(layer, e) \in AllCommands /\ ForgottenOf(e, Forgotten(layer, e))
<1>1. CASE e.kind = "target"
  <2>1. e \in TargetCommands
    BY <1>1, CommandKinds
  <2> QED BY <1>1, <2>1 DEF Forgotten, ForgottenOf, TargetCommands, AllCommands
<1>2. CASE e.kind # "target"
  BY <1>2 DEF Forgotten, ForgottenOf
<1> QED BY <1>1, <1>2

\* Redoing a creation: the layer it makes now, and the two sequences.
LEMMA RedoCreateIs ==
  ASSUME CommandInv, undone # << >>, NEW e, e = Last(undone), e.kind = "create", RedoCreate(e)
  PROVE  \E layer \in Layers :
           /\ Free(layer) \/ layer \in Openable[e.proxy]
           /\ layer = e.layer \/ layer \in NewLayers
           /\ DoCreate(e.proxy, layer, e.sublayer)
           /\ done' = Append(done, Created(e.proxy, layer, e.sublayer))
           /\ undone' = [i \in 1..Len(undone) - 1 |->
                           IF layer = e.layer THEN undone[i] ELSE Forgotten(e.layer, undone[i])]
<1> USE DEF CommandInv
<1>1. e \in AllCommands /\ FineCommand(e) /\ e.proxy \in Proxies
  BY LastIs DEF QueueInv
<1>2. PICK layer \in (IF e.layer \in SessionLayers THEN NewLayers ELSE {e.layer}) :
        /\ DoCreate(e.proxy, layer, e.sublayer)
        /\ done' = Append(done, Created(e.proxy, layer, e.sublayer))
        /\ undone' = [i \in 1..Len(undone) - 1 |->
             IF layer = e.layer THEN undone[i] ELSE Forgotten(e.layer, undone[i])]
  BY DEF RedoCreate
<1>3. CASE e.layer \in SessionLayers
  <2>1. layer \in NewLayers
    BY <1>2, <1>3
  <2>2. Free(layer) /\ layer \in Layers
    BY <2>1, NewIsFree, SessionAssumption DEF TrackInv, Free
  <2> QED BY <1>2, <2>1, <2>2
<1>4. CASE e.layer \notin SessionLayers
  <2>1. layer = e.layer /\ layer \in Openable[e.proxy]
    BY <1>1, <1>2, <1>4 DEF FineCommand
  <2>2. layer \in Layers
    BY <1>1, <2>1, RootAssumption
  <2> QED BY <1>2, <2>1, <2>2
<1> QED BY <1>3, <1>4

LEMMA RedoCreateKeeps ==
  ASSUME CommandInv, undone # << >>, NEW e, e = Last(undone), e.kind = "create", RedoCreate(e),
         sound' = sound
  PROVE  CommandInv'
<1> USE DEF CommandInv
<1>1. e \in CreateCommands /\ FineCommand(e) /\ e.proxy \in Proxies /\ e.sublayer \in BOOLEAN
  BY LastIs DEF QueueInv, CreateCommands
<1>2. PICK layer \in Layers :
           /\ Free(layer) \/ layer \in Openable[e.proxy]
           /\ DoCreate(e.proxy, layer, e.sublayer)
           /\ done' = Append(done, Created(e.proxy, layer, e.sublayer))
           /\ undone' = [i \in 1..Len(undone) - 1 |->
                           IF layer = e.layer THEN undone[i] ELSE Forgotten(e.layer, undone[i])]
  BY RedoCreateIs
<1> DEFINE new == Created(e.proxy, layer, e.sublayer)
<1>3. Kept(Current)' /\ Creates(e.proxy, layer)
  BY <1>1, <1>2, DoCreateIs
<1>4. TrackInv' /\ Loaded' = Loaded
  BY <1>1, <1>3, CreatesKeeps
<1>5. GhostInv'
  BY <1>1, <1>2, SublayersSilent DEF DoCreate, GhostInv
<1>6. UNCHANGED <<identifier, session, sessionName>>
  BY <1>3 DEF Creates
<1>7. new \in AllCommands /\ FineAfter(new)
  BY <1>1, <1>2, <1>6, CreatedIs
<1> HIDE DEF new
<1>8. /\ done \in Seq(AllCommands) /\ Len(done) \in Nat /\ done' = Append(done, new)
      /\ undone \in Seq(AllCommands) /\ Len(undone) \in Nat /\ Len(undone) > 0
  BY <1>2 DEF QueueInv, new
<1>9. /\ done' \in Seq(AllCommands)
      /\ \A i \in 1..Len(done') : FineAfter(done'[i]) \/ \E j \in 1..Len(done) : done'[i] = done[j]
  <2>1. /\ done' \in Seq(AllCommands) /\ Len(done') = Len(done) + 1
        /\ done'[Len(done) + 1] = new
        /\ \A i \in 1..Len(done) : done'[i] = done[i]
    BY <1>7, <1>8, OneOn
  <2>2. \A i \in 1..Len(done') : i = Len(done) + 1 \/ i \in 1..Len(done)
    BY <1>8, <2>1
  <2> QED BY <1>7, <2>1, <2>2
<1>10. ASSUME NEW i \in 1..Len(undone) - 1
       PROVE  undone'[i] \in AllCommands /\ ForgottenOf(undone[i], undone'[i])
  <2>1. undone[i] \in AllCommands
    BY <1>8
  <2>2. undone'[i] = undone[i] \/ undone'[i] = Forgotten(e.layer, undone[i])
    BY <1>2
  <2> QED BY <2>1, <2>2, ForgottenIs DEF ForgottenOf
<1>11. undone' \in Seq(AllCommands) /\ Len(undone') = Len(undone) - 1
  <2>1. DOMAIN undone' = 1..Len(undone) - 1 /\ undone' = [i \in 1..Len(undone) - 1 |-> undone'[i]]
    BY <1>2
  <2>2. undone' \in [1..Len(undone) - 1 -> AllCommands]
    BY <1>10, <2>1
  <2>3. Len(undone) - 1 \in Nat
    BY <1>8
  <2> QED BY <2>2, <2>3
<1>12. ASSUME NEW i \in 1..Len(undone')
       PROVE  FineAfter(undone'[i]) \/ \E j \in 1..Len(undone) : undone'[i] = undone[j]
  <2>1. i \in 1..Len(undone) - 1 /\ i \in 1..Len(undone)
    BY <1>8, <1>11
  <2>2. ForgottenOf(undone[i], undone'[i]) /\ FineCommand(undone[i])
    BY <1>10, <2>1 DEF QueueInv
  <2>3. CASE undone'[i] = undone[i]
    BY <2>1, <2>3
  <2>4. CASE undone'[i] # undone[i]
    <3>1. FineAfter(undone'[i])
      BY <1>4, <2>2, <2>4 DEF ForgottenOf, FineCommand, FineAfter, TargetCommands
    <3> QED BY <3>1
  <2> QED BY <2>3, <2>4
<1>13. QueueInv'
  BY <1>4, <1>6, <1>9, <1>11, <1>12, QueueMoves
<1> QED BY <1>4, <1>5, <1>13

LEMMA RedoKeeps ==
  ASSUME CommandInv, Redo
  PROVE  CommandInv'
<1> USE DEF CommandInv
<1> DEFINE e == Last(undone)
<1>1. /\ undone # << >> /\ sound' = sound
      /\ IF e.kind = "create" THEN RedoCreate(e) ELSE RedoTarget(e)
  BY DEF Redo
<1>2. /\ e \in AllCommands /\ FineCommand(e) /\ e.proxy \in Proxies
      /\ e.kind # "create" => e.kind = "target"
  BY <1>1, LastIs DEF QueueInv
<1>3. CASE e.kind = "create"
  BY <1>1, <1>3, RedoCreateKeeps
<1>4. CASE e.kind # "create"
  <2>1. DoTarget(e) /\ done' = Append(done, e) /\ undone' = Front(undone)
    BY <1>1, <1>4 DEF RedoTarget
  <2>2. /\ TrackInv' /\ Loaded' = Loaded
        /\ UNCHANGED <<identifier, added, dirty, session, sessionName, sublayers, silent>>
    <3> HIDE DEF e
    <3>1. CASE e.onStage
      BY <1>2, <1>4, <2>1, <3>1, SetTargetKeeps DEF FineCommand, DoTarget
    <3>2. CASE ~e.onStage
      BY <2>1, <3>2, SameTracking DEF DoTarget, trackVars, vars, dbVars
    <3> QED BY <3>1, <3>2
  <2>3. GhostInv'
    BY <1>1, <2>2 DEF GhostInv
  <2>4. QueueInv'
    BY <1>1, <2>1, <2>2, MoveKeeps
  <2> QED BY <2>2, <2>3, <2>4
<1> QED BY <1>3, <1>4

-----------------------------------------------------------------------------
\* The other steps: they leave the commands as they are.
LEMMA StillKeeps ==
  ASSUME CommandInv, UNCHANGED <<done, undone, sound, identifier, session>>,
         TrackInv', Loaded' = Loaded, silent' \subseteq dirty' \cap Range(Root),
         UNCHANGED sessionName
  PROVE  CommandInv'
BY QueueStays DEF CommandInv, GhostInv

LEMMA RetargetedKeeps ==
  ASSUME CommandInv, NEW p \in Proxies, NEW layer \in Layers, Retargeted(p, layer)
  PROVE  CommandInv'
<1>1. /\ p \in Loaded /\ layer \in StageLayers(p) \ {target[p]} /\ TargetChanged(p, layer)
      /\ UNCHANGED <<sublayers, done, undone, silent, sound>>
  BY DEF Retargeted, queueVars
<1>2. Kept(Current)' /\ Targets(p, layer)
  BY <1>1, TargetsEffect DEF CommandInv
<1>3. TrackInv' /\ Loaded' = Loaded
  BY <1>2, TargetsKeeps DEF CommandInv
<1> QED BY <1>1, <1>2, <1>3, StillKeeps DEF Targets, CommandInv, GhostInv

LEMMA EditsKeep ==
  ASSUME CommandInv,
         (\E p \in Proxies : Edited(p)) \/ (\E layer \in Layers : Cleaned(layer))
  PROVE  CommandInv'
<1>1. /\ UNCHANGED <<layerToIds, idToLayer, added, identifier, session, target, prev, sessionName,
                     sublayers, done, undone, sound>>
      /\ \/ \E p \in Loaded : dirty' = dirty \cup {target[p]}
         \/ dirty' \subseteq dirty
      /\ silent' \subseteq dirty' \cap Range(Root)
  <2>1. CASE \E p \in Proxies : Edited(p)
    BY <2>1 DEF Edited, EditStage, Edit, dbVars, queueVars, CommandInv, GhostInv
  <2>2. CASE \E layer \in Layers : Cleaned(layer)
    BY <2>2 DEF Cleaned, CleanLayer, Clean, dbVars, queueVars, CommandInv, GhostInv
  <2> QED BY <2>1, <2>2
<1>2. /\ Kept(Current)' /\ dirty' \subseteq Layers
      /\ StageInv' /\ OwnerInv' /\ NamesInv' /\ Loaded' = Loaded
  BY <1>1, EditKeeps DEF CommandInv
<1>3. TrackInv'
  BY <1>1, <1>2, DatabaseStep DEF TrackInv, CommandInv
<1> QED BY <1>1, <1>2, <1>3, StillKeeps

LEMMA SavedKeeps ==
  ASSUME CommandInv, Saved
  PROVE  CommandInv'
<1>1. SerializeAll /\ UNCHANGED <<sublayers, done, undone, silent, sound>>
  BY DEF Saved, queueVars
<1>2. UNCHANGED <<added, identifier, dirty, session, target>>
  BY <1>1 DEF SerializeAll
<1>3. StageInv' /\ OwnerInv' /\ Loaded' = Loaded /\ Kept(Current)' /\ NamesInv'
  BY <1>1, SaveKeepsStages, SaveKeepsNames DEF CommandInv
<1>4. TrackInv'
  BY <1>2, <1>3, DatabaseStep DEF TrackInv, CommandInv, DatabaseInv
<1>5. GhostInv'
  BY <1>1, <1>2 DEF CommandInv, GhostInv
<1>6. ASSUME NEW e \in AllCommands, FineCommand(e) PROVE FineAfter(e)
  <2>1. CASE e.kind = "create"
    <3>1. e.layer \in Layers
      BY <2>1, CommandKinds DEF CreateCommands
    <3>2. ASSUME NEW q \in Proxies PROVE session'[q] # e.layer /\ sessionName'[q] # identifier'[e.layer]
      <4>1. session[q] # e.layer /\ sessionName[q] # identifier[e.layer]
        BY <1>6, <2>1 DEF FineCommand
      <4>2. sessionName'[q] = IF q \in Loaded THEN identifier[session[q]] ELSE sessionName[q]
        BY <1>1 DEF SerializeAll
      <4>3. q \in Loaded => session[q] \in Layers
        BY SessionAssumption DEF CommandInv, TrackInv, StageInv, StagesTyped
      <4> QED BY <1>2, <3>1, <4>1, <4>2, <4>3 DEF CommandInv, TrackInv, DatabaseInv, Identified
    <3> QED BY <1>6, <2>1, <3>2, CommandKinds DEF FineCommand, FineAfter
  <2>2. CASE e.kind # "create"
    BY <1>3, <1>6, <2>2 DEF FineCommand, FineAfter
  <2> QED BY <2>1, <2>2
<1>7. QueueInv'
  <2>1. done \in Seq(AllCommands) /\ undone \in Seq(AllCommands)
    BY DEF CommandInv, QueueInv
  <2>2. /\ \A i \in 1..Len(done) : FineAfter(done[i])
        /\ \A i \in 1..Len(undone) : FineAfter(undone[i])
    BY <1>6, <2>1, ElementOfSeq DEF CommandInv, QueueInv
  <2> QED BY <1>1, <2>1, <2>2, QueueAfter
<1> QED BY <1>4, <1>5, <1>7 DEF CommandInv

LEMMA FlushKeeps ==
  ASSUME CommandInv, FlushUndo
  PROVE  CommandInv'
<1>1. done' = << >> /\ undone' = << >> /\ UNCHANGED <<trackVars, sublayers, silent, sound>>
  BY DEF FlushUndo
<1>2. TrackInv' /\ UNCHANGED dirty
  BY <1>1, SameTracking DEF CommandInv, trackVars, vars
<1>3. GhostInv'
  BY <1>1, <1>2 DEF CommandInv, GhostInv
<1>4. QueueInv'
  <2>1. /\ done' \in Seq(AllCommands) /\ undone' \in Seq(AllCommands)
        /\ 1..Len(done') = {} /\ 1..Len(undone') = {}
    BY <1>1
  <2> QED BY <2>1, QueueAfter
<1> QED BY <1>2, <1>3, <1>4 DEF CommandInv

LEMMA CommandInvInit == CommandInit => CommandInv
<1> SUFFICES ASSUME CommandInit PROVE CommandInv
  OBVIOUS
<1>1. /\ layerToIds = << >> /\ idToLayer = << >> /\ added = FALSE /\ dirty = {}
      /\ identifier \in [Layers -> Ids]
      /\ \A l, m \in Layers : identifier[l] = identifier[m] => l = m
      /\ session = [p \in Proxies |-> NoLayer] /\ target = [p \in Proxies |-> NoLayer]
      /\ prev = [p \in Proxies |-> NoLayer] /\ sessionName = [p \in Proxies |-> NoId]
      /\ sublayers = [p \in Proxies |-> {}]
      /\ done = << >> /\ undone = << >> /\ silent = {} /\ sound = TRUE
  BY DEF CommandInit, TrackInit, Init
<1>2. Loaded = {}
  BY <1>1 DEF Loaded
<1>3. DatabaseInv
  <2>1. Inv
    BY InvInit DEF CommandInit, TrackInit
  <2>2. Good(Current, {})
    BY <2>1, CurrentGood
  <2>3. DOMAIN Current.toLayer = {}
    BY <1>1 DEF Current, Database
  <2> QED BY <1>1, <2>2, <2>3 DEF DatabaseInv, Identified, Kept, IsDatabase, OwnKeys, Current, Database
<1>4. StageInv
  BY <1>1, <1>2 DEF StageInv, StagesTyped
<1>5. \A l \in Layers : identifier[l] # NoId /\ l # NoLayer
  BY <1>1, NoAssumption
<1>6. OwnerInv
  BY <1>1, <1>5, SessionAssumption DEF OwnerInv, Has
<1>7. NamesInv
  BY <1>1, <1>5 DEF NamesInv
<1>8. QueueInv
  BY <1>1 DEF QueueInv
<1> QED BY <1>1, <1>3, <1>4, <1>6, <1>7, <1>8 DEF CommandInv, TrackInv, GhostInv

LEMMA CommandInvNext == CommandInv /\ [CommandNext]_commandVars => CommandInv'
<1> SUFFICES ASSUME CommandInv, [CommandNext]_commandVars
             PROVE  CommandInv'
  OBVIOUS
<1>1. CASE UNCHANGED commandVars
  <2>1. UNCHANGED <<trackVars, sublayers, done, undone, silent, sound>>
    BY <1>1 DEF commandVars, queueVars
  <2>2. TrackInv' /\ Loaded' = Loaded /\ UNCHANGED <<dirty, identifier, session, sessionName>>
    BY <2>1, SameTracking DEF CommandInv, trackVars, vars
  <2> QED BY <2>1, <2>2, StillKeeps DEF CommandInv, GhostInv
<1>2. ASSUME NEW p \in Proxies, StageChanged(p) PROVE CommandInv'
  <2>1. TrackInv' /\ QueueInv'
    BY <1>2, StageChangedKeeps DEF CommandInv
  <2>2. UNCHANGED <<dirty, silent, sound>>
    BY <1>2, StageChangedIs DEF StageChanged, CommandInv
  <2> QED BY <2>1, <2>2 DEF CommandInv, GhostInv
<1> QED
  BY <1>1, <1>2, EditsKeep, RetargetedKeeps, CurrentEditTargetKeeps, CreateLayerKeeps, SavedKeeps,
     UndoKeeps, RedoKeeps, FlushKeeps
     DEF CommandNext

\* What each step keeps: the stages and the database are in order, and what a command
\* in the queue remembers is what it will find.
THEOREM CommandInvariance == CommandSpec => []CommandInv
BY CommandInvInit, CommandInvNext, PTL DEF CommandSpec

\* The commands, the stages and the database have their types.
THEOREM CommandsTyped == CommandSpec => []QueueTypeOK
<1>1. CommandInv => QueueTypeOK
  <2> SUFFICES ASSUME CommandInv PROVE QueueTypeOK
    OBVIOUS
  <2> USE DEF CommandInv
  <2>1. Typed(layerToIds, idToLayer)
    BY DEF TrackInv, DatabaseInv, Kept, Good, Current, Database
  <2>2. TypeOK
    BY <2>1 DEF TypeOK, Typed, TrackInv, DatabaseInv, Identified
  <2>3. sessionName \in [Proxies -> Ids \cup {NoId}]
    <3>1. {identifier[l] : l \in SessionLayers} \subseteq Ids
      BY SessionAssumption DEF TrackInv, DatabaseInv, Identified
    <3> QED BY <3>1 DEF TrackInv, StageInv
  <2>4. TrackTypeOK /\ sublayers \in [Proxies -> SUBSET Layers]
    BY <2>2, <2>3 DEF TrackTypeOK, TrackInv, StageInv, StagesTyped
  <2>5. ASSUME NEW e \in Commands
        PROVE  e.kind \in {"create", "target"} /\ e.proxy \in Proxies /\ e.layer \in Layers \cup {NoLayer}
    <3>1. e \in AllCommands
      BY CommandsAre, ElementOfSeq DEF QueueInv
    <3> QED BY <3>1, CommandKinds DEF CreateCommands, TargetCommands
  <2> QED BY <2>4, <2>5 DEF QueueTypeOK, GhostInv
<1> QED BY <1>1, CommandInvariance, PTL

-----------------------------------------------------------------------------
\* Only loading, unloading and destroying change the session layers of stages.
LEMMA SessionsStay ==
  ASSUME CommandNext
  PROVE  (\E p \in Proxies : StageChanged(p)) \/ UNCHANGED session
<1>1. ASSUME NEW p, NEW layer, SetTarget(p, layer) PROVE UNCHANGED session
  BY <1>1 DEF SetTarget, TargetChanged, trackVars
<1>2. CASE Undo
  BY <1>1, <1>2 DEF Undo, UndoCreate, UndoTarget, trackVars
<1>3. CASE Redo
  BY <1>1, <1>3 DEF Redo, RedoCreate, RedoTarget, DoCreate, DoTarget, trackVars
<1>4. CASE FlushUndo \/ Saved
  BY <1>4 DEF FlushUndo, Saved, SerializeAll, trackVars
<1>5. ASSUME NEW p \in Proxies, Edited(p) PROVE UNCHANGED session
  BY <1>5 DEF Edited, EditStage
<1>6. ASSUME NEW p \in Proxies, NEW layer \in Layers,
             Retargeted(p, layer) \/ LayerCurrentEditTarget(p, layer)
      PROVE  UNCHANGED session
  BY <1>1, <1>6 DEF Retargeted, LayerCurrentEditTarget, TargetChanged
<1>7. ASSUME NEW p \in Proxies, NEW layer \in Layers, NEW sub \in BOOLEAN,
             LayerCreateLayer(p, layer, sub)
      PROVE  UNCHANGED session
  BY <1>7 DEF LayerCreateLayer, DoCreate
<1>8. ASSUME NEW layer \in Layers, Cleaned(layer) PROVE UNCHANGED session
  BY <1>8 DEF Cleaned, CleanLayer
<1> QED BY <1>2, <1>3, <1>4, <1>5, <1>6, <1>7, <1>8 DEF CommandNext

\* A shape that was saved opens its next stages on the session layer the save
\* named, as long as that has edits: whatever was created, targeted, undone and
\* redone since, nobody has taken the layer from the manager (loadStage of
\* ProxyShape.cpp looks it up there).
THEOREM SessionStays == CommandSpec => SessionKept
<1> DEFINE A == \A p \in Proxies : \A layer \in dirty :
                  /\ sessionName[p] = identifier[layer]
                  /\ session'[p] \notin {session[p], NoLayer}
                  => session'[p] = layer
<1>1. ASSUME CommandInv, CommandNext PROVE A
  <2> SUFFICES ASSUME NEW p \in Proxies, NEW layer \in dirty, sessionName[p] = identifier[layer],
                      session'[p] # session[p], session'[p] # NoLayer
               PROVE  session'[p] = layer
    OBVIOUS
  <2>1. PICK q \in Proxies : StageChanged(q)
    BY <1>1, SessionsStay
  <2>2. \/ \E l \in SessionLayers : LoadsOwn(q, l)
        \/ Unloads(q)
    BY <1>1, <2>1, StageChangedIs DEF CommandInv
  <2>3. session \in [Proxies -> SessionLayers \cup {NoLayer}] /\ layer \in Layers /\ layer \in DOMAIN layerToIds
    BY <1>1 DEF CommandInv, TrackInv, DatabaseInv, StageInv, StagesTyped, NamesInv
  <2>4. PICK l \in SessionLayers : LoadsOwn(q, l)
    BY <2>2, <2>3 DEF Unloads
  <2>5. session' = [session EXCEPT ![q] = l]
    BY <2>4 DEF LoadsOwn, Loads
  <2>6. q = p /\ session'[p] = l
    BY <2>3, <2>5
  <2> QED BY <2>3, <2>4, <2>6 DEF LoadsOwn
<1>2. CommandInv /\ [CommandNext]_commandVars => [A]_trackVars
  <2> HIDE DEF A
  <2> QED BY <1>1 DEF commandVars
<1> QED BY <1>2, CommandInvariance, PTL DEF CommandSpec, SessionKept

-----------------------------------------------------------------------------
(***************************************************************************)
(* What undo needs: the former target of a command that is to be undone is *)
(* a layer of the stage still, though creations after it are undone first. *)
(* `all` are the layers of each stage, `own` those that no command added.  *)
(***************************************************************************)
Wants(e) == e.kind = "target" /\ e.onStage /\ e.previous # NoLayer

Appends(c, e) == c.kind = "create" /\ c.proxy = e.proxy /\ c.sublayer /\ c.layer = e.previous

DoneFine(s, all, own) ==
  \A j \in 1..Len(s) : Wants(s[j]) =>
    /\ s[j].previous \in all[s[j].proxy]
    /\ \A k \in 1..Len(s) : k > j /\ Appends(s[k], s[j]) /\ ~s[k].listed
         => s[j].previous \in own[s[j].proxy]

\* A creation that is redone before gives the layer back.
UndoneFine(s, all) ==
  \A j \in 1..Len(s) : Wants(s[j]) =>
    \/ s[j].previous \in all[s[j].proxy]
    \/ \E k \in 1..Len(s) : k > j /\ Appends(s[k], s[j])

Takes(e, p) == IF e.kind = "create" /\ e.sublayer /\ e.proxy = p THEN {e.layer} ELSE {}

LEMMA DoneAppend ==
  ASSUME NEW s \in Seq(AllCommands), NEW e \in AllCommands, NEW all, NEW own, NEW more,
         DoneFine(s, all, own),
         \A p \in Proxies : all[p] \subseteq more[p],
         Wants(e) => e.previous \in more[e.proxy],
         e.kind = "create" /\ e.sublayer /\ ~e.listed => e.layer \notin all[e.proxy] \ own[e.proxy]
  PROVE  DoneFine(Append(s, e), more, own)
<1> DEFINE t == Append(s, e)
           n == Len(s)
<1>1. /\ t \in Seq(AllCommands) /\ Len(t) = n + 1 /\ t[n + 1] = e
      /\ \A i \in 1..n : t[i] = s[i]
  BY OneOn
<1>2. n \in Nat /\ \A i \in 1..n : s[i] \in AllCommands /\ s[i].proxy \in Proxies
  BY ElementOfSeq, CommandKinds
<1> HIDE DEF t, n
<1> SUFFICES ASSUME NEW j \in 1..n+1, Wants(t[j])
             PROVE  /\ t[j].previous \in more[t[j].proxy]
                    /\ \A k \in 1..n+1 : k > j /\ Appends(t[k], t[j]) /\ ~t[k].listed
                         => t[j].previous \in own[t[j].proxy]
  BY <1>1 DEF DoneFine, t
<1>3. CASE j = n + 1
  BY <1>1, <1>2, <1>3
<1>4. CASE j # n + 1
  <2>1. j \in 1..n /\ t[j] = s[j]
    BY <1>1, <1>2, <1>4
  <2>2. /\ s[j].previous \in all[s[j].proxy]
        /\ \A k \in 1..n : k > j /\ Appends(s[k], s[j]) /\ ~s[k].listed
             => s[j].previous \in own[s[j].proxy]
    BY <2>1 DEF DoneFine, n
  <2>3. t[j].previous \in more[t[j].proxy]
    BY <1>2, <2>1, <2>2
  <2>4. ASSUME NEW k \in 1..n+1, k > j, Appends(t[k], t[j]), ~t[k].listed
        PROVE  t[j].previous \in own[t[j].proxy]
    <3>1. CASE k = n + 1
      BY <1>1, <2>1, <2>2, <2>4, <3>1 DEF Appends
    <3>2. CASE k # n + 1
      <4>1. k \in 1..n /\ t[k] = s[k]
        BY <1>1, <1>2, <3>2
      <4> QED BY <2>1, <2>2, <2>4, <4>1
    <3> QED BY <3>1, <3>2
  <2> QED BY <2>3, <2>4
<1> QED BY <1>3, <1>4

LEMMA DoneFront ==
  ASSUME NEW s \in Seq(AllCommands), s # << >>, NEW e, e = Last(s), NEW all, NEW own, NEW less,
         DoneFine(s, all, own),
         \A p \in Proxies : all[p] \ (Takes(e, p) \ own[p]) \subseteq less[p],
         e.kind = "create" /\ e.sublayer => ~e.listed
  PROVE  DoneFine(Front(s), less, own)
<1> DEFINE t == Front(s)
           n == Len(s)
<1>1. /\ n \in 1..n /\ e = s[n] /\ e \in AllCommands
      /\ Len(t) = n - 1 /\ \A i \in 1..n - 1 : i \in 1..n /\ t[i] = s[i]
  BY OneOff
<1>2. n \in Nat /\ \A i \in 1..n : s[i] \in AllCommands /\ s[i].proxy \in Proxies
  BY ElementOfSeq, CommandKinds
<1> HIDE DEF t, n
<1> SUFFICES ASSUME NEW j \in 1..n-1, Wants(t[j])
             PROVE  /\ t[j].previous \in less[t[j].proxy]
                    /\ \A k \in 1..n-1 : k > j /\ Appends(t[k], t[j]) /\ ~t[k].listed
                         => t[j].previous \in own[t[j].proxy]
  BY <1>1 DEF DoneFine, t
<1>3. j \in 1..n /\ t[j] = s[j] /\ s[j].proxy \in Proxies /\ n > j
  BY <1>1, <1>2
<1>4. /\ s[j].previous \in all[s[j].proxy]
      /\ \A k \in 1..n : k > j /\ Appends(s[k], s[j]) /\ ~s[k].listed
             => s[j].previous \in own[s[j].proxy]
  BY <1>3 DEF DoneFine, n
<1>5. ASSUME s[j].previous \in Takes(e, s[j].proxy) PROVE s[j].previous \in own[s[j].proxy]
  BY <1>1, <1>3, <1>4, <1>5 DEF Takes, Appends
<1>6. s[j].previous \in less[s[j].proxy]
  BY <1>3, <1>4, <1>5
<1> QED BY <1>1, <1>3, <1>4, <1>6

LEMMA UndoneAppend ==
  ASSUME NEW s \in Seq(AllCommands), NEW e \in AllCommands, NEW all, NEW less,
         UndoneFine(s, all),
         \A p \in Proxies : all[p] \ Takes(e, p) \subseteq less[p],
         Wants(e) => e.previous \in less[e.proxy]
  PROVE  UndoneFine(Append(s, e), less)
<1> DEFINE t == Append(s, e)
           n == Len(s)
<1>1. /\ t \in Seq(AllCommands) /\ Len(t) = n + 1 /\ t[n + 1] = e
      /\ \A i \in 1..n : i \in 1..n+1 /\ t[i] = s[i]
  BY OneOn
<1>2. n \in Nat /\ n + 1 \in 1..n+1 /\ \A i \in 1..n : s[i] \in AllCommands /\ s[i].proxy \in Proxies
  BY ElementOfSeq, CommandKinds
<1> HIDE DEF t, n
<1> SUFFICES ASSUME NEW j \in 1..n+1, Wants(t[j]), t[j].previous \notin less[t[j].proxy]
             PROVE  \E k \in 1..n+1 : k > j /\ Appends(t[k], t[j])
  BY <1>1 DEF UndoneFine, t
<1>3. j \in 1..n /\ t[j] = s[j]
  <2>1. j # n + 1
    BY <1>1
  <2> QED BY <1>1, <1>2, <2>1
<1>4. CASE s[j].previous \in all[s[j].proxy]
  <2>1. s[j].previous \in Takes(e, s[j].proxy)
    BY <1>2, <1>3, <1>4
  <2>2. Appends(e, s[j])
    BY <2>1 DEF Takes, Appends
  <2> QED BY <1>1, <1>2, <1>3, <2>2
<1>5. CASE \E k \in 1..n : k > j /\ Appends(s[k], s[j])
  BY <1>1, <1>3, <1>5
<1> QED BY <1>3, <1>4, <1>5 DEF UndoneFine, n

\* The commands behind the one that is redone, which may have forgotten a layer.
LEMMA UndoneFront ==
  ASSUME NEW s \in Seq(AllCommands), s # << >>, NEW e, e = Last(s), NEW all, NEW more, NEW t,
         UndoneFine(s, all), Len(t) = Len(s) - 1,
         \A i \in 1..Len(s) - 1 :
           \/ t[i] = s[i]
           \/ /\ t[i].kind = "target" /\ s[i].kind = "target" /\ t[i].proxy = s[i].proxy
              /\ t[i].onStage = s[i].onStage /\ t[i].previous \in {s[i].previous, NoLayer},
         \A p \in Proxies : all[p] \subseteq more[p],
         \A i \in 1..Len(s) - 1 : Wants(t[i]) /\ Appends(e, t[i]) => t[i].previous \in more[t[i].proxy]
  PROVE  UndoneFine(t, more)
<1> DEFINE n == Len(s)
<1>1. n \in 1..n /\ e = s[n] /\ e \in AllCommands
  BY OneOff
<1>2. n \in Nat /\ \A i \in 1..n : s[i] \in AllCommands /\ s[i].proxy \in Proxies
  BY ElementOfSeq, CommandKinds
<1> HIDE DEF n
<1> SUFFICES ASSUME NEW j \in 1..n-1, Wants(t[j]), t[j].previous \notin more[t[j].proxy]
             PROVE  \E k \in 1..n-1 : k > j /\ Appends(t[k], t[j])
  BY DEF UndoneFine, n
<1>3. /\ j \in 1..n /\ s[j].proxy \in Proxies
      /\ Wants(s[j]) /\ t[j].previous = s[j].previous /\ t[j].proxy = s[j].proxy
  <2>1. j \in 1..n /\ s[j].proxy \in Proxies
    BY <1>1, <1>2
  <2>2. \/ t[j] = s[j]
        \/ /\ t[j].kind = "target" /\ s[j].kind = "target" /\ t[j].proxy = s[j].proxy
           /\ t[j].onStage = s[j].onStage /\ t[j].previous \in {s[j].previous, NoLayer}
    BY DEF n
  <2> QED BY <2>1, <2>2 DEF Wants
<1>4. PICK k \in 1..n : k > j /\ Appends(s[k], s[j])
  <2>1. s[j].previous \notin all[s[j].proxy]
    BY <1>3
  <2> QED BY <1>3, <2>1 DEF UndoneFine, n
<1>5. k # n
  BY <1>1, <1>3, <1>4 DEF Appends, n
<1>6. k \in 1..n-1
  BY <1>1, <1>2, <1>5
<1>7. t[k] = s[k]
  <2>1. s[k].kind # "target"
    BY <1>4 DEF Appends
  <2> QED BY <1>6, <2>1 DEF n
<1> QED BY <1>3, <1>4, <1>6, <1>7 DEF Appends

\* The commands of one shape lose their stage; the other stages are what they were.
LEMMA OffStageSteps ==
  ASSUME NEW p, NEW s \in Seq(AllCommands), NEW t, OffStageOf(p, s, t)
  PROVE  /\ Len(t) = Len(s)
         /\ \A i \in 1..Len(s) : s[i].proxy \in Proxies
         /\ \A i \in 1..Len(s) : Wants(t[i]) => t[i] = s[i] /\ s[i].proxy # p
         /\ \A i \in 1..Len(s) : t[i].kind = "create" \/ s[i].kind = "create" => t[i] = s[i]
<1>1. \A i \in 1..Len(s) : s[i] \in AllCommands /\ s[i].proxy \in Proxies
  BY ElementOfSeq, CommandKinds
<1>2. ASSUME NEW j \in 1..Len(s), Wants(t[j])
      PROVE  t[j] = s[j] /\ s[j].proxy # p
  BY <1>2 DEF OffStageOf, Wants
<1>3. ASSUME NEW k \in 1..Len(s), t[k].kind = "create" \/ s[k].kind = "create"
      PROVE  t[k] = s[k]
  <2>1. t[k] \in TargetCommands => t[k].kind = "target"
    BY DEF TargetCommands
  <2> QED BY <1>3, <2>1 DEF OffStageOf
<1> QED BY <1>1, <1>2, <1>3 DEF OffStageOf

LEMMA DoneOffStage ==
  ASSUME NEW p, NEW s \in Seq(AllCommands), NEW t, OffStageOf(p, s, t),
         NEW all, NEW own, NEW all2, NEW own2,
         \A q \in Proxies : q # p => all2[q] = all[q] /\ own2[q] = own[q],
         DoneFine(s, all, own)
  PROVE  DoneFine(t, all2, own2)
BY OffStageSteps DEF DoneFine, Appends

LEMMA UndoneOffStage ==
  ASSUME NEW p, NEW s \in Seq(AllCommands), NEW t, OffStageOf(p, s, t), NEW all, NEW all2,
         \A q \in Proxies : q # p => all2[q] = all[q],
         UndoneFine(s, all)
  PROVE  UndoneFine(t, all2)
BY OffStageSteps DEF UndoneFine, Appends

AllOf == [p \in Proxies |-> StageLayers(p)]
OwnOf == [p \in Proxies |-> Used[p] \cup {session[p]}]

TargetsListed == \A p \in Loaded : target[p] \in StageLayers(p)

UndoInv ==
  sound => TargetsListed /\ DoneFine(done, AllOf, OwnOf) /\ UndoneFine(undone, AllOf)

\* The layers of the stages do not change with their targets.
LEMMA SameLayers ==
  ASSUME UNCHANGED <<session, sublayers>>
  PROVE  AllOf' = AllOf /\ OwnOf' = OwnOf /\ Loaded' = Loaded
BY DEF AllOf, OwnOf, StageLayers, Loaded

LEMMA QueueSeqs ==
  ASSUME CommandInv
  PROVE  done \in Seq(AllCommands) /\ undone \in Seq(AllCommands)
BY DEF CommandInv, QueueInv

\* What a creation or its undoing does to the layers of the stages.
LEMMA CreateLayers ==
  ASSUME StageInv, NEW p \in Proxies, NEW layer, NEW sub, UNCHANGED session,
         sublayers' = IF sub THEN [sublayers EXCEPT ![p] = sublayers[p] \cup {layer}] ELSE sublayers
  PROVE  /\ OwnOf' = OwnOf /\ Loaded' = Loaded
         /\ \A q \in Proxies : AllOf[q] \subseteq AllOf'[q]
         /\ sub => layer \in AllOf'[p]
         /\ \A q \in Proxies : \A l : l \in AllOf[q] <=> l \in StageLayers(q)
         /\ \A q \in Proxies : \A l : l \in AllOf'[q] <=> l \in StageLayers(q)'
<1>1. sublayers \in [Proxies -> SUBSET Layers]
  BY DEF StageInv
<1>2. \A q \in Proxies : sublayers[q] \subseteq sublayers'[q]
  BY <1>1
<1>3. sub => layer \in sublayers'[p]
  BY <1>1
<1> QED BY <1>2, <1>3 DEF AllOf, OwnOf, StageLayers, Loaded

LEMMA UncreateLayers ==
  ASSUME StageInv, NEW e, e.kind = "create", e.proxy \in Proxies, UNCHANGED session,
         sublayers' = IF e.sublayer THEN [sublayers EXCEPT ![e.proxy] = sublayers[e.proxy] \ {e.layer}]
                      ELSE sublayers
  PROVE  /\ OwnOf' = OwnOf /\ Loaded' = Loaded
         /\ \A q \in Proxies : AllOf[q] \ (Takes(e, q) \ OwnOf[q]) \subseteq AllOf'[q]
         /\ \A q \in Proxies : AllOf[q] \ Takes(e, q) \subseteq AllOf'[q]
         /\ \A q \in Proxies : StageLayers(q) \ {e.layer} \subseteq StageLayers(q)'
<1>1. sublayers \in [Proxies -> SUBSET Layers]
  BY DEF StageInv
<1>2. \A q \in Proxies : sublayers[q] \ Takes(e, q) \subseteq sublayers'[q]
  BY <1>1 DEF Takes
<1>3. \A q \in Proxies : /\ AllOf[q] = StageLayers(q) /\ AllOf'[q] = StageLayers(q)'
                         /\ OwnOf[q] = Used[q] \cup {session[q]}
                         /\ Takes(e, q) \subseteq {e.layer}
  BY DEF AllOf, OwnOf, Takes
<1>4. \A q \in Proxies : StageLayers(q) \ (Takes(e, q) \ OwnOf[q]) \subseteq StageLayers(q)'
  BY <1>2, <1>3 DEF StageLayers
<1>5. OwnOf' = OwnOf /\ Loaded' = Loaded
  BY DEF OwnOf, Loaded
<1> HIDE DEF AllOf, OwnOf, Takes
<1> QED BY <1>3, <1>4, <1>5

LEMMA StageChangedRestores ==
  ASSUME CommandInv, UndoInv, NEW p \in Proxies, StageChanged(p)
  PROVE  UndoInv'
<1>1. /\ \/ \E layer \in SessionLayers : LoadsOwn(p, layer)
         \/ Unloads(p)
      /\ UNCHANGED <<sublayers, sound>>
      /\ done' = OffStage(p, done) /\ undone' = OffStage(p, undone)
  BY StageChangedIs DEF StageChanged, CommandInv
<1>2. \E layer \in SessionLayers \cup {NoLayer} :
        session' = [session EXCEPT ![p] = layer] /\ target' = [target EXCEPT ![p] = layer]
  BY <1>1 DEF LoadsOwn, Loads, Unloads
<1>3. DOMAIN session = Proxies /\ DOMAIN target = Proxies
  BY DEF CommandInv, TrackInv, StageInv, StagesTyped
<1>4. /\ \A q \in Proxies : q # p => session'[q] = session[q] /\ target'[q] = target[q]
      /\ session'[p] = target'[p]
  BY <1>2, <1>3
<1>5. \A q \in Proxies : q # p => AllOf'[q] = AllOf[q] /\ OwnOf'[q] = OwnOf[q]
  BY <1>1, <1>4 DEF AllOf, OwnOf, StageLayers
<1>6. OffStageOf(p, done, done') /\ OffStageOf(p, undone, undone')
  BY <1>1, QueueSeqs, OffStageIs
<1>7. /\ DoneFine(done, AllOf, OwnOf) => DoneFine(done', AllOf', OwnOf')
      /\ UndoneFine(undone, AllOf) => UndoneFine(undone', AllOf')
  <2> DEFINE all2 == AllOf'
             own2 == OwnOf'
             t == done'
             u == undone'
  <2>1. /\ \A q \in Proxies : q # p => all2[q] = AllOf[q] /\ own2[q] = OwnOf[q]
        /\ OffStageOf(p, done, t) /\ OffStageOf(p, undone, u)
    BY <1>5, <1>6
  <2> HIDE DEF all2, own2, t, u
  <2>2. DoneFine(done, AllOf, OwnOf) => DoneFine(t, all2, own2)
    BY <2>1, QueueSeqs, DoneOffStage
  <2>3. UndoneFine(undone, AllOf) => UndoneFine(u, all2)
    <3>1. undone \in Seq(AllCommands) /\ OffStageOf(p, undone, u)
      BY <2>1, QueueSeqs
    <3> HIDE DEF AllOf, OwnOf
    <3> QED BY <2>1, <3>1, UndoneOffStage
  <2> QED BY <2>2, <2>3 DEF all2, own2, t, u
<1>8. TargetsListed => TargetsListed'
  BY <1>1, <1>4 DEF TargetsListed, StageLayers, Loaded
<1> QED BY <1>1, <1>7, <1>8 DEF UndoInv

\* A target is set, by a command or not.
LEMMA TargetListed ==
  ASSUME CommandInv, NEW p \in Loaded, NEW layer, SetTarget(p, layer) \/ Targets(p, layer),
         TargetsListed
  PROVE  /\ AllOf' = AllOf /\ OwnOf' = OwnOf /\ Loaded' = Loaded
         /\ TargetsListed'
<1>1. /\ UNCHANGED sublayers
      /\ Targets(p, layer) \/ UNCHANGED trackVars
  BY SetTargetIs DEF CommandInv, Targets
<1>2. UNCHANGED session
  BY <1>1 DEF Targets, trackVars
<1>3. AllOf' = AllOf /\ OwnOf' = OwnOf /\ Loaded' = Loaded
  BY <1>1, <1>2, SameLayers
<1>4. CASE Targets(p, layer)
  <2>1. /\ target' = [target EXCEPT ![p] = layer] /\ layer \in StageLayers(p)
        /\ target \in [Proxies -> Layers \cup {NoLayer}]
    BY <1>4 DEF Targets, CommandInv, TrackInv, StageInv, StagesTyped
  <2>2. \A q \in Loaded : q \in Proxies /\ StageLayers(q)' = StageLayers(q)
    BY <1>1, <1>2 DEF StageLayers, Loaded
  <2>3. TargetsListed'
    BY <1>3, <2>1, <2>2 DEF TargetsListed
  <2> QED BY <1>3, <2>3
<1>5. CASE UNCHANGED trackVars
  <2>1. TargetsListed'
    BY <1>1, <1>3, <1>5 DEF TargetsListed, StageLayers, trackVars
  <2> QED BY <1>3, <2>1
<1> QED BY <1>1, <1>4, <1>5

LEMMA CurrentEditTargetRestores ==
  ASSUME CommandInv, UndoInv, NEW p \in Proxies, NEW layer \in Layers, LayerCurrentEditTarget(p, layer)
  PROVE  UndoInv'
<1> DEFINE e == Targeted(p, layer)
<1>1. /\ p \in Loaded /\ SetTarget(p, layer) /\ sound' = sound
      /\ done' = Append(done, e) /\ undone' = << >>
  BY DEF LayerCurrentEditTarget, Pushed
<1> SUFFICES ASSUME sound
             PROVE  TargetsListed' /\ DoneFine(done', AllOf', OwnOf') /\ UndoneFine(undone', AllOf')
  BY <1>1 DEF UndoInv
<1>2. TargetsListed /\ DoneFine(done, AllOf, OwnOf)
  BY DEF UndoInv
<1>3. /\ AllOf' = AllOf /\ OwnOf' = OwnOf /\ TargetsListed'
  BY <1>1, <1>2, TargetListed
<1>4. /\ e \in AllCommands /\ e.kind = "target"
      /\ e.proxy = p /\ e.previous = target[p]
  BY <1>1, TargetedIs DEF Targeted, CommandInv
<1>5. e.previous \in AllOf[e.proxy]
  BY <1>1, <1>2, <1>4 DEF TargetsListed, AllOf
<1> HIDE DEF e
<1>6. DoneFine(Append(done, e), AllOf, OwnOf)
  BY <1>2, <1>4, <1>5, QueueSeqs, DoneAppend
<1>7. UndoneFine(undone', AllOf')
  BY <1>1 DEF UndoneFine
<1> QED BY <1>1, <1>3, <1>6, <1>7

LEMMA CreateRestores ==
  ASSUME CommandInv, UndoInv, sound, NEW p \in Proxies, NEW layer, NEW sub \in BOOLEAN,
         DoCreate(p, layer, sub), Free(layer) \/ layer \in Openable[p],
         done' = Append(done, Created(p, layer, sub))
  PROVE  /\ TargetsListed' /\ DoneFine(done', AllOf', OwnOf')
         /\ \A q \in Proxies : AllOf[q] \subseteq AllOf'[q]
         /\ sub => layer \in AllOf'[p]
<1> DEFINE e == Created(p, layer, sub)
<1>1. /\ Creates(p, layer)
      /\ sublayers' = IF sub THEN [sublayers EXCEPT ![p] = sublayers[p] \cup {layer}] ELSE sublayers
  BY DoCreateIs DEF CommandInv
<1>2. UNCHANGED <<identifier, session, sessionName, target>>
  BY <1>1 DEF Creates
<1>3. e \in AllCommands
  BY <1>2, CreatedIs DEF CommandInv
<1>4. /\ OwnOf' = OwnOf /\ Loaded' = Loaded
      /\ \A q \in Proxies : AllOf[q] \subseteq AllOf'[q]
      /\ sub => layer \in AllOf'[p]
      /\ \A q \in Proxies : \A l : l \in AllOf[q] <=> l \in StageLayers(q)
      /\ \A q \in Proxies : \A l : l \in AllOf'[q] <=> l \in StageLayers(q)'
  BY <1>1, <1>2, CreateLayers DEF CommandInv, TrackInv
<1>5. e.kind = "create" /\ e.layer = layer /\ e.proxy = p /\ (e.listed <=> layer \in sublayers[p])
  BY DEF Created
<1>6. ~e.listed => e.layer \notin AllOf[e.proxy] \ OwnOf[e.proxy]
  BY <1>5 DEF AllOf, OwnOf, StageLayers
<1> HIDE DEF e
<1>7. DoneFine(Append(done, e), AllOf', OwnOf)
  <2>1. DoneFine(done, AllOf, OwnOf) /\ ~Wants(e)
    BY <1>5 DEF UndoInv, Wants
  <2> DEFINE more == AllOf'
  <2>2. \A q \in Proxies : AllOf[q] \subseteq more[q]
    BY <1>4
  <2> HIDE DEF more
  <2>3. DoneFine(Append(done, e), more, OwnOf)
    BY <1>3, <1>6, <2>1, <2>2, QueueSeqs, DoneAppend
  <2> QED BY <2>3 DEF more
<1>8. TargetsListed'
  BY <1>2, <1>4 DEF UndoInv, TargetsListed, Loaded
<1> QED BY <1>4, <1>7, <1>8 DEF e

LEMMA CreateLayerRestores ==
  ASSUME CommandInv, UndoInv, NEW p \in Proxies, NEW layer, NEW sub \in BOOLEAN,
         LayerCreateLayer(p, layer, sub)
  PROVE  UndoInv'
<1>1. /\ DoCreate(p, layer, sub) /\ sound' = sound
      /\ done' = Append(done, Created(p, layer, sub)) /\ undone' = << >>
      /\ layer \in NewLayers \/ layer \in Openable[p]
  BY DEF LayerCreateLayer, Pushed
<1>2. Free(layer) \/ layer \in Openable[p]
  BY <1>1, NewIsFree DEF CommandInv, TrackInv
<1>3. sound => TargetsListed' /\ DoneFine(done', AllOf', OwnOf')
  BY <1>1, <1>2, CreateRestores
<1>4. UndoneFine(undone', AllOf')
  BY <1>1 DEF UndoneFine
<1> QED BY <1>1, <1>3, <1>4 DEF UndoInv

LEMMA UndoCreateRestores ==
  ASSUME CommandInv, UndoInv, sound, done # << >>, NEW e, e = Last(done), e.kind = "create",
         UndoCreate(e), Sound(e), done' = Front(done), undone' = Append(undone, e)
  PROVE  TargetsListed' /\ DoneFine(done', AllOf', OwnOf') /\ UndoneFine(undone', AllOf')
<1>1. e \in AllCommands /\ FineCommand(e) /\ e.proxy \in Proxies /\ ~Wants(e)
  BY LastIs DEF CommandInv, QueueInv, Wants
<1>2. /\ Uncreates(e.proxy, e.layer)
      /\ sublayers' = IF e.sublayer THEN [sublayers EXCEPT ![e.proxy] = sublayers[e.proxy] \ {e.layer}]
                      ELSE sublayers
  BY <1>1, UndoCreateIs DEF CommandInv, FineCommand
<1>3. UNCHANGED <<session, target>>
  BY <1>2 DEF Uncreates
<1>4. /\ OwnOf' = OwnOf /\ Loaded' = Loaded
      /\ \A q \in Proxies : AllOf[q] \ (Takes(e, q) \ OwnOf[q]) \subseteq AllOf'[q]
      /\ \A q \in Proxies : AllOf[q] \ Takes(e, q) \subseteq AllOf'[q]
      /\ \A q \in Proxies : StageLayers(q) \ {e.layer} \subseteq StageLayers(q)'
  BY <1>1, <1>2, <1>3, UncreateLayers DEF CommandInv, TrackInv
<1>5. TargetsListed /\ DoneFine(done, AllOf, OwnOf) /\ UndoneFine(undone, AllOf)
  BY DEF UndoInv
<1>6. /\ e.layer \notin Range(target)
      /\ e.kind = "create" /\ e.sublayer => ~e.listed
  BY DEF Sound
<1>7. TargetsListed'
  <2>1. \A q \in Loaded : q \in Proxies /\ target[q] # e.layer
    BY <1>6 DEF Loaded, Range, CommandInv, TrackInv, StageInv, StagesTyped
  <2>2. \A q \in Loaded' : target'[q] = target[q] /\ target[q] \in StageLayers(q) \ {e.layer}
    BY <1>3, <1>4, <1>5, <2>1 DEF TargetsListed
  <2> QED BY <1>4, <2>1, <2>2 DEF TargetsListed
<1>8. DoneFine(Front(done), AllOf', OwnOf') /\ UndoneFine(Append(undone, e), AllOf')
  <2> DEFINE less == AllOf'
  <2>1. /\ \A q \in Proxies : AllOf[q] \ (Takes(e, q) \ OwnOf[q]) \subseteq less[q]
        /\ \A q \in Proxies : AllOf[q] \ Takes(e, q) \subseteq less[q]
    BY <1>4
  <2> HIDE DEF less
  <2>2. DoneFine(Front(done), less, OwnOf)
    BY <1>5, <1>6, <2>1, QueueSeqs, DoneFront
  <2>3. UndoneFine(Append(undone, e), less)
    BY <1>1, <1>5, <2>1, QueueSeqs, UndoneAppend
  <2> QED BY <1>4, <2>2, <2>3 DEF less
<1> QED BY <1>7, <1>8

LEMMA UndoTargetRestores ==
  ASSUME CommandInv, UndoInv, sound, done # << >>, NEW e, e = Last(done), e.kind # "create",
         UndoTarget(e), done' = Front(done), undone' = Append(undone, e)
  PROVE  /\ TargetsListed' /\ DoneFine(done', AllOf', OwnOf') /\ UndoneFine(undone', AllOf')
         /\ Wants(e) => e.previous \in StageLayers(e.proxy)
<1>1. /\ e \in AllCommands /\ FineCommand(e) /\ e.proxy \in Proxies /\ e.kind = "target"
  BY LastIs DEF CommandInv, QueueInv
<1>2. TargetsListed /\ DoneFine(done, AllOf, OwnOf) /\ UndoneFine(undone, AllOf)
  BY DEF UndoInv
<1>3. AllOf' = AllOf /\ OwnOf' = OwnOf /\ TargetsListed'
  <2>1. CASE e.onStage
    BY <1>1, <1>2, <2>1, TargetListed DEF UndoTarget, FineCommand
  <2>2. CASE ~e.onStage
    <3>1. UNCHANGED <<session, target, sublayers>>
      BY <2>2 DEF UndoTarget, trackVars
    <3> QED BY <1>2, <3>1, SameLayers DEF TargetsListed, StageLayers
  <2> QED BY <2>1, <2>2
<1>4. Wants(e) => e.previous \in AllOf[e.proxy]
  <2>1. Len(done) \in 1..Len(done) /\ e = done[Len(done)]
    BY QueueSeqs, OneOff
  <2> QED BY <1>2, <2>1 DEF DoneFine
<1>5. \A q \in Proxies : Takes(e, q) = {}
  BY <1>1 DEF Takes
<1>6. DoneFine(Front(done), AllOf, OwnOf)
  BY <1>2, QueueSeqs, DoneFront
<1>7. UndoneFine(Append(undone, e), AllOf)
  BY <1>1, <1>2, <1>4, QueueSeqs, UndoneAppend
<1>8. Wants(e) => e.previous \in StageLayers(e.proxy)
  BY <1>1, <1>4 DEF AllOf
<1> QED BY <1>3, <1>6, <1>7, <1>8

LEMMA UndoRestoring ==
  ASSUME CommandInv, UndoInv, Undo
  PROVE  UndoInv'
<1> DEFINE e == Last(done)
<1>1. /\ done # << >> /\ done' = Front(done) /\ undone' = Append(undone, e)
      /\ IF e.kind = "create" THEN UndoCreate(e) ELSE UndoTarget(e)
      /\ sound' = (sound /\ Sound(e)) /\ sound \in BOOLEAN
  BY DEF Undo, CommandInv, GhostInv
<1> HIDE DEF e
<1> SUFFICES ASSUME sound, Sound(e)
             PROVE  TargetsListed' /\ DoneFine(done', AllOf', OwnOf') /\ UndoneFine(undone', AllOf')
  BY <1>1 DEF UndoInv
<1>2. CASE e.kind = "create"
  BY <1>1, <1>2, UndoCreateRestores DEF e
<1>3. CASE e.kind # "create"
  BY <1>1, <1>3, UndoTargetRestores DEF e
<1> QED BY <1>2, <1>3

LEMMA RedoTargetRestores ==
  ASSUME CommandInv, UndoInv, sound, undone # << >>, NEW e, e = Last(undone), e.kind # "create",
         RedoTarget(e)
  PROVE  TargetsListed' /\ DoneFine(done', AllOf', OwnOf') /\ UndoneFine(undone', AllOf')
<1>1. /\ e \in AllCommands /\ FineCommand(e) /\ e.proxy \in Proxies /\ e.kind = "target"
      /\ DoTarget(e) /\ done' = Append(done, e) /\ undone' = Front(undone)
  BY LastIs DEF CommandInv, QueueInv, RedoTarget
<1>2. TargetsListed /\ DoneFine(done, AllOf, OwnOf) /\ UndoneFine(undone, AllOf)
  BY DEF UndoInv
<1>3. AllOf' = AllOf /\ OwnOf' = OwnOf /\ TargetsListed'
  <2>1. CASE e.onStage
    BY <1>1, <1>2, <2>1, TargetListed DEF DoTarget, FineCommand
  <2>2. CASE ~e.onStage
    <3>1. UNCHANGED <<session, target, sublayers>>
      BY <1>1, <2>2 DEF DoTarget, trackVars
    <3> QED BY <1>2, <3>1, SameLayers DEF TargetsListed, StageLayers
  <2> QED BY <2>1, <2>2
<1>4. /\ Len(undone) \in 1..Len(undone) /\ e = undone[Len(undone)]
      /\ Len(Front(undone)) = Len(undone) - 1
      /\ \A i \in 1..Len(undone) - 1 : Front(undone)[i] = undone[i]
  BY QueueSeqs, OneOff
<1>5. Wants(e) => e.previous \in AllOf[e.proxy]
  BY <1>2, <1>4 DEF UndoneFine
<1>6. DoneFine(Append(done, e), AllOf, OwnOf)
  BY <1>1, <1>2, <1>5, QueueSeqs, DoneAppend
<1>7. \A i \in 1..Len(undone) - 1 : ~Appends(e, Front(undone)[i])
  BY <1>1 DEF Appends
<1>8. UndoneFine(Front(undone), AllOf)
  BY <1>2, <1>4, <1>7, QueueSeqs, UndoneFront
<1> QED BY <1>1, <1>3, <1>6, <1>8

LEMMA RedoCreateRestores ==
  ASSUME CommandInv, UndoInv, sound, undone # << >>, NEW e, e = Last(undone), e.kind = "create",
         RedoCreate(e)
  PROVE  TargetsListed' /\ DoneFine(done', AllOf', OwnOf') /\ UndoneFine(undone', AllOf')
<1>1. /\ e \in CreateCommands /\ FineCommand(e) /\ e.proxy \in Proxies /\ e.sublayer \in BOOLEAN
      /\ e.layer # NoLayer
  BY LastIs, NoAssumption DEF CommandInv, QueueInv, CreateCommands
<1>2. PICK layer \in Layers :
           /\ Free(layer) \/ layer \in Openable[e.proxy]
           /\ DoCreate(e.proxy, layer, e.sublayer)
           /\ done' = Append(done, Created(e.proxy, layer, e.sublayer))
           /\ undone' = [i \in 1..Len(undone) - 1 |->
                           IF layer = e.layer THEN undone[i] ELSE Forgotten(e.layer, undone[i])]
  BY RedoCreateIs
<1>3. /\ TargetsListed' /\ DoneFine(done', AllOf', OwnOf')
      /\ \A q \in Proxies : AllOf[q] \subseteq AllOf'[q]
      /\ e.sublayer => layer \in AllOf'[e.proxy]
  BY <1>1, <1>2, CreateRestores
<1>4. undone \in Seq(AllCommands) /\ Len(undone) \in Nat /\ Len(undone) > 0
  BY QueueSeqs
<1>5. ASSUME NEW i \in 1..Len(undone) - 1
      PROVE  /\ \/ undone'[i] = undone[i]
                \/ /\ undone'[i].kind = "target" /\ undone[i].kind = "target"
                   /\ undone'[i].proxy = undone[i].proxy /\ undone'[i].onStage = undone[i].onStage
                   /\ undone'[i].previous \in {undone[i].previous, NoLayer}
             /\ Wants(undone'[i]) /\ Appends(e, undone'[i]) => layer = e.layer
  <2>1. undone[i] \in AllCommands
    BY <1>4
  <2>2. CASE layer = e.layer
    BY <1>2, <2>2
  <2>3. CASE layer # e.layer
    <3>1. undone'[i] = Forgotten(e.layer, undone[i])
      BY <1>2, <2>3
    <3>2. CASE undone[i].kind = "target"
      <4>1. undone[i] \in TargetCommands
        BY <2>1, <3>2, CommandKinds
      <4>2. /\ undone'[i].kind = "target" /\ undone'[i].proxy = undone[i].proxy
            /\ undone'[i].onStage = undone[i].onStage
            /\ undone'[i].previous = IF undone[i].previous = e.layer THEN NoLayer ELSE undone[i].previous
        BY <3>1, <3>2, <4>1 DEF Forgotten, TargetCommands
      <4>3. ~Appends(e, undone'[i])
        BY <1>1, <4>2 DEF Appends
      <4> QED BY <3>2, <4>2, <4>3
    <3>3. CASE undone[i].kind # "target"
      <4>1. undone'[i] = undone[i]
        BY <3>1, <3>3 DEF Forgotten
      <4> QED BY <3>3, <4>1 DEF Wants
    <3> QED BY <3>2, <3>3
  <2> QED BY <2>2, <2>3
<1>6. UndoneFine(undone', AllOf')
  <2> DEFINE more == AllOf'
             t == undone'
  <2>1. /\ \A q \in Proxies : AllOf[q] \subseteq more[q]
        /\ \A i \in 1..Len(undone) - 1 : Wants(t[i]) /\ Appends(e, t[i]) => t[i].previous \in more[t[i].proxy]
    BY <1>3, <1>5 DEF Appends
  <2>2. Len(t) = Len(undone) - 1
    <3>1. DOMAIN t = 1..Len(undone) - 1 /\ t \in [1..Len(undone) - 1 -> {t[i] : i \in 1..Len(undone) - 1}]
      BY <1>2
    <3> QED BY <1>4, <3>1
  <2>3. \A i \in 1..Len(undone) - 1 :
           \/ t[i] = undone[i]
           \/ /\ t[i].kind = "target" /\ undone[i].kind = "target" /\ t[i].proxy = undone[i].proxy
              /\ t[i].onStage = undone[i].onStage /\ t[i].previous \in {undone[i].previous, NoLayer}
    BY <1>5
  <2> HIDE DEF more, t
  <2>4. UndoneFine(undone, AllOf)
    BY DEF UndoInv
  <2>5. UndoneFine(t, more)
    BY <1>4, <2>1, <2>2, <2>3, <2>4, UndoneFront
  <2> QED BY <2>5 DEF more, t
<1> QED BY <1>3, <1>6

LEMMA RedoRestores ==
  ASSUME CommandInv, UndoInv, Redo
  PROVE  UndoInv'
<1> DEFINE e == Last(undone)
<1>1. /\ undone # << >> /\ sound' = sound
      /\ IF e.kind = "create" THEN RedoCreate(e) ELSE RedoTarget(e)
  BY DEF Redo
<1> HIDE DEF e
<1> SUFFICES ASSUME sound
             PROVE  TargetsListed' /\ DoneFine(done', AllOf', OwnOf') /\ UndoneFine(undone', AllOf')
  BY <1>1 DEF UndoInv
<1>2. CASE e.kind = "create"
  BY <1>1, <1>2, RedoCreateRestores DEF e
<1>3. CASE e.kind # "create"
  BY <1>1, <1>3, RedoTargetRestores DEF e
<1> QED BY <1>2, <1>3

\* The other steps change no layers of a stage; flushing forgets the commands.
LEMMA OthersRestore ==
  ASSUME CommandInv, UndoInv, UNCHANGED <<session, sublayers, sound>>,
         target' = target \/ \E p \in Loaded, layer \in Layers : Targets(p, layer),
         (done' = done /\ undone' = undone) \/ (done' = << >> /\ undone' = << >>)
  PROVE  UndoInv'
<1> SUFFICES ASSUME sound
             PROVE  TargetsListed' /\ DoneFine(done', AllOf', OwnOf') /\ UndoneFine(undone', AllOf')
  BY DEF UndoInv
<1>1. AllOf' = AllOf /\ OwnOf' = OwnOf /\ Loaded' = Loaded
  BY SameLayers
<1>2. TargetsListed /\ DoneFine(done, AllOf, OwnOf) /\ UndoneFine(undone, AllOf)
  BY DEF UndoInv
<1>3. TargetsListed'
  <2>1. CASE target' = target
    BY <1>1, <1>2, <2>1 DEF TargetsListed, StageLayers
  <2>2. CASE \E p \in Loaded, layer \in Layers : Targets(p, layer)
    BY <1>2, <2>2, TargetListed
  <2> QED BY <2>1, <2>2
<1>4. DoneFine(<< >>, AllOf, OwnOf) /\ UndoneFine(<< >>, AllOf)
  BY DEF DoneFine, UndoneFine
<1> QED BY <1>1, <1>2, <1>3, <1>4

LEMMA UndoInvInit == CommandInit => UndoInv
<1> SUFFICES ASSUME CommandInit PROVE UndoInv
  OBVIOUS
<1>1. done = << >> /\ undone = << >> /\ session = [p \in Proxies |-> NoLayer]
  BY DEF CommandInit, TrackInit
<1>2. Loaded = {}
  BY <1>1 DEF Loaded
<1> QED BY <1>1, <1>2 DEF UndoInv, TargetsListed, DoneFine, UndoneFine

LEMMA UndoInvNext == CommandInv /\ UndoInv /\ [CommandNext]_commandVars => UndoInv'
<1> SUFFICES ASSUME CommandInv, UndoInv, [CommandNext]_commandVars
             PROVE  UndoInv'
  OBVIOUS
<1>1. CASE UNCHANGED commandVars
  BY <1>1, OthersRestore DEF commandVars, trackVars, queueVars
<1>2. ASSUME NEW p \in Proxies, Edited(p) PROVE UndoInv'
  BY <1>2, OthersRestore DEF Edited, EditStage, queueVars
<1>3. ASSUME NEW layer \in Layers, Cleaned(layer) PROVE UndoInv'
  BY <1>3, OthersRestore DEF Cleaned, CleanLayer, queueVars
<1>4. CASE Saved
  BY <1>4, OthersRestore DEF Saved, SerializeAll, queueVars
<1>5. CASE FlushUndo
  BY <1>5, OthersRestore DEF FlushUndo, trackVars
<1>6. ASSUME NEW p \in Proxies, NEW layer \in Layers, Retargeted(p, layer) PROVE UndoInv'
  <2>1. /\ p \in Loaded /\ layer \in StageLayers(p) \ {target[p]} /\ TargetChanged(p, layer)
        /\ UNCHANGED <<sublayers, done, undone, silent, sound>>
    BY <1>6 DEF Retargeted, queueVars
  <2>2. Targets(p, layer)
    BY <2>1, TargetsEffect DEF CommandInv
  <2> QED BY <2>1, <2>2, OthersRestore DEF Targets
<1> QED
  BY <1>1, <1>2, <1>3, <1>4, <1>5, <1>6, StageChangedRestores, CurrentEditTargetRestores,
     CreateLayerRestores, UndoRestoring, RedoRestores
     DEF CommandNext

\* Undoing the edit target command gives the stage the target it had, also when
\* layers were created, undone and created anew in between: as long as every undo let go
\* only of what nobody had taken up, the former target is a layer of the stage still, and
\* USD accepts it (LayerCurrentEditTarget::undoIt ignores what USD says).
THEOREM UndoGivesBack == CommandSpec => UndoRestoresTarget
<1> DEFINE A == Undo /\ sound =>
                  LET e == Last(done)
                  IN  e.kind = "target" /\ e.onStage /\ target[e.proxy] = e.layer /\ e.previous # NoLayer
                        => target'[e.proxy] = e.previous
<1>1. ASSUME CommandInv, UndoInv PROVE A
  <2> SUFFICES ASSUME Undo, sound, NEW e, e = Last(done), e.kind = "target", e.onStage,
                      e.previous # NoLayer
               PROVE  target'[e.proxy] = e.previous
    BY Zenon
  <2>1. /\ done # << >> /\ done' = Front(done) /\ undone' = Append(undone, e) /\ UndoTarget(e)
    BY DEF Undo
  <2>2. e.previous \in StageLayers(e.proxy)
    BY <1>1, <2>1, UndoTargetRestores DEF Wants
  <2>3. SetTarget(e.proxy, e.previous)
    BY <2>1 DEF UndoTarget
  <2>4. e.proxy \in Proxies /\ target \in [Proxies -> Layers \cup {NoLayer}]
    BY <1>1, <2>1, LastIs DEF CommandInv, QueueInv, TrackInv, StageInv, StagesTyped
  <2>5. CASE e.previous = target[e.proxy]
    BY <2>3, <2>5 DEF SetTarget, trackVars
  <2>6. CASE e.previous # target[e.proxy]
    BY <2>2, <2>3, <2>4, <2>6 DEF SetTarget, TargetChanged
  <2> QED BY <2>5, <2>6
<1>2. CommandInv /\ UndoInv /\ [CommandNext]_commandVars => [A]_commandVars
  <2> HIDE DEF A
  <2> QED BY <1>1
<1>3. UndoRestoresTarget <=> [][A]_commandVars
  BY PTL DEF UndoRestoresTarget
<1> QED BY <1>2, <1>3, CommandInvariance, UndoInvInit, UndoInvNext, PTL DEF CommandSpec

-----------------------------------------------------------------------------
(***************************************************************************)
(* What saving needs: a layer that has edits, is a target or was one, is   *)
(* kept, or it is a session layer, of a stage or of one that is gone.      *)
(* This is so if no two stages have a file in common.                      *)
(***************************************************************************)
Apart ==
  \A p, q \in Proxies : p # q => (Used[p] \cup Openable[p]) \cap (Used[q] \cup Openable[q]) = {}

NotListed(layer) == layer \in SessionLayers /\ \A p \in Proxies : layer \notin sublayers[p]

Held(layer) == layer \in DOMAIN layerToIds \/ NotListed(layer)

Tracks(p, layer) == layer # NoLayer /\ layer \in {target[p], prev[p]}

HeldInv ==
  /\ \A layer \in dirty \ silent : Held(layer)
  /\ \A p \in Proxies : \A layer : Tracks(p, layer) => Held(layer)

SoundInv == sound => HeldInv

LEMMA OwnTracks ==
  ASSUME Apart, TrackInv, NEW p \in Proxies, NEW q \in Proxies, NEW layer,
         Tracks(p, layer), Tracks(q, layer)
  PROVE  p = q
<1>1. CASE layer \in SessionLayers
  BY <1>1 DEF TrackInv, OwnerInv, Has, Tracks
<1>2. CASE layer \notin SessionLayers
  <2>1. layer \in Used[p] \cup Openable[p] /\ layer \in Used[q] \cup Openable[q]
    BY <1>2 DEF TrackInv, OwnerInv, Tracks
  <2> QED BY <2>1 DEF Apart
<1> QED BY <1>1, <1>2

LEMMA SameHeld ==
  ASSUME HeldInv, UNCHANGED <<layerToIds, target, prev, sublayers>>,
         dirty' \ silent' \subseteq dirty \ silent
  PROVE  HeldInv'
<1>1. ASSUME NEW l, Held(l) PROVE Held(l)'
  BY <1>1 DEF Held, NotListed
<1> QED BY <1>1 DEF HeldInv, Tracks

\* The steps of one stage: it may let go of what it tracked, if that has no edits.
LEMMA HeldStep ==
  ASSUME Apart, TrackInv, HeldInv, UNCHANGED <<dirty, silent, sublayers>>, NEW p \in Proxies,
         \A q \in Proxies : q # p => target'[q] = target[q] /\ prev'[q] = prev[q],
         \A layer \in DOMAIN layerToIds :
           layer \in dirty \/ ~Tracks(p, layer) => layer \in DOMAIN layerToIds',
         \A layer : Tracks(p, layer)' => Held(layer)'
  PROVE  HeldInv'
<1>1. ASSUME NEW layer, Held(layer), layer \in dirty \/ ~Tracks(p, layer)
      PROVE  Held(layer)'
  BY <1>1 DEF Held, NotListed
<1>2. \A layer \in dirty' \ silent' : Held(layer)'
  BY <1>1 DEF HeldInv
<1>3. ASSUME NEW q \in Proxies, NEW layer, Tracks(q, layer)' PROVE Held(layer)'
  <2>1. CASE q = p
    BY <1>3, <2>1
  <2>2. CASE q # p
    <3>1. Tracks(q, layer)
      BY <1>3, <2>2 DEF Tracks
    <3>2. ~Tracks(p, layer) /\ Held(layer)
      BY <2>2, <3>1, OwnTracks DEF HeldInv
    <3> QED BY <1>1, <3>2
  <2> QED BY <2>1, <2>2
<1> QED BY <1>2, <1>3 DEF HeldInv

\* What is kept after tracking the old stage once more.
LEMMA OldHeld ==
  ASSUME TrackInv, HeldInv, NEW p \in Proxies
  PROVE  /\ \A layer \in DOMAIN layerToIds :
              layer \in dirty \/ ~Tracks(p, layer) => layer \in KeptOld(p)
         /\ LastTracked(p) # NoLayer =>
              LastTracked(p) \in KeptOld(p) \/ NotListed(LastTracked(p))
<1>1. \A layer \in DOMAIN layerToIds : layer \in Layers
  BY KeptLayers DEF TrackInv, DatabaseInv, Kept, Current, Database
<1>2. \A layer \in DOMAIN layerToIds : layer # NoLayer
  BY <1>1, NoAssumption
<1>3. LastTracked(p) # NoLayer => Tracks(p, LastTracked(p))
  BY DEF LastTracked, Tracks
<1>4. LastTracked(p) # NoLayer => Held(LastTracked(p))
  BY <1>3 DEF HeldInv
<1>5. LastTracked(p) \in DOMAIN layerToIds => LastTracked(p) \in KeptOld(p)
  BY DEF LastTracked, KeptOld, KeptAfter
<1>6. \A layer \in DOMAIN layerToIds :
              layer \in dirty \/ ~Tracks(p, layer) => layer \in KeptOld(p)
  BY <1>2 DEF KeptOld, KeptAfter, Tracks
<1> QED BY <1>4, <1>5, <1>6 DEF Held

LEMMA StageChangedHolds ==
  ASSUME Apart, CommandInv, HeldInv, NEW p \in Proxies, StageChanged(p)
  PROVE  HeldInv'
<1> USE DEF CommandInv
<1>1. /\ \/ \E layer \in SessionLayers : LoadsOwn(p, layer)
         \/ Unloads(p)
      /\ UNCHANGED <<dirty, silent, sublayers>>
  BY StageChangedIs DEF StageChanged
<1>2. DOMAIN target = Proxies /\ DOMAIN prev = Proxies
  BY DEF TrackInv, StageInv, StagesTyped
<1>3. /\ \A layer \in DOMAIN layerToIds :
              layer \in dirty \/ ~Tracks(p, layer) => layer \in KeptOld(p)
      /\ LastTracked(p) # NoLayer =>
              LastTracked(p) \in KeptOld(p) \/ NotListed(LastTracked(p))
  BY OldHeld
<1>4. ASSUME NEW layer, NotListed(layer) PROVE Held(layer)'
  BY <1>1, <1>4 DEF NotListed, Held
<1>5. ASSUME NEW layer \in SessionLayers, LoadsOwn(p, layer) PROVE HeldInv'
  <2>1. NotListed(layer)
    <3>1. CASE Free(layer)
      BY <3>1 DEF Free, Has, NotListed
    <3>2. CASE identifier[layer] = sessionName[p]
      BY <3>2 DEF TrackInv, OwnerInv, Has, NotListed
    <3> QED BY <1>5, <3>1, <3>2 DEF LoadsOwn
  <2>2. /\ target' = [target EXCEPT ![p] = layer]
        /\ \/ /\ DOMAIN layerToIds' = KeptAfter(KeptOld(p), LastTracked(p), layer)
              /\ prev' = [prev EXCEPT ![p] = layer]
           \/ /\ DOMAIN layerToIds' = KeptOld(p)
              /\ prev' = [prev EXCEPT ![p] = LastTracked(p)]
    BY <1>5 DEF LoadsOwn, Loads
  <2>3. \A q \in Proxies : q # p => target'[q] = target[q] /\ prev'[q] = prev[q]
    BY <1>2, <2>2
  <2>4. \A l \in KeptOld(p) : l \in dirty \/ l # LastTracked(p) => l \in DOMAIN layerToIds'
    BY <2>2 DEF KeptAfter
  <2>5. \A l : l = LastTracked(p) /\ l # NoLayer => Tracks(p, l)
    BY DEF LastTracked, Tracks
  <2>6. \A l \in DOMAIN layerToIds : l # NoLayer
    BY KeptLayers, NoAssumption DEF TrackInv, DatabaseInv, Kept, Current, Database
  <2>7. \A l \in DOMAIN layerToIds : l \in dirty \/ ~Tracks(p, l) => l \in DOMAIN layerToIds'
    BY <1>3, <2>4, <2>5, <2>6
  <2>8. ASSUME NEW l, Tracks(p, l)' PROVE Held(l)'
    <3>1. l # NoLayer /\ (l = layer \/ l = prev'[p])
      BY <1>2, <2>2, <2>8 DEF Tracks
    <3>2. CASE l = layer
      BY <1>4, <2>1, <3>2
    <3>3. CASE l # layer
      <4>1. l = LastTracked(p) /\ DOMAIN layerToIds' = KeptOld(p)
        BY <1>2, <2>2, <3>1, <3>3
      <4>2. l \in DOMAIN layerToIds' \/ NotListed(l)
        BY <1>3, <3>1, <4>1
      <4> QED BY <1>4, <4>2 DEF Held
    <3> QED BY <3>2, <3>3
  <2> QED BY <1>1, <2>3, <2>7, <2>8, HeldStep
<1>6. ASSUME Unloads(p) PROVE HeldInv'
  <2>1. /\ target' = [target EXCEPT ![p] = NoLayer]
        /\ \/ DOMAIN layerToIds' = KeptOld(p) /\ prev' = [prev EXCEPT ![p] = LastTracked(p)]
           \/ DOMAIN layerToIds' = DOMAIN layerToIds /\ prev' = [prev EXCEPT ![p] = NoLayer]
    BY <1>6 DEF Unloads
  <2>2. \A q \in Proxies : q # p => target'[q] = target[q] /\ prev'[q] = prev[q]
    BY <1>2, <2>1
  <2>3. \A l \in DOMAIN layerToIds : l \in dirty \/ ~Tracks(p, l) => l \in DOMAIN layerToIds'
    BY <1>3, <2>1
  <2>4. ASSUME NEW l, Tracks(p, l)' PROVE Held(l)'
    <3>1. l # NoLayer /\ l = LastTracked(p) /\ DOMAIN layerToIds' = KeptOld(p)
      BY <1>2, <2>1, <2>4 DEF Tracks
    <3>2. l \in DOMAIN layerToIds' \/ NotListed(l)
      BY <1>3, <3>1
    <3> QED BY <1>4, <3>2 DEF Held
  <2> QED BY <1>1, <2>2, <2>3, <2>4, HeldStep
<1> QED BY <1>1, <1>5, <1>6

LEMMA TargetsHolds ==
  ASSUME Apart, TrackInv, HeldInv, NEW p \in Proxies, NEW layer, Targets(p, layer), UNCHANGED silent
  PROVE  HeldInv'
<1>1. /\ target' = [target EXCEPT ![p] = layer] /\ prev' = [prev EXCEPT ![p] = layer]
      /\ UNCHANGED <<dirty, silent, sublayers>>
      /\ DOMAIN layerToIds' = KeptAfter(DOMAIN layerToIds, prev[p], layer)
  BY DEF Targets
<1>2. DOMAIN target = Proxies /\ DOMAIN prev = Proxies
  BY DEF TrackInv, StageInv, StagesTyped
<1>3. \A q \in Proxies : q # p => target'[q] = target[q] /\ prev'[q] = prev[q]
  BY <1>1
<1>4. \A l \in DOMAIN layerToIds : l # NoLayer
  BY KeptLayers, NoAssumption DEF TrackInv, DatabaseInv, Kept, Current, Database
<1>5. \A l \in DOMAIN layerToIds : l \in dirty \/ ~Tracks(p, l) => l \in DOMAIN layerToIds'
  BY <1>1, <1>4 DEF KeptAfter, Tracks
<1>6. ASSUME NEW l, Tracks(p, l)' PROVE Held(l)'
  <2>1. l = layer /\ l # NoLayer
    BY <1>1, <1>2, <1>6 DEF Tracks
  <2>2. CASE prev[p] # layer
    BY <1>1, <2>1, <2>2 DEF KeptAfter, Held
  <2>3. CASE prev[p] = layer
    <3>1. Held(l)
      BY <2>1, <2>3 DEF HeldInv, Tracks
    <3> QED BY <1>1, <2>3, <3>1 DEF KeptAfter, Held, NotListed
  <2> QED BY <2>2, <2>3
<1> QED BY <1>1, <1>3, <1>5, <1>6, HeldStep

LEMMA SetTargetHolds ==
  ASSUME Apart, CommandInv, HeldInv, NEW p \in Loaded, NEW layer, SetTarget(p, layer)
  PROVE  HeldInv'
<1>1. /\ Targets(p, layer) \/ UNCHANGED trackVars
      /\ UNCHANGED <<sublayers, silent>> /\ p \in Proxies
  BY SetTargetIs DEF CommandInv, Loaded
<1>2. CASE Targets(p, layer)
  BY <1>1, <1>2, TargetsHolds DEF CommandInv
<1>3. CASE UNCHANGED trackVars
  BY <1>1, <1>3, SameHeld DEF trackVars, vars, dbVars
<1> QED BY <1>1, <1>2, <1>3

\* The root layer that a command edits was silent, or it becomes so.
LEMMA SilentEdits ==
  ASSUME NEW p, NEW S, SetSublayers(p, S)
  PROVE  dirty' \ silent' \subseteq dirty \ silent
BY DEF SetSublayers

LEMMA CreateHolds ==
  ASSUME CommandInv, HeldInv, NEW p \in Proxies, NEW layer, NEW sub,
         DoCreate(p, layer, sub), Free(layer) \/ layer \in Openable[p]
  PROVE  HeldInv'
<1>1. Creates(p, layer)
  BY DoCreateIs DEF CommandInv
<1>2. /\ DOMAIN layerToIds' = DOMAIN layerToIds \cup {layer} /\ UNCHANGED <<target, prev>>
      /\ sublayers' \in {sublayers, [sublayers EXCEPT ![p] = sublayers[p] \cup {layer}]}
  BY <1>1 DEF Creates
<1>3. dirty' \ silent' \subseteq dirty \ silent
  BY SilentEdits DEF DoCreate
<1>4. DOMAIN sublayers = Proxies
  BY DEF CommandInv, TrackInv, StageInv
<1>5. \A q \in Proxies : sublayers'[q] \subseteq sublayers[q] \cup {layer}
  BY <1>2, <1>4
<1>6. ASSUME NEW l, Held(l) PROVE Held(l)'
  BY <1>2, <1>5, <1>6 DEF Held, NotListed
<1> QED BY <1>2, <1>3, <1>6 DEF HeldInv, Tracks

LEMMA UncreateHolds ==
  ASSUME CommandInv, HeldInv, NEW e, e.kind = "create", e.proxy \in Proxies, UndoCreate(e), Sound(e),
         \A q \in Proxies : sessionName[q] # identifier[e.layer]
  PROVE  HeldInv'
<1>1. Uncreates(e.proxy, e.layer)
  BY UndoCreateIs DEF CommandInv
<1>2. /\ DOMAIN layerToIds \ {e.layer} \subseteq DOMAIN layerToIds' /\ UNCHANGED <<target, prev>>
      /\ sublayers' \in {sublayers, [sublayers EXCEPT ![e.proxy] = sublayers[e.proxy] \ {e.layer}]}
  BY <1>1 DEF Uncreates
<1>3. dirty' \ silent' \subseteq dirty \ silent
  BY SilentEdits DEF UndoCreate
<1>4. DOMAIN sublayers = Proxies /\ DOMAIN target = Proxies /\ DOMAIN prev = Proxies
  BY DEF CommandInv, TrackInv, StageInv, StagesTyped
<1>5. \A q \in Proxies : sublayers'[q] \subseteq sublayers[q]
  BY <1>2, <1>4
<1>6. ASSUME NEW l, Held(l), l # e.layer PROVE Held(l)'
  BY <1>2, <1>5, <1>6 DEF Held, NotListed
<1>7. e.layer \notin dirty /\ \A q \in Proxies : e.layer # target[q] /\ e.layer # prev[q]
  BY <1>4 DEF Sound, Range
<1> QED BY <1>2, <1>3, <1>6, <1>7 DEF HeldInv, Tracks

LEMMA SavedHolds ==
  ASSUME Apart, TrackInv, HeldInv, SerializeAll, UNCHANGED <<sublayers, silent>>
  PROVE  HeldInv'
<1>1. /\ \A q \in Proxies : prev'[q] = LastTracked(q)
      /\ UNCHANGED <<target, dirty>>
  BY DEF SerializeAll
<1>2. DOMAIN layerToIds \ Dropped \subseteq DOMAIN layerToIds'
  BY SaveEffect DEF TrackInv, DatabaseInv, StageInv
<1>3. ASSUME NEW l, Held(l), l \notin Dropped PROVE Held(l)'
  BY <1>2, <1>3 DEF Held, NotListed
<1>4. \A l \in dirty : l \notin Dropped
  BY DEF Dropped
<1>5. ASSUME NEW q \in Proxies, NEW l, Tracks(q, l)' PROVE Held(l)'
  <2>1. l # NoLayer /\ (l = LastTracked(q) \/ (q \notin Loaded /\ l = target[q]))
    BY <1>1, <1>5 DEF Tracks, LastTracked
  <2>2. Tracks(q, l)
    BY <2>1 DEF LastTracked, Tracks
  <2>3. l \notin Dropped
    <3> SUFFICES ASSUME NEW r \in Loaded, prev[r] # target[r], l = prev[r]
                 PROVE  FALSE
      BY DEF Dropped
    <3>1. r \in Proxies /\ Tracks(r, l)
      BY <2>1 DEF Loaded, Tracks
    <3>2. r = q
      BY <2>2, <3>1, OwnTracks
    <3> QED BY <2>1, <3>2 DEF LastTracked
  <2> QED BY <1>3, <2>2, <2>3 DEF HeldInv
<1> QED BY <1>1, <1>3, <1>4, <1>5 DEF HeldInv

LEMMA SoundInvNext == Apart /\ CommandInv /\ SoundInv /\ [CommandNext]_commandVars => SoundInv'
<1> SUFFICES ASSUME Apart, CommandInv, SoundInv, [CommandNext]_commandVars, sound'
             PROVE  HeldInv'
  BY DEF SoundInv
<1> USE DEF CommandInv
<1>0. ASSUME sound' = sound PROVE HeldInv
  BY <1>0 DEF SoundInv
<1>1. CASE UNCHANGED commandVars
  BY <1>0, <1>1, SameHeld DEF commandVars, trackVars, vars, dbVars
<1>2. ASSUME NEW p \in Proxies, StageChanged(p) PROVE HeldInv'
  BY <1>0, <1>2, StageChangedHolds DEF StageChanged
<1>3. ASSUME NEW p \in Proxies, Edited(p) PROVE HeldInv'
  <2>1. /\ HeldInv /\ p \in Loaded /\ dirty' = dirty \cup {target[p]} /\ silent' = silent \ {target[p]}
        /\ UNCHANGED <<layerToIds, target, prev, sublayers>>
    BY <1>0, <1>3 DEF Edited, EditStage, Edit, dbVars
  <2>2. target[p] # NoLayer
    BY <2>1, NoAssumption DEF TrackInv, StageInv, StagesTyped
  <2>3. Held(target[p])
    BY <1>3, <2>1, <2>2 DEF HeldInv, Tracks
  <2>4. \A layer : Held(layer) => Held(layer)'
    BY <2>1 DEF Held, NotListed
  <2>5. \A layer \in dirty' \ silent' : layer \in dirty \ silent \/ layer = target[p]
    BY <2>1
  <2>6. \A layer \in dirty' \ silent' : Held(layer)'
    BY <2>1, <2>3, <2>4, <2>5 DEF HeldInv
  <2>7. \A q \in Proxies : \A layer : Tracks(q, layer)' => Held(layer)'
    BY <2>1, <2>4 DEF HeldInv, Tracks
  <2> QED BY <2>6, <2>7 DEF HeldInv
<1>4. ASSUME NEW layer \in Layers, Cleaned(layer) PROVE HeldInv'
  BY <1>0, <1>4, SameHeld DEF Cleaned, CleanLayer, Clean, dbVars
<1>5. CASE Saved
  BY <1>0, <1>5, SavedHolds DEF Saved
<1>6. CASE FlushUndo
  BY <1>0, <1>6, SameHeld DEF FlushUndo, trackVars, vars, dbVars
<1>7. ASSUME NEW p \in Proxies, NEW layer \in Layers, Retargeted(p, layer) PROVE HeldInv'
  <2>1. /\ p \in Loaded /\ layer \in StageLayers(p) \ {target[p]} /\ TargetChanged(p, layer)
        /\ UNCHANGED <<sublayers, silent, sound>>
    BY <1>7 DEF Retargeted
  <2>2. Targets(p, layer)
    BY <2>1, TargetsEffect
  <2> QED BY <1>0, <2>1, <2>2, TargetsHolds
<1>8. ASSUME NEW p \in Proxies, NEW layer \in Layers, LayerCurrentEditTarget(p, layer) PROVE HeldInv'
  BY <1>0, <1>8, SetTargetHolds DEF LayerCurrentEditTarget
<1>9. ASSUME NEW p \in Proxies, NEW layer, NEW sub \in BOOLEAN, LayerCreateLayer(p, layer, sub)
      PROVE  HeldInv'
  <2>1. /\ DoCreate(p, layer, sub) /\ sound' = sound
        /\ layer \in NewLayers \/ layer \in Openable[p]
    BY <1>9 DEF LayerCreateLayer
  <2>2. Free(layer) \/ layer \in Openable[p]
    BY <2>1, NewIsFree DEF TrackInv
  <2> QED BY <1>0, <2>1, <2>2, CreateHolds
<1>10. CASE Undo
  <2> DEFINE e == Last(done)
  <2>1. /\ done # << >> /\ sound' = (sound /\ Sound(e)) /\ sound \in BOOLEAN
        /\ IF e.kind = "create" THEN UndoCreate(e) ELSE UndoTarget(e)
    BY <1>10 DEF Undo, GhostInv
  <2>2. /\ e \in AllCommands /\ FineCommand(e) /\ e.proxy \in Proxies
        /\ e.kind # "create" => e.kind = "target"
    BY <2>1, LastIs DEF QueueInv
  <2> HIDE DEF e
  <2>3. sound /\ Sound(e) /\ HeldInv
    BY <2>1 DEF SoundInv
  <2>4. CASE e.kind = "create"
    BY <2>1, <2>2, <2>3, <2>4, UncreateHolds DEF FineCommand
  <2>5. CASE e.kind # "create" /\ e.onStage
    BY <2>1, <2>2, <2>3, <2>5, SetTargetHolds DEF FineCommand, UndoTarget
  <2>6. CASE e.kind # "create" /\ ~e.onStage
    BY <2>1, <2>3, <2>6, SameHeld DEF UndoTarget, trackVars, vars, dbVars
  <2> QED BY <2>4, <2>5, <2>6
<1>11. CASE Redo
  <2> DEFINE e == Last(undone)
  <2>1. /\ undone # << >> /\ sound' = sound
        /\ IF e.kind = "create" THEN RedoCreate(e) ELSE RedoTarget(e)
    BY <1>11 DEF Redo
  <2>2. /\ e \in AllCommands /\ FineCommand(e) /\ e.proxy \in Proxies
        /\ e.kind # "create" => e.kind = "target"
    BY <2>1, LastIs DEF QueueInv
  <2>3. HeldInv
    BY <1>0, <2>1
  <2>4. CASE e.kind = "create"
    <3>1. PICK layer \in Layers : /\ Free(layer) \/ layer \in Openable[e.proxy]
                                  /\ DoCreate(e.proxy, layer, e.sublayer)
      BY <2>1, <2>4, RedoCreateIs
    <3> HIDE DEF e
    <3> QED BY <2>2, <2>3, <3>1, CreateHolds
  <2> HIDE DEF e
  <2>5. CASE e.kind # "create" /\ e.onStage
    BY <2>1, <2>2, <2>3, <2>5, SetTargetHolds DEF FineCommand, RedoTarget, DoTarget
  <2>6. CASE e.kind # "create" /\ ~e.onStage
    BY <2>1, <2>3, <2>6, SameHeld DEF RedoTarget, DoTarget, trackVars, vars, dbVars
  <2> QED BY <2>4, <2>5, <2>6
<1> QED
  BY <1>1, <1>2, <1>3, <1>4, <1>5, <1>6, <1>7, <1>8, <1>9, <1>10, <1>11 DEF CommandNext

LEMMA SoundInvInit == CommandInit => SoundInv
<1> SUFFICES ASSUME CommandInit PROVE SoundInv
  OBVIOUS
<1>1. /\ target = [p \in Proxies |-> NoLayer] /\ prev = [p \in Proxies |-> NoLayer] /\ dirty = {}
  BY DEF CommandInit, TrackInit, Init
<1> QED BY <1>1 DEF SoundInv, HeldInv, Tracks

\* Saving the scene writes every layer that was edited through a stage and that has a
\* file or is in a stage, however layers were created, targeted, undone and redone,
\* provided that no two stages have a file in common and that no undo let go of a layer
\* which somebody had taken up (serializeAll of ProxyShape.cpp, the undoIt of
\* LayerCreateLayer).
THEOREM TargetsAreSaved == ASSUME Apart PROVE CommandSpec => SavesTargets
<1> DEFINE A == SerializeAll /\ sound =>
                  dirty \ (silent \cup (SessionLayers \ UNION {StageLayers(p) : p \in Loaded}))
                    \subseteq Visible'
<1>1. ASSUME CommandInv, SoundInv PROVE A
  <2> SUFFICES ASSUME SerializeAll, sound, NEW layer \in dirty, layer \notin silent,
                      layer \notin SessionLayers \ UNION {StageLayers(p) : p \in Loaded}
               PROVE  layer \in Visible'
    OBVIOUS
  <2>1. /\ DOMAIN layerToIds \ Dropped \subseteq DOMAIN layerToIds'
        /\ {session[p] : p \in Loaded} \ Dropped \subseteq DOMAIN layerToIds'
        /\ dirty' = dirty
    BY <1>1, SaveEffect DEF CommandInv, TrackInv, DatabaseInv, StageInv, SerializeAll
  <2>2. layer \notin Dropped
    BY DEF Dropped
  <2>3. Held(layer)
    BY <1>1 DEF SoundInv, HeldInv
  <2>4. CASE layer \in DOMAIN layerToIds
    BY <2>1, <2>2, <2>4 DEF Visible
  <2>5. CASE NotListed(layer)
    <3>1. PICK p \in Loaded : layer \in StageLayers(p)
      BY <2>5 DEF NotListed
    <3>2. p \in Proxies /\ layer \notin Used[p] /\ layer \notin sublayers[p]
      BY <2>5, UsedAssumption DEF Loaded, NotListed
    <3>3. layer = session[p]
      BY <3>1, <3>2 DEF StageLayers
    <3> QED BY <2>1, <2>2, <3>3 DEF Visible
  <2> QED BY <2>3, <2>4, <2>5 DEF Held
<1>2. CommandInv /\ SoundInv /\ [CommandNext]_commandVars => [A]_commandVars
  <2> HIDE DEF A
  <2> QED BY <1>1
<1>3. SavesTargets <=> [][A]_commandVars
  BY PTL DEF SavesTargets
<1>4. CommandInv /\ SoundInv /\ [CommandNext]_commandVars => SoundInv'
  BY SoundInvNext
<1> QED BY <1>2, <1>3, <1>4, CommandInvariance, SoundInvInit, PTL DEF CommandSpec

-----------------------------------------------------------------------------
IsSequence(s) == Len(s) \in Nat /\ s = [k \in 1..Len(s) |-> s[k]]

\* What a read leaves to do, and when.
ReadsInv ==
  /\ IsSequence(reads)
  /\ depth \in Nat /\ depth <= Len(reads)
  /\ pulling \in BOOLEAN /\ plugin \in BOOLEAN
  /\ pulling => plugin /\ attrs = {}
  /\ ~plugin => depth = 0 /\ unloaded = << >> /\ attrs = {}
  /\ reads = << >> /\ ~pulling => unloaded = << >> /\ attrs = {}

\* The manager is there for all that is kept, and keeps the attribute or layers.
ManagerInv ==
  /\ DOMAIN layerToIds # {} \/ attrs # {} => manager
  /\ attrs # {} => DOMAIN layerToIds = {}

\* Stages and callbacks belong to shapes, also those that are to come.
ShapesInv ==
  /\ shapes \subseteq Proxies /\ listening \subseteq shapes
  /\ Loaded \subseteq shapes
  /\ unloaded \in Seq(shapes)
  /\ session = [p \in Proxies |-> session[p]]

TextInv == text = [layer \in Layers |-> text[layer]]

SceneInv == ReadsInv /\ ManagerInv /\ ShapesInv /\ TextInv

-----------------------------------------------------------------------------
LEMMA NoRead == IsSequence(<< >>) /\ Len(<< >>) = 0
BY DEF IsSequence

LEMMA OneRead ==
  ASSUME NEW r PROVE IsSequence(<<r>>) /\ Len(<<r>>) = 1
<1>1. <<r>> \in Seq({r}) /\ Len(<<r>>) = 1
  OBVIOUS
<1> QED BY <1>1 DEF IsSequence

\* A sequence is one of its elements.
LEMMA OfElements ==
  ASSUME NEW s, IsSequence(s)
  PROVE  s \in Seq({s[k] : k \in 1..Len(s)})
BY DEF IsSequence

LEMMA FromElements ==
  ASSUME NEW S, NEW s \in Seq(S)
  PROVE  IsSequence(s)
BY DEF IsSequence

LEMMA OneMoreRead ==
  ASSUME NEW s, IsSequence(s), NEW r
  PROVE  IsSequence(Append(s, r)) /\ Len(Append(s, r)) = Len(s) + 1
<1> DEFINE S == {s[k] : k \in 1..Len(s)} \cup {r}
<1>1. s \in Seq({s[k] : k \in 1..Len(s)})
  BY OfElements
<1>2. s \in Seq(S) /\ r \in S
  BY <1>1
<1> HIDE DEF S
<1>3. Append(s, r) \in Seq(S) /\ Len(Append(s, r)) = Len(s) + 1
  BY <1>2
<1> QED BY <1>3, FromElements

\* A function on the first n numbers is a sequence.
LEMMA FromFunction ==
  ASSUME NEW n \in Nat, NEW t, DOMAIN t = 1..n, t = [k \in 1..n |-> t[k]]
  PROVE  IsSequence(t) /\ Len(t) = n
<1> DEFINE S == {t[k] : k \in 1..n}
<1>1. t \in [1..n -> S]
  OBVIOUS
<1>2. t \in Seq(S) /\ Len(t) = n
  BY <1>1
<1> QED BY <1>2, FromElements

-----------------------------------------------------------------------------
\* Without a shape there is nothing to serialise.
LEMMA NothingSerialized ==
  ASSUME Loaded = {}
  PROVE  FoldSet(Serialized, Current, Loaded) = Current
<1> DEFINE Body(it, s) == IF s = {} THEN Current
                          ELSE Serialized(CHOOSE p \in s : TRUE, it[s \ {CHOOSE p \in s : TRUE}])
           iter == CHOOSE it : it = [s \in SUBSET {} |-> Body(it, s)]
           base == [s \in SUBSET {} |-> Current]
<1>1. base = [s \in SUBSET {} |-> Body(base, s)]
  OBVIOUS
<1>2. iter = [s \in SUBSET {} |-> Body(iter, s)]
  BY <1>1
<1>3. iter[{}] = Current
  <2> HIDE DEF iter
  <2> QED BY <1>2
<1>4. FoldSet(Serialized, Current, {}) = iter[{}]
  BY Zenon DEF FoldSet, MapThenFoldSet
<1> QED BY <1>3, <1>4

-----------------------------------------------------------------------------
(***************************************************************************)
(* What the user does between reads leaves the reads alone.                *)
(***************************************************************************)
Leaves == UNCHANGED <<unloaded, depth, plugin, reads, pulling>>

LEMMA UserLeaves ==
  ASSUME UserNext, ~LoadPlugin
  PROVE  Idle /\ Leaves /\ (attrs' = attrs \/ attrs' = {})
<1> USE DEF Leaves
<1>1. ASSUME NEW p \in Proxies, CreateShape(p) PROVE Idle /\ Leaves /\ attrs' = attrs
  BY <1>1 DEF CreateShape, LoadStageOfShape
<1>2. ASSUME NEW p \in Proxies, SetFilePath(p) PROVE Idle /\ Leaves /\ attrs' = attrs
  BY <1>2 DEF SetFilePath, LoadStageOfShape
<1>3. ASSUME NEW p \in Proxies, ComputeStage(p) PROVE Idle /\ Leaves /\ attrs' = attrs
  BY <1>3 DEF ComputeStage, LoadStageOfShape
<1>4. ASSUME NEW p \in Proxies, DeleteShape(p) PROVE Idle /\ Leaves /\ attrs' = attrs
  BY <1>4 DEF DeleteShape
<1>5. ASSUME NEW p \in Proxies, NEW layer \in Layers, Retarget(p, layer)
      PROVE  Idle /\ Leaves /\ attrs' = attrs
  BY <1>5 DEF Retarget, nodeVars
<1>6. ASSUME NEW p \in Proxies, NEW says \in Texts, EditText(p, says)
      PROVE  Idle /\ Leaves /\ attrs' = attrs
  BY <1>6 DEF EditText, nodeVars
<1>7. ASSUME NEW layer \in Layers, SaveLayer(layer) \/ ReloadLayer(layer)
      PROVE  Idle /\ Leaves /\ attrs' = attrs
  BY <1>7 DEF SaveLayer, ReloadLayer, nodeVars
<1>8. ASSUME SaveScene PROVE Idle /\ Leaves /\ attrs' = {}
  BY <1>8 DEF SaveScene, nodeVars, Cleared
<1> QED BY <1>1, <1>2, <1>3, <1>4, <1>5, <1>6, <1>7, <1>8 DEF UserNext

-----------------------------------------------------------------------------
(***************************************************************************)
(* What a read leaves to do.                                               *)
(***************************************************************************)
LEMMA ReadsStep ==
  ASSUME ReadsInv, ManagerInv, SceneNext
  PROVE  ReadsInv'
<1> USE DEF ReadsInv
<1>0. /\ reads = << >> => Len(reads) = 0
      /\ Len(reads) \in Nat /\ (Len(reads) = 0 => reads = << >>)
  BY NoRead DEF IsSequence
<1>1. ASSUME UserNext, ~LoadPlugin PROVE ReadsInv'
  BY <1>1, UserLeaves DEF Leaves, Idle
<1>2. CASE LoadPlugin
  BY <1>2 DEF LoadPlugin
<1>3. ASSUME NEW kept, NewScene(kept) PROVE ReadsInv'
  BY <1>3 DEF NewScene, ClearScene, Idle
<1>4. ASSUME NEW kept, OpenScene(kept) PROVE ReadsInv'
  <2>1. IsSequence(reads') /\ Len(reads') = 1 /\ reads' # << >>
    BY <1>4, OneRead, NoRead DEF OpenScene
  <2> QED BY <1>0, <1>4, <2>1 DEF OpenScene, ClearScene, PreFileRead
<1>5. CASE ImportScene
  <2>1. IsSequence(reads') /\ Len(reads') = 1 /\ reads' # << >>
    BY <1>5, OneRead, NoRead DEF ImportScene
  <2> QED BY <1>0, <1>5, <2>1 DEF ImportScene, PreFileRead, Idle
<1>6. ASSUME NEW S, ReadReference(S) PROVE ReadsInv'
  <2>1. IsSequence(reads') /\ Len(reads') = Len(reads) + 1 /\ ~pulling
    <3>1. CASE reads = << >>
      BY <3>1, <1>0, <1>6, OneRead DEF ReadReference, Idle
    <3>2. CASE reads # << >>
      <4>1. ~pulling /\ \E r : reads' = Append(reads, r)
        BY <3>2, <1>6 DEF ReadReference, Idle
      <4> QED BY <4>1, OneMoreRead
    <3> QED BY <3>1, <3>2
  <2>2. reads' # << >>
    BY <1>0, <2>1, NoRead
  <2> QED BY <1>0, <1>6, <2>1, <2>2 DEF ReadReference, PreFileRead
<1>7. ASSUME NEW p, ReadShape(p) PROVE ReadsInv'
  <2>1. IsSequence(reads') /\ Len(reads') = Len(reads) /\ reads' # << >>
    <3>1. /\ DOMAIN reads' = 1..Len(reads) /\ reads' = [k \in 1..Len(reads) |-> reads'[k]]
          /\ Len(reads) # 0
      BY <1>0, <1>7 DEF ReadShape, IsSequence
    <3> QED BY <3>1, <1>0, FromFunction, NoRead
  <2> QED BY <1>7, <2>1 DEF ReadShape
<1>8. CASE ReadManager
  <2>1. IsSequence(reads') /\ Len(reads') = Len(reads) /\ reads' # << >>
    <3>1. /\ DOMAIN reads' = 1..Len(reads) /\ reads' = [k \in 1..Len(reads) |-> reads'[k]]
          /\ Len(reads) # 0
      BY <1>0, <1>8 DEF ReadManager, IsSequence
    <3> QED BY <3>1, <1>0, FromFunction, NoRead
  <2> QED BY <1>8, <2>1 DEF ReadManager
<1>9. CASE PostFileRead
  <2>1. Len(reads) # 0 /\ Len(reads) - 1 \in Nat
    BY <1>0, <1>9 DEF PostFileRead
  <2>2. IsSequence(reads') /\ Len(reads') = Len(reads) - 1
    <3>1. /\ DOMAIN reads' = 1..Len(reads) - 1
          /\ reads' = [k \in 1..Len(reads) - 1 |-> reads'[k]]
      BY <1>9 DEF PostFileRead
    <3> QED BY <3>1, <2>1, FromFunction
  <2>3. depth' \in Nat /\ depth' <= Len(reads')
    BY <1>9, <2>1, <2>2 DEF PostFileRead, OldDepth
  <2>4. CASE OldDepth = 1
    <3>1. pulling' /\ attrs' = {}
      BY <1>9, <2>4 DEF PostFileRead, LoadAllLayers, Cleared, ManagerInv
    <3> QED BY <1>9, <2>2, <2>3, <3>1 DEF PostFileRead
  <2>5. CASE OldDepth # 1
    <3>1. depth > 1 /\ depth' = depth - 1
      BY <1>9, <2>5 DEF PostFileRead, OldDepth
    <3>2. reads' # << >>
      BY <3>1, <2>2, <2>3, NoRead
    <3> QED BY <1>9, <2>2, <2>3, <2>5, <3>2 DEF PostFileRead
  <2> QED BY <2>4, <2>5
<1>10. CASE UnheardRead
  <2>1. Len(reads) # 0 /\ Len(reads) - 1 \in Nat
    BY <1>0, <1>10 DEF UnheardRead
  <2>2. reads \in Seq({reads[k] : k \in 1..Len(reads)})
    BY OfElements
  <2>3. reads' = SubSeq(reads, 1, Len(reads) - 1)
    BY <1>10 DEF UnheardRead, Front
  <2>4. reads' \in Seq({reads[k] : k \in 1..Len(reads)})
    BY <2>1, <2>2, <2>3
  <2>5. IsSequence(reads')
    BY <2>4, FromElements
  <2>6. Len(reads') \in Nat
    BY <2>5 DEF IsSequence
  <2>7. ~plugin /\ ~pulling /\ UNCHANGED <<depth, unloaded, attrs, plugin, pulling>>
    BY <1>10 DEF UnheardRead
  <2>8. /\ depth' = 0 /\ unloaded' = << >> /\ attrs' = {}
        /\ pulling' = pulling /\ pulling \in BOOLEAN /\ plugin' = plugin /\ plugin \in BOOLEAN
    BY <2>7
  <2>9. ~pulling' /\ pulling' \in BOOLEAN /\ plugin' \in BOOLEAN
    BY <2>7, <2>8
  <2>10. depth' \in Nat /\ depth' <= Len(reads')
    BY <2>6, <2>8
  <2> QED BY <2>5, <2>8, <2>9, <2>10, Zenon
<1>11. CASE PullStage
  BY <1>11 DEF PullStage
<1>12. CASE Pulled
  BY <1>12 DEF Pulled
<1>13. CASE Restart
  <2>1. IsSequence(reads') /\ Len(reads') = 0
    BY <1>13, NoRead DEF Restart
  <2>2. /\ depth' = 0 /\ ~pulling' /\ ~plugin' /\ unloaded' = << >> /\ attrs' = {}
        /\ plugin' \in BOOLEAN /\ pulling' \in BOOLEAN
    BY <1>13 DEF Restart, ClearScene
  <2>3. depth' \in Nat /\ depth' <= Len(reads')
    BY <2>1, <2>2
  <2> QED BY <2>1, <2>2, <2>3, Zenon
<1> QED
  BY <1>1, <1>2, <1>3, <1>4, <1>5, <1>6, <1>7, <1>8, <1>9, <1>10, <1>11, <1>12, <1>13
  DEF SceneNext, UserNext, ReadNext

-----------------------------------------------------------------------------
(***************************************************************************)
(* What the manager is there for.                                          *)
(***************************************************************************)
LEMMA ManagerStep ==
  ASSUME ReadsInv, ManagerInv, ShapesInv, SceneNext
  PROVE  ManagerInv'
<1> USE DEF ManagerInv
<1>0. Idle => attrs = {}
  BY DEF ReadsInv, Idle
<1>1. ASSUME NEW p \in Proxies,
             \/ CreateShape(p) \/ SetFilePath(p) \/ ComputeStage(p)
      PROVE  ManagerInv'
  BY <1>0, <1>1 DEF CreateShape, SetFilePath, ComputeStage, LoadStageOfShape
<1>2. ASSUME NEW p \in Proxies, DeleteShape(p) PROVE ManagerInv'
  BY <1>2 DEF DeleteShape, DestroyProxy, vars, dbVars
<1>3. ASSUME NEW p \in Proxies, NEW layer \in Layers, Retarget(p, layer) PROVE ManagerInv'
  BY <1>0, <1>3 DEF Retarget
<1>4. ASSUME NEW p \in Proxies, NEW says \in Texts, EditText(p, says) PROVE ManagerInv'
  BY <1>4 DEF EditText, EditStage, Edit, dbVars
<1>5. ASSUME NEW layer \in Layers, SaveLayer(layer) \/ ReloadLayer(layer)
      PROVE  ManagerInv'
  BY <1>5 DEF SaveLayer, ReloadLayer, CleanLayer, Clean, dbVars
<1>6. CASE SaveScene
  <2>1. attrs' = {} /\ manager' = (manager \/ shapes # {})
    BY <1>6 DEF SaveScene, Cleared
  <2>2. CASE shapes = {}
    <3>1. Loaded = {}
      BY <2>2 DEF ShapesInv
    <3>2. layerToIds' = layerToIds
      BY <1>6, <3>1, NothingSerialized
      DEF SaveScene, SerializeAll, Become, Current, Database
    <3> QED BY <2>1, <3>2
  <2>3. CASE shapes # {}
    BY <2>1, <2>3
  <2> QED BY <2>2, <2>3
<1>7. CASE LoadPlugin
  BY <1>7 DEF LoadPlugin, trackVars, vars, dbVars
<1>8. ASSUME NEW kept, NewScene(kept) \/ OpenScene(kept) PROVE ManagerInv'
  BY <1>8 DEF NewScene, OpenScene, ClearScene, Become, Database
<1>9. ASSUME ImportScene \/ UnheardRead \/ Pulled PROVE ManagerInv'
  BY <1>9 DEF ImportScene, UnheardRead, Pulled, trackVars, vars, dbVars
<1>10. ASSUME NEW S, ReadReference(S) PROVE ManagerInv'
  BY <1>10 DEF ReadReference, trackVars, vars, dbVars
<1>11. ASSUME NEW p \in Proxies, ReadShape(p) PROVE ManagerInv'
  BY <1>11 DEF ReadShape, vars, dbVars
<1>12. CASE ReadManager
  BY <1>12 DEF ReadManager, trackVars, vars, dbVars
<1>13. CASE PostFileRead
  BY <1>13 DEF PostFileRead, LoadAllLayers, Cleared
<1>14. CASE PullStage
  BY <1>14 DEF PullStage, ReadsInv
<1>15. CASE Restart
  BY <1>15 DEF Restart, ClearScene, Become, Database
<1> QED
  BY <1>1, <1>2, <1>3, <1>4, <1>5, <1>6, <1>7, <1>8, <1>9, <1>10, <1>11, <1>12, <1>13,
     <1>14, <1>15
  DEF SceneNext, UserNext, ReadNext

-----------------------------------------------------------------------------
(***************************************************************************)
(* Stages belong to shapes.                                                *)
(***************************************************************************)
LEMMA StageOf ==
  ASSUME NEW p \in Proxies, ShapesInv, LoadStage(p) \/ LoadFails(p)
  PROVE  /\ session' = [q \in Proxies |-> session'[q]]
         /\ Loaded' \subseteq Loaded \cup {p}
<1>1. \E layer : session' = [session EXCEPT ![p] = layer]
  BY DEF LoadStage, LoadFails
<1> QED BY <1>1 DEF Loaded, ShapesInv

LEMMA ShapesStep ==
  ASSUME ReadsInv, ShapesInv, SceneNext
  PROVE  ShapesInv'
<1> USE DEF ShapesInv
<1>0. Idle \/ (reads = << >> /\ ~pulling) => unloaded = << >>
  BY DEF ReadsInv, Idle
<1>1. ASSUME NEW p \in Proxies,
             \/ CreateShape(p) \/ SetFilePath(p) \/ ComputeStage(p)
      PROVE  ShapesInv'
  <2>1. LoadStage(p) \/ LoadFails(p)
    BY <1>1 DEF CreateShape, SetFilePath, ComputeStage, LoadStageOfShape, LoadNewStage
  <2>2. session' = [q \in Proxies |-> session'[q]] /\ Loaded' \subseteq Loaded \cup {p}
    BY <2>1, StageOf
  <2>3. unloaded' = << >>
    BY <1>0, <1>1 DEF CreateShape, SetFilePath, ComputeStage, LoadStageOfShape
  <2>4. /\ shapes \cup {p} = shapes' /\ listening' \subseteq shapes'
    BY <1>1 DEF CreateShape, SetFilePath, ComputeStage
  <2> QED BY <2>2, <2>3, <2>4
<1>2. ASSUME NEW p \in Proxies, DeleteShape(p) PROVE ShapesInv'
  <2>1. session' = [session EXCEPT ![p] = NoLayer] /\ unloaded' = << >>
    BY <1>0, <1>2 DEF DeleteShape, DestroyProxy
  <2>2. session' = [q \in Proxies |-> session'[q]] /\ Loaded' \subseteq Loaded \ {p}
    BY <2>1 DEF Loaded
  <2>3. shapes' = shapes \ {p} /\ listening' = listening \ {p}
    BY <1>2 DEF DeleteShape
  <2> QED BY <2>1, <2>2, <2>3
<1>3. ASSUME UNCHANGED <<shapes, listening, unloaded, session>> PROVE ShapesInv'
  BY <1>3 DEF Loaded
<1>4. ASSUME NEW p \in Proxies, NEW layer \in Layers, Retarget(p, layer) PROVE ShapesInv'
  BY <1>3, <1>4 DEF Retarget, SetEditTarget, TargetChanged, nodeVars
<1>5. ASSUME NEW p \in Proxies, NEW says \in Texts, EditText(p, says) PROVE ShapesInv'
  BY <1>3, <1>5 DEF EditText, EditStage, nodeVars
<1>6. ASSUME NEW layer \in Layers, SaveLayer(layer) \/ ReloadLayer(layer)
      PROVE  ShapesInv'
  BY <1>3, <1>6 DEF SaveLayer, ReloadLayer, CleanLayer, nodeVars
<1>7. CASE SaveScene
  BY <1>3, <1>7 DEF SaveScene, SerializeAll, nodeVars
<1>8. CASE LoadPlugin
  BY <1>3, <1>8 DEF LoadPlugin, trackVars
<1>9. ASSUME NEW kept, ClearScene(kept), listening' = {}, unloaded' = << >>
      PROVE  ShapesInv'
  <2>1. session' = [p \in Proxies |-> NoLayer]
    BY <1>9 DEF ClearScene
  <2>2. session' = [q \in Proxies |-> session'[q]] /\ Loaded' = {}
    BY <2>1 DEF Loaded
  <2> QED BY <1>9, <2>2 DEF ClearScene
<1>10. ASSUME NEW kept, NewScene(kept) \/ OpenScene(kept) PROVE ShapesInv'
  BY <1>0, <1>9, <1>10 DEF NewScene, OpenScene, PreFileRead
<1>11. CASE Restart
  BY <1>9, <1>11 DEF Restart
<1>12. ASSUME UNCHANGED <<shapes, unloaded, session>>, listening' = {} \/ listening' = listening
       PROVE  ShapesInv'
  BY <1>12 DEF Loaded
<1>13. CASE ImportScene
  BY <1>12, <1>13 DEF ImportScene, PreFileRead, trackVars
<1>14. ASSUME NEW S, ReadReference(S) PROVE ShapesInv'
  BY <1>12, <1>14 DEF ReadReference, PreFileRead, trackVars
<1>15. ASSUME NEW p \in Proxies, ReadShape(p) PROVE ShapesInv'
  <2> DEFINE S == shapes \cup {p}
  <2>1. unloaded' \in Seq(S)
    <3>1. unloaded \in Seq(S) /\ p \in S
      OBVIOUS
    <3> HIDE DEF S
    <3>2. Append(unloaded, p) \in Seq(S) /\ unloaded \o <<p, p>> \in Seq(S)
      BY <3>1
    <3> QED BY <1>15, <3>2 DEF ReadShape
  <2>2. UNCHANGED session /\ shapes' = shapes \cup {p} /\ listening' = listening \cup {p}
    BY <1>15 DEF ReadShape
  <2> QED BY <2>1, <2>2 DEF Loaded
<1>16. ASSUME ReadManager \/ UnheardRead \/ Pulled PROVE ShapesInv'
  BY <1>3, <1>16 DEF ReadManager, UnheardRead, Pulled, trackVars
<1>17. CASE PostFileRead
  BY <1>12, <1>17 DEF PostFileRead
<1>18. CASE PullStage
  <2> DEFINE p == Head(unloaded)
  <2>1. p \in shapes /\ unloaded' = Tail(unloaded) /\ unloaded' \in Seq(shapes)
    BY <1>18 DEF PullStage
  <2>2. /\ LoadStage(p) \/ LoadFails(p)
        /\ listening' = listening \cup {p} /\ shapes' = shapes
    BY <1>18 DEF PullStage, LoadNewStage
  <2>3. session' = [q \in Proxies |-> session'[q]] /\ Loaded' \subseteq Loaded \cup {p}
    BY <2>1, <2>2, StageOf
  <2> QED BY <2>1, <2>2, <2>3
<1> QED
  BY <1>1, <1>2, <1>4, <1>5, <1>6, <1>7, <1>8, <1>10, <1>11, <1>13, <1>14, <1>15, <1>16,
     <1>17, <1>18
  DEF SceneNext, UserNext, ReadNext

-----------------------------------------------------------------------------
LEMMA TextStep ==
  ASSUME TextInv, SceneNext
  PROVE  TextInv'
<1> USE DEF TextInv
<1>1. ASSUME UNCHANGED text PROVE TextInv'
  BY <1>1
<1>2. ASSUME NEW p \in Proxies, NEW says \in Texts, EditText(p, says) PROVE TextInv'
  BY <1>2 DEF EditText
<1>3. ASSUME NEW layer \in Layers, ReloadLayer(layer) PROVE TextInv'
  BY <1>3 DEF ReloadLayer
<1>4. ASSUME NEW kept, ClearScene(kept) PROVE TextInv'
  BY <1>4 DEF ClearScene
<1>5. CASE PostFileRead
  BY <1>5 DEF PostFileRead, LoadAllLayers
<1>6. ASSUME NEW p \in Proxies,
             \/ CreateShape(p) \/ DeleteShape(p) \/ SetFilePath(p) \/ ComputeStage(p)
             \/ ReadShape(p)
             \/ \E layer \in Layers : Retarget(p, layer) \/ SaveLayer(layer)
      PROVE  UNCHANGED text
  BY <1>6 DEF CreateShape, DeleteShape, SetFilePath, ComputeStage, LoadStageOfShape,
              ReadShape, Retarget, SaveLayer
<1>7. ASSUME NEW layer \in Layers, SaveLayer(layer) PROVE UNCHANGED text
  BY <1>7 DEF SaveLayer
<1>8. ASSUME NEW S, \/ LoadPlugin \/ SaveScene \/ ImportScene \/ ReadReference(S) \/ ReadManager
                    \/ UnheardRead \/ PullStage \/ Pulled
      PROVE  UNCHANGED text
  BY <1>8 DEF LoadPlugin, SaveScene, ImportScene, ReadReference, ReadManager, UnheardRead,
              PullStage, Pulled
<1> QED
  BY <1>1, <1>2, <1>3, <1>4, <1>5, <1>6, <1>7, <1>8
  DEF SceneNext, UserNext, ReadNext, NewScene, OpenScene, Restart

-----------------------------------------------------------------------------
LEMMA SceneStart == SceneInit => SceneInv
<1> SUFFICES ASSUME SceneInit PROVE SceneInv
  OBVIOUS
<1>1. ReadsInv
  <2>1. IsSequence(reads) /\ Len(reads) = 0
    BY NoRead DEF SceneInit
  <2>2. /\ depth = 0 /\ ~pulling /\ ~plugin /\ unloaded = << >> /\ attrs = {}
        /\ plugin \in BOOLEAN /\ pulling \in BOOLEAN
    BY DEF SceneInit
  <2>3. depth \in Nat /\ depth <= Len(reads)
    BY <2>1, <2>2
  <2> QED BY <2>1, <2>2, <2>3, Zenon DEF ReadsInv
<1>2. ManagerInv
  BY DEF SceneInit, TrackInit, Init, ManagerInv
<1>3. ShapesInv
  BY DEF SceneInit, TrackInit, ShapesInv, Loaded
<1>4. TextInv
  BY DEF SceneInit, TextInv
<1> QED BY <1>1, <1>2, <1>3, <1>4 DEF SceneInv

LEMMA SceneStutter == SceneInv /\ UNCHANGED sceneVars => SceneInv'
<1> SUFFICES ASSUME SceneInv, UNCHANGED sceneVars PROVE SceneInv'
  OBVIOUS
<1>1. UNCHANGED <<layerToIds, session, text, shapes, listening, unloaded, depth, manager,
                  attrs, plugin, reads, pulling>>
  BY DEF sceneVars, trackVars, vars, dbVars
<1>2. ReadsInv' /\ ManagerInv'
  BY <1>1 DEF SceneInv, ReadsInv, ManagerInv, IsSequence
<1>3. ShapesInv' /\ TextInv'
  BY <1>1 DEF SceneInv, ShapesInv, TextInv, Loaded
<1> QED BY <1>2, <1>3 DEF SceneInv

\* What a read leaves to do and what the manager keeps, at any time, for any shapes,
\* layers, texts and depth of nesting.
THEOREM SceneInvariance == SceneSpec => []SceneInv
<1>1. SceneInv /\ [SceneNext]_sceneVars => SceneInv'
  BY SceneStutter, ReadsStep, ManagerStep, ShapesStep, TextStep DEF SceneInv
<1> QED BY SceneStart, <1>1, PTL DEF SceneSpec

\* However reads nest and whether or not each was announced, preFileRead and
\* postFileRead end with depth zero, each stage pulled and the attribute empty.
THEOREM ReadsComeToAnEnd == SceneSpec => []ReadsSettle
<1>1. SceneInv => ReadsSettle
  <2> SUFFICES ASSUME SceneInv, reads = << >>, ~pulling
               PROVE  depth = 0 /\ unloaded = << >> /\ attrs = {}
    BY DEF ReadsSettle
  <2>1. Len(reads) = 0
    BY NoRead
  <2> QED BY <2>1 DEF SceneInv, ReadsInv
<1> QED BY SceneInvariance, <1>1, PTL

\* loadAllLayers, at the end of a read, finds entries only if the manager keeps no
\* layer: the edits in the layers it keeps are never overwritten.
THEOREM KeptEditsSurvive == SceneSpec => EditsSurviveReads
<1>1. ASSUME SceneInv, PostFileRead, NEW layer \in Visible
      PROVE  text'[layer] = text[layer]
  <2>1. attrs = {}
    BY <1>1 DEF Visible, SceneInv, ManagerInv
  <2>2. CASE UNCHANGED text
    BY <2>2
  <2>3. CASE LoadAllLayers
    <3>1. PICK layerOf \in [attrs -> NewSessions \cup (Layers \ SessionLayers)] :
            text' = [l \in Layers |-> IF l \in Range(layerOf)
                      THEN (CHOOSE e \in attrs : layerOf[e] = l).says ELSE text[l]]
      BY <2>3 DEF LoadAllLayers
    <3>2. Range(layerOf) = {}
      BY <2>1 DEF Range
    <3>3. text' = [l \in Layers |-> text[l]]
      BY <3>1, <3>2
    <3> QED BY <1>1, <3>3 DEF SceneInv, TextInv
  <2> QED BY <1>1, <2>2, <2>3 DEF PostFileRead
<1>2. SceneInv /\ [SceneNext]_sceneVars
        => [PostFileRead => \A layer \in Visible : text'[layer] = text[layer]]_sceneVars
  BY <1>1
<1> QED BY SceneInvariance, <1>2, PTL DEF SceneSpec, EditsSurviveReads

-----------------------------------------------------------------------------
(***************************************************************************)
(* The database of scenes: a layer that was loaded has the identifier it   *)
(* was saved with as a key too, which is that of a session layer exactly   *)
(* for session layers.                                                     *)
(***************************************************************************)
SessionIds == {identifier[layer] : layer \in SessionLayers}

Kinds(toLayer) ==
  \A id \in DOMAIN toLayer : id \in SessionIds <=> toLayer[id] \in SessionLayers

Kinded(db) == IsDatabase(db) /\ Good(db, {}) /\ Kinds(db.toLayer)

LEMMA OwnKind ==
  ASSUME Identified, NEW layer \in Layers
  PROVE  identifier[layer] \in SessionIds <=> layer \in SessionLayers
BY SessionAssumption DEF Identified, SessionIds

\* What leads to a layer, after it is added or taken off.
LEMMA AddKinded ==
  ASSUME Identified, NEW db, Kinded(db), NEW layer \in Layers,
         NEW new, new = AddCanonical(db, layer)
  PROVE  /\ Kinded(new) /\ layer \in DOMAIN new.toIds
         /\ new.toLayer = KeysWith(db.toLayer, {identifier[layer]}, layer)
<1>1. identifier[layer] \in Ids /\ Good(db, {})
  BY DEF Identified, Kinded
<1>2. /\ Good(new, {}) /\ layer \in DOMAIN new.toIds
      /\ new.toLayer = KeysWith(db.toLayer, {identifier[layer]}, layer)
  BY <1>1, AddCanonicalGood
<1>3. IsDatabase(new)
  BY DEF AddCanonical, AddKey, Database, IsDatabase
<1>4. Kinds(new.toLayer)
  BY <1>2, OwnKind DEF Kinds, KeysWith, Kinded
<1> QED BY <1>2, <1>3, <1>4 DEF Kinded

LEMMA RemoveKinded ==
  ASSUME NEW db, Kinded(db), NEW layer, NEW new, new = Removed(db, layer)
  PROVE  /\ Kinded(new)
         /\ new.toLayer = [id \in {i \in DOMAIN db.toLayer : db.toLayer[i] # layer} |->
                            db.toLayer[id]]
<1>1. /\ Good(new, {})
      /\ new.toLayer = [id \in {i \in DOMAIN db.toLayer : db.toLayer[i] # layer} |->
                         db.toLayer[id]]
  BY RemovedGood DEF Kinded
<1>2. IsDatabase(new)
  BY DEF Removed, Database, IsDatabase, Kinded
<1>3. Kinds(new.toLayer)
  BY <1>1 DEF Kinds, Kinded
<1> QED BY <1>1, <1>2, <1>3 DEF Kinded

\* A layer that is dirty and found by its own identifier, or not dirty and not found by it.
OwnKey(toLayer, layer) ==
  /\ identifier[layer] \in DOMAIN toLayer => toLayer[identifier[layer]] = layer
  /\ layer \in dirty => identifier[layer] \in DOMAIN toLayer

LEMMA TrackKinded ==
  ASSUME Identified, NEW db, Kinded(db), NEW old, NEW layer \in Layers,
         NEW new, new = Tracked(db, old, layer)
  PROVE  /\ Kinded(new)
         /\ \A l \in Layers : OwnKey(db.toLayer, l) => OwnKey(new.toLayer, l)
<1>1. CASE old = layer
  BY <1>1 DEF Tracked
<1>2. CASE old # layer
  <2> DEFINE mid == IF old \in dirty THEN db ELSE Removed(db, old)
  <2>1. /\ Kinded(mid)
        /\ \A l \in Layers : OwnKey(db.toLayer, l) => OwnKey(mid.toLayer, l)
    <3>1. CASE old \in dirty
      BY <3>1
    <3>2. CASE old \notin dirty
      <4>1. mid = Removed(db, old)
        BY <3>2
      <4> HIDE DEF mid
      <4>2. /\ Kinded(mid)
            /\ mid.toLayer = [id \in {i \in DOMAIN db.toLayer : db.toLayer[i] # old} |->
                               db.toLayer[id]]
        BY <4>1, RemoveKinded
      <4> QED BY <3>2, <4>2 DEF OwnKey
    <3> QED BY <3>1, <3>2
  <2>2. new = AddCanonical(mid, layer)
    BY <1>2 DEF Tracked
  <2> HIDE DEF mid
  <2>3. /\ Kinded(new)
        /\ new.toLayer = KeysWith(mid.toLayer, {identifier[layer]}, layer)
    BY <2>1, <2>2, AddKinded
  <2>4. \A l \in Layers : OwnKey(mid.toLayer, l) => OwnKey(new.toLayer, l)
    BY <2>3 DEF OwnKey, KeysWith, Identified
  <2> QED BY <2>1, <2>3, <2>4
<1> QED BY <1>1, <1>2

KindedDatabases == {db \in Databases : Kinded(db)}

LEMMA InKinded ==
  ASSUME NEW db, Kinded(db)
  PROVE  db \in KindedDatabases
BY InDatabases DEF KindedDatabases, Kinded

LEMMA SerializedKinded ==
  ASSUME Identified, StagesTyped, NEW db, Kinded(db), NEW p \in Loaded,
         NEW new, new = Serialized(p, db)
  PROVE  /\ Kinded(new) /\ OwnKey(new.toLayer, session[p])
         /\ \A l \in Layers : OwnKey(db.toLayer, l) => OwnKey(new.toLayer, l)
<1> DEFINE mid == AddCanonical(db, session[p])
<1>1. session[p] \in Layers /\ target[p] \in Layers
  BY SessionAssumption DEF StagesTyped
<1>2. new = Tracked(mid, prev[p], target[p])
  BY DEF Serialized
<1>3. /\ Kinded(mid)
      /\ mid.toLayer = KeysWith(db.toLayer, {identifier[session[p]]}, session[p])
  <2> HIDE DEF mid
  <2> QED BY <1>1, AddKinded DEF mid
<1> HIDE DEF mid
<1>4. OwnKey(mid.toLayer, session[p])
  BY <1>3 DEF OwnKey, KeysWith
<1>5. \A l \in Layers : OwnKey(db.toLayer, l) => OwnKey(mid.toLayer, l)
  BY <1>1, <1>3 DEF OwnKey, KeysWith, Identified
<1>6. /\ Kinded(new)
      /\ \A l \in Layers : OwnKey(mid.toLayer, l) => OwnKey(new.toLayer, l)
  BY <1>1, <1>2, <1>3, TrackKinded
<1> QED BY <1>1, <1>4, <1>5, <1>6

\* Saving leaves each stage's session layer found by its own identifier, if it has
\* edits, and by no means another.
LEMMA SerializeAllKinded ==
  ASSUME Identified, StagesTyped, Kinded(Current),
         NEW new, new = FoldSet(Serialized, Current, Loaded)
  PROVE  Kinded(new) /\ \A p \in Loaded : OwnKey(new.toLayer, session[p])
<1> DEFINE Written(db, d) == Kinded(db) /\ \A p \in d : OwnKey(db.toLayer, session[p])
           Fine == [d \in SUBSET Loaded |-> {db \in KindedDatabases : Written(db, d)}]
<1>1. Current \in KindedDatabases
  BY InKinded
<1>2. ASSUME NEW db \in KindedDatabases, NEW p \in Loaded
      PROVE  Serialized(p, db) \in KindedDatabases
  BY SerializedKinded, InKinded DEF KindedDatabases
<1>3. PICK it : SerializeSteps(it)
  BY <1>1, <1>2, SerializeChain
<1>4. \A d \in SUBSET Loaded : \A db : db \in Fine[d] <=> db \in KindedDatabases /\ Written(db, d)
  OBVIOUS
<1>5. Current \in Fine[{}]
  BY <1>1, <1>4
<1>6. ASSUME NEW d \in SUBSET Loaded, d # {}, it[d \ {OneOf(d)}] \in Fine[d \ {OneOf(d)}]
      PROVE  it[d] \in Fine[d]
  <2> DEFINE p == OneOf(d)
             db == it[d \ {p}]
  <2>1. p \in d /\ p \in Loaded /\ d \ {p} \in SUBSET Loaded
    BY <1>6 DEF OneOf
  <2>2. it[d] = Serialized(p, db)
    BY <1>3, <1>6 DEF SerializeSteps
  <2>3. Written(db, d \ {p})
    BY <1>4, <1>6, <2>1
  <2>4. \A q \in d : session[q] \in Layers
    BY SessionAssumption DEF StagesTyped
  <2> HIDE DEF p, db, Fine
  <2>5. /\ Kinded(it[d]) /\ OwnKey(it[d].toLayer, session[p])
        /\ \A l \in Layers : OwnKey(db.toLayer, l) => OwnKey(it[d].toLayer, l)
    BY <2>1, <2>2, <2>3, SerializedKinded
  <2>6. Written(it[d], d)
    BY <2>3, <2>4, <2>5
  <2> QED BY <1>4, <2>5, <2>6, InKinded
<1> HIDE DEF Fine
<1>7. new \in Fine[Loaded]
  BY <1>3, <1>5, <1>6, SerializeKeeps
<1> QED BY <1>4, <1>7

-----------------------------------------------------------------------------
(***************************************************************************)
(* What the actions of LayerTracking do to it.                             *)
(***************************************************************************)
LEMMA BecomeKinded ==
  ASSUME NEW db, Kinded(db), Become(db), UNCHANGED identifier
  PROVE  Kinded(Current)' /\ Current' = db
<1>1. Current' = db
  BY DEF Become, Current, Database, Kinded, IsDatabase
<1>2. Kinded(db)'
  BY DEF Kinded, Good, Kinds, SessionIds, IsDatabase
<1> QED BY <1>1, <1>2 DEF Kinded, Kinds, SessionIds, IsDatabase, Good

LEMMA SameKinded ==
  ASSUME Kinded(Current), UNCHANGED <<layerToIds, idToLayer, identifier>>
  PROVE  Kinded(Current)'
<1>1. Become(Current)
  BY DEF Become, Current, Database
<1> QED BY <1>1, BecomeKinded

LEMMA OldStageKinded ==
  ASSUME Identified, StagesTyped, Kinded(Current), NEW p
  PROVE  Kinded(AfterOldStage(p))
<1>1. CASE p \in Loaded
  <2>1. target[p] \in Layers
    BY <1>1 DEF StagesTyped
  <2>2. Kinded(Tracked(Current, prev[p], target[p]))
    BY <2>1, TrackKinded
  <2> QED BY <1>1, <2>2 DEF AfterOldStage
<1> QED BY <1>1 DEF AfterOldStage

-----------------------------------------------------------------------------
(***************************************************************************)
(* The types of scenes.  Names and entries are those of session layers     *)
(* where they should be; what is to be read is what the file has.          *)
(***************************************************************************)
StagesInv ==
  /\ Identified /\ Kinded(Current)
  /\ added \in BOOLEAN /\ dirty \subseteq Layers
  /\ StagesTyped
  /\ prev \in [Proxies -> Layers \cup {NoLayer}]

SavedNames == [Proxies -> SessionIds \cup {NoId}]

LEMMA SavedSessionKind ==
  ASSUME StagesInv, sessionName \in SavedNames, NEW p \in Proxies
  PROVE  SavedSession(p) \subseteq SessionLayers
<1>1. sessionName[p] # NoId => sessionName[p] \in SessionIds
  BY DEF SavedNames
<1>2. \A id \in DOMAIN idToLayer : id \in SessionIds => idToLayer[id] \in SessionLayers
  BY DEF StagesInv, Kinded, Kinds, Current, Database
<1> QED BY <1>1, <1>2 DEF SavedSession, Found

\* Another layer of the stage and its tracking.
LEMMA OneStageTyped ==
  ASSUME StagesTyped, NEW p \in Proxies, NEW s, NEW t,
         \/ s \in SessionLayers /\ t \in Layers
         \/ s = NoLayer /\ t = NoLayer,
         session' = [session EXCEPT ![p] = s], target' = [target EXCEPT ![p] = t]
  PROVE  StagesTyped'
BY SessionAssumption, NoAssumption DEF StagesTyped, Loaded

LEMMA OnePrevTyped ==
  ASSUME prev \in [Proxies -> Layers \cup {NoLayer}], NEW p \in Proxies,
         NEW layer \in Layers \cup {NoLayer}, prev' = [prev EXCEPT ![p] = layer]
  PROVE  prev' \in [Proxies -> Layers \cup {NoLayer}]
OBVIOUS

LEMMA LastTrackedTyped ==
  ASSUME StagesInv, NEW p \in Proxies
  PROVE  LastTracked(p) \in Layers \cup {NoLayer}
BY DEF StagesInv, StagesTyped, LastTracked

LEMMA StagesStep ==
  ASSUME StagesInv, Kinded(Current)', StagesTyped', prev' \in [Proxies -> Layers \cup {NoLayer}],
         UNCHANGED <<identifier, added>>, dirty' \subseteq Layers
  PROVE  StagesInv'
BY DEF StagesInv, Identified

LEMMA LoadStageKinded ==
  ASSUME StagesInv, sessionName \in SavedNames, NEW p \in Proxies, LoadStage(p)
  PROVE  StagesInv' /\ UNCHANGED sessionName
<1>0. Identified /\ StagesTyped /\ Kinded(Current)
  BY DEF StagesInv
<1>1. PICK layer \in (IF SavedSession(p) # {} THEN SavedSession(p) ELSE Fresh) :
        /\ session' = [session EXCEPT ![p] = layer]
        /\ target' = [target EXCEPT ![p] = layer]
        /\ \/ /\ Become(Tracked(AfterOldStage(p), LastTracked(p), layer))
              /\ prev' = [prev EXCEPT ![p] = layer]
           \/ /\ Become(AfterOldStage(p))
              /\ prev' = [prev EXCEPT ![p] = LastTracked(p)]
  BY DEF LoadStage
<1>2. layer \in SessionLayers /\ layer \in Layers
  BY SavedSessionKind, SessionAssumption DEF Fresh
<1>3. UNCHANGED <<added, identifier, dirty, sessionName>>
  BY DEF LoadStage
<1>4. Kinded(AfterOldStage(p))
  BY <1>0, OldStageKinded
<1>5. Kinded(Current)'
  <2>1. CASE Become(AfterOldStage(p))
    BY <1>3, <1>4, <2>1, BecomeKinded
  <2>2. CASE Become(Tracked(AfterOldStage(p), LastTracked(p), layer))
    <3>1. Kinded(Tracked(AfterOldStage(p), LastTracked(p), layer))
      BY <1>0, <1>2, <1>4, TrackKinded
    <3> QED BY <1>3, <2>2, <3>1, BecomeKinded
  <2> QED BY <1>1, <2>1, <2>2
<1>6. StagesTyped'
  BY <1>0, <1>1, <1>2, OneStageTyped
<1>7. prev' \in [Proxies -> Layers \cup {NoLayer}]
  BY <1>1, <1>2, LastTrackedTyped, OnePrevTyped DEF StagesInv
<1>8. dirty' \subseteq Layers
  BY <1>3 DEF StagesInv
<1> QED BY <1>3, <1>5, <1>6, <1>7, <1>8, StagesStep

LEMMA LoadFailsKinded ==
  ASSUME StagesInv, NEW p \in Proxies, LoadFails(p)
  PROVE  StagesInv' /\ UNCHANGED sessionName
<1>0. Identified /\ StagesTyped /\ Kinded(Current)
  BY DEF StagesInv
<1>1. UNCHANGED <<added, identifier, dirty, sessionName>>
  BY DEF LoadFails
<1>2. Kinded(AfterOldStage(p)) /\ Become(AfterOldStage(p))
  BY <1>0, OldStageKinded DEF LoadFails
<1>3. Kinded(Current)'
  BY <1>1, <1>2, BecomeKinded
<1>4. StagesTyped'
  BY <1>0, OneStageTyped DEF LoadFails
<1>5. prev' \in [Proxies -> Layers \cup {NoLayer}]
  BY LastTrackedTyped, OnePrevTyped DEF StagesInv, LoadFails
<1>6. dirty' \subseteq Layers
  BY <1>1 DEF StagesInv
<1> QED BY <1>1, <1>3, <1>4, <1>5, <1>6, StagesStep

LEMMA SetEditTargetKinded ==
  ASSUME StagesInv, NEW p \in Proxies, NEW layer \in Layers, SetEditTarget(p, layer)
  PROVE  StagesInv' /\ UNCHANGED sessionName
<1>1. /\ p \in Loaded
      /\ Become(Tracked(Current, prev[p], layer))
      /\ target' = [target EXCEPT ![p] = layer]
      /\ prev' = [prev EXCEPT ![p] = layer]
      /\ UNCHANGED <<added, identifier, dirty, session, sessionName>>
  BY DEF SetEditTarget, TargetChanged
<1>2. Kinded(Tracked(Current, prev[p], layer))
  BY TrackKinded DEF StagesInv
<1>3. Kinded(Current)'
  BY <1>1, <1>2, BecomeKinded
<1>4. StagesTyped'
  BY <1>1 DEF StagesInv, StagesTyped, Loaded
<1>5. prev' \in [Proxies -> Layers \cup {NoLayer}] /\ dirty' \subseteq Layers
  BY <1>1 DEF StagesInv
<1> QED BY <1>1, <1>3, <1>4, <1>5, StagesStep

LEMMA DestroyProxyKinded ==
  ASSUME StagesInv, NEW p \in Proxies, DestroyProxy(p), sessionName \in SavedNames
  PROVE  StagesInv' /\ sessionName' \in [Proxies -> SessionIds \cup {NoId}]
<1>1. UNCHANGED <<layerToIds, idToLayer, added, identifier, dirty>>
  BY DEF DestroyProxy, vars, dbVars
<1>2. Kinded(Current)'
  BY <1>1, SameKinded DEF StagesInv
<1>3. StagesTyped'
  BY OneStageTyped DEF StagesInv, DestroyProxy
<1>4. prev' \in [Proxies -> Layers \cup {NoLayer}] /\ dirty' \subseteq Layers
  BY <1>1 DEF StagesInv, DestroyProxy
<1>5. sessionName' \in [Proxies -> SessionIds \cup {NoId}]
  BY DEF DestroyProxy, SavedNames
<1> QED BY <1>1, <1>2, <1>3, <1>4, <1>5, StagesStep

LEMMA SerializeAllTyped ==
  ASSUME StagesInv, SerializeAll, sessionName \in SavedNames
  PROVE  /\ StagesInv' /\ sessionName' \in [Proxies -> SessionIds \cup {NoId}]
         /\ \A p \in Loaded : OwnKey(idToLayer', session[p])
<1> DEFINE new == FoldSet(Serialized, Current, Loaded)
<1>1. /\ Become(new)
      /\ prev' = [p \in Proxies |-> LastTracked(p)]
      /\ sessionName' = [p \in Proxies |->
            IF p \in Loaded THEN identifier[session[p]] ELSE sessionName[p]]
      /\ UNCHANGED <<added, identifier, dirty, session, target>>
  BY DEF SerializeAll
<1>2. Kinded(new) /\ \A p \in Loaded : OwnKey(new.toLayer, session[p])
  <2> HIDE DEF new
  <2> QED BY SerializeAllKinded DEF new, StagesInv
<1> HIDE DEF new
<1>3. Kinded(Current)'
  BY <1>1, <1>2, BecomeKinded
<1>4. StagesTyped' /\ dirty' \subseteq Layers
  BY <1>1 DEF StagesInv, StagesTyped, Loaded
<1>5. prev' \in [Proxies -> Layers \cup {NoLayer}]
  BY <1>1, LastTrackedTyped
<1>6. \A p \in Loaded : identifier[session[p]] \in SessionIds
  BY DEF StagesInv, StagesTyped, SessionIds
<1>7. sessionName' \in [Proxies -> SessionIds \cup {NoId}]
  BY <1>1, <1>6 DEF SavedNames
<1>8. \A p \in Loaded : OwnKey(idToLayer', session[p])
  BY <1>1, <1>2 DEF Become
<1> QED BY <1>1, <1>3, <1>4, <1>5, <1>7, <1>8, StagesStep

-----------------------------------------------------------------------------
(***************************************************************************)
(* What loadAllLayers makes of an empty database: the identifier each      *)
(* entry was saved with leads to the layer of the entry, as does the one   *)
(* that this layer has now.                                                *)
(***************************************************************************)
LoadedFrom(layerOf, D) == FoldSet(LAMBDA e, db : AddedAs(db, layerOf[e], e.id), Current, D)

LoadSteps(it, layerOf, D) ==
  /\ it[{}] = Current
  /\ it[D] = LoadedFrom(layerOf, D)
  /\ \A d \in SUBSET D : d # {} =>
       it[d] = AddedAs(it[d \ {OneOf(d)}], layerOf[OneOf(d)], OneOf(d).id)

LEMMA LoadChain ==
  ASSUME NEW D, IsFiniteSet(D), NEW layerOf,
         NEW ST, Current \in ST, \A db \in ST, e \in D : AddedAs(db, layerOf[e], e.id) \in ST
  PROVE  \E it : LoadSteps(it, layerOf, D)
<1> DEFINE c == [d \in SUBSET D |-> OneOf(d)]
           G == [a \in ST |-> [e \in D |-> AddedAs(a, layerOf[e], e.id)]]
           Body(it, d) == IF d = {} THEN Current
                          ELSE AddedAs(it[d \ {OneOf(d)}], layerOf[OneOf(d)], OneOf(d).id)
           iter == CHOOSE it : it = [d \in SUBSET D |-> Body(it, d)]
<1>1. LoadedFrom(layerOf, D) = iter[D]
  BY Zenon DEF LoadedFrom, FoldSet, MapThenFoldSet, OneOf
<1>2. Chooses(c, D) /\ (\A d \in SUBSET D : c[d] = OneOf(d))
  BY DEF Chooses, OneOf
<1>3. G \in [ST -> [D -> ST]] /\ \A a \in ST, e \in D : G[a][e] = AddedAs(a, layerOf[e], e.id)
  OBVIOUS
<1> HIDE DEF c, G
<1>4. PICK h \in [SUBSET D -> ST] : IsFold(h, D, c, Current, G)
  BY <1>2, <1>3, FoldExists
<1>5. ASSUME NEW d \in SUBSET D PROVE h[d] = Body(h, d)
  <2>1. h[d] = IF d = {} THEN Current ELSE G[h[d \ {c[d]}]][c[d]]
    BY <1>4 DEF IsFold
  <2>2. CASE d # {}
    <3>1. c[d] = OneOf(d) /\ OneOf(d) \in D /\ d \ {OneOf(d)} \in SUBSET D
      BY <1>2, <2>2 DEF Chooses
    <3> QED BY <1>3, <2>1, <2>2, <3>1
  <2> QED BY <2>1, <2>2
<1>6. h = [d \in SUBSET D |-> Body(h, d)]
  BY <1>5
<1>7. iter = [d \in SUBSET D |-> Body(iter, d)]
  BY <1>6
<1> HIDE DEF iter
<1>8. \A d \in SUBSET D : iter[d] = Body(iter, d)
  BY <1>7
<1>9. /\ iter[D] = LoadedFrom(layerOf, D)
      /\ iter[{}] = Current
  BY <1>1, <1>8
<1>10. \A d \in SUBSET D : d # {} =>
         iter[d] = AddedAs(iter[d \ {OneOf(d)}], layerOf[OneOf(d)], OneOf(d).id)
  BY <1>8
<1> QED BY <1>9, <1>10 DEF LoadSteps

LEMMA LoadKeeps ==
  ASSUME NEW D, IsFiniteSet(D), NEW layerOf, NEW it, LoadSteps(it, layerOf, D),
         NEW Fine, Current \in Fine[{}],
         \A d \in SUBSET D : d # {} /\ it[d \ {OneOf(d)}] \in Fine[d \ {OneOf(d)}]
                               => it[d] \in Fine[d]
  PROVE  LoadedFrom(layerOf, D) \in Fine[D]
<1> DEFINE c == [d \in SUBSET D |-> OneOf(d)]
<1>1. Chooses(c, D) /\ \A d \in SUBSET D : c[d] = OneOf(d)
  BY DEF Chooses, OneOf
<1>2. it[{}] \in Fine[{}]
  BY DEF LoadSteps
<1>3. \A d \in SUBSET D : d # {} /\ it[d \ {c[d]}] \in Fine[d \ {c[d]}] => it[d] \in Fine[d]
  BY <1>1
<1> HIDE DEF c
<1>4. it[D] \in Fine[D]
  BY <1>1, <1>2, <1>3, FoldKeeps
<1> QED BY <1>4 DEF LoadSteps

TextEntry(e) ==
  /\ e.id \in Ids /\ e.says \in Texts /\ e.anonymous \in BOOLEAN
  /\ e.anonymous <=> e.id \in SessionIds

\* The entries of a file: of different layers.
Entries(S) ==
  /\ IsFiniteSet(S)
  /\ \A e \in S : TextEntry(e)
  /\ \A e, f \in S : e.id = f.id => e = f

\* The layers that the entries get, each its own.
Placed(layerOf, S) ==
  /\ DOMAIN layerOf = S
  /\ \A e \in S : /\ layerOf[e] \in Layers
                  /\ layerOf[e] \in SessionLayers <=> e.anonymous
  /\ \A e, f \in S : layerOf[e] = layerOf[f] => e = f
  /\ \A e, f \in S : e.id = identifier[layerOf[f]] => e = f

LedTo(toLayer, layerOf, S) ==
  /\ DOMAIN toLayer = {e.id : e \in S} \cup {identifier[layerOf[e]] : e \in S}
  /\ \A e \in S : toLayer[e.id] = layerOf[e] /\ toLayer[identifier[layerOf[e]]] = layerOf[e]

LEMMA AddedAsGood ==
  ASSUME Identified, NEW db, IsDatabase(db), Good(db, {}), NEW layer \in Layers, NEW id \in Ids,
         NEW new, new = AddedAs(db, layer, id)
  PROVE  /\ IsDatabase(new) /\ Good(new, {})
         /\ new.toLayer = KeysWith(db.toLayer, {id, identifier[layer]}, layer)
<1> DEFINE known == AddCanonical(db, layer)
<1>1. new = IF id = identifier[layer] THEN known ELSE AddKey(known, layer, id)
  BY DEF AddedAs
<1>2. identifier[layer] \in Ids
  BY DEF Identified
<1>3. /\ Good(known, {}) /\ layer \in DOMAIN known.toIds
      /\ known.toLayer = KeysWith(db.toLayer, {identifier[layer]}, layer)
  <2> HIDE DEF known
  <2> QED BY <1>2, AddCanonicalGood DEF known
<1>4. IsDatabase(known)
  BY DEF AddCanonical, AddKey, Database, IsDatabase
<1> HIDE DEF known
<1>5. CASE id = identifier[layer]
  BY <1>1, <1>3, <1>4, <1>5
<1>6. CASE id # identifier[layer]
  <2>1. Good(known, {layer}) /\ new = AddKey(known, layer, id)
    BY <1>1, <1>3, <1>6 DEF Good, AllNamed
  <2>2. Good(new, {}) /\ new.toLayer = KeysWith(known.toLayer, {id}, layer)
    BY <1>3, <2>1, AddKeyGood
  <2>3. new.toLayer = KeysWith(db.toLayer, {id, identifier[layer]}, layer)
    BY <1>3, <2>2 DEF KeysWith
  <2>4. IsDatabase(new)
    BY <1>4, <2>1 DEF AddKey, Database, IsDatabase
  <2> QED BY <2>2, <2>3, <2>4
<1> QED BY <1>5, <1>6

\* One entry more.
LEMMA LedToMore ==
  ASSUME Identified, NEW layerOf, NEW S, Placed(layerOf, S), Entries(S),
         NEW T \in SUBSET S, NEW e \in S, e \notin T,
         NEW f, LedTo(f, layerOf, T)
  PROVE  LedTo(KeysWith(f, {e.id, identifier[layerOf[e]]}, layerOf[e]), layerOf, T \cup {e})
<1> DEFINE new == KeysWith(f, {e.id, identifier[layerOf[e]]}, layerOf[e])
<1>1. DOMAIN new = {g.id : g \in T \cup {e}} \cup {identifier[layerOf[g]] : g \in T \cup {e}}
  BY DEF KeysWith, LedTo
<1>2. new[e.id] = layerOf[e] /\ new[identifier[layerOf[e]]] = layerOf[e]
  BY DEF KeysWith
<1>3. ASSUME NEW g \in T
      PROVE  new[g.id] = layerOf[g] /\ new[identifier[layerOf[g]]] = layerOf[g]
  <2>1. g # e /\ g.id # e.id /\ g.id # identifier[layerOf[e]] /\ e.id # identifier[layerOf[g]]
    BY <1>3 DEF Placed, Entries
  <2>2. identifier[layerOf[g]] # identifier[layerOf[e]]
    BY <1>3, <2>1 DEF Placed, Identified
  <2>3. /\ f[g.id] = layerOf[g] /\ f[identifier[layerOf[g]]] = layerOf[g]
        /\ g.id \in DOMAIN f /\ identifier[layerOf[g]] \in DOMAIN f
    BY <1>3 DEF LedTo
  <2> QED BY <2>1, <2>2, <2>3 DEF KeysWith
<1> HIDE DEF new
<1>4. LedTo(new, layerOf, T \cup {e})
  BY <1>1, <1>2, <1>3 DEF LedTo
<1> QED BY <1>4 DEF new

LEMMA LoadedLayers ==
  ASSUME Identified, IsDatabase(Current), Good(Current, {}), DOMAIN idToLayer = {},
         NEW S, Entries(S), NEW layerOf, Placed(layerOf, S),
         NEW new, new = LoadedFrom(layerOf, S)
  PROVE  IsDatabase(new) /\ Good(new, {}) /\ LedTo(new.toLayer, layerOf, S)
<1> DEFINE Fine == [d \in SUBSET S |-> {db \in Databases : LedTo(db.toLayer, layerOf, d)}]
<1>1. \A db \in Databases : IsDatabase(db) /\ Good(db, {})
  <2> TAKE db \in Databases
  <2>1. DOMAIN db = {"toIds", "toLayer"} /\ db = [toIds |-> db.toIds, toLayer |-> db.toLayer]
    BY DEF Databases
  <2>2. Good(db, {})
    BY DEF Databases
  <2> QED BY <2>1, <2>2 DEF IsDatabase, Database
<1>2. Current \in Databases
  BY InDatabases
<1>3. \A e \in S : layerOf[e] \in Layers /\ e.id \in Ids
  BY DEF Placed, Entries, TextEntry
<1>4. ASSUME NEW db \in Databases, NEW e \in S
      PROVE  AddedAs(db, layerOf[e], e.id) \in Databases
  <2>1. IsDatabase(AddedAs(db, layerOf[e], e.id)) /\ Good(AddedAs(db, layerOf[e], e.id), {})
    BY <1>1, <1>3, <1>4, AddedAsGood
  <2> QED BY <2>1, InDatabases
<1>5. IsFiniteSet(S)
  BY DEF Entries
<1>6. PICK it : LoadSteps(it, layerOf, S)
  BY <1>2, <1>4, <1>5, LoadChain
<1>7. \A d \in SUBSET S : \A db : db \in Fine[d] <=> db \in Databases /\ LedTo(db.toLayer, layerOf, d)
  OBVIOUS
<1>8. Current \in Fine[{}]
  <2>1. Current.toLayer = idToLayer
    BY DEF Current, Database
  <2>2. LedTo(Current.toLayer, layerOf, {})
    BY <2>1 DEF LedTo
  <2> QED BY <1>2, <1>7, <2>2
<1>9. ASSUME NEW d \in SUBSET S, d # {}, it[d \ {OneOf(d)}] \in Fine[d \ {OneOf(d)}]
      PROVE  it[d] \in Fine[d]
  <2> DEFINE e == OneOf(d)
             T == d \ {e}
             db == it[T]
  <2>1. e \in d /\ e \in S /\ e \notin T /\ T \in SUBSET S /\ d = T \cup {e}
    BY <1>9 DEF OneOf
  <2>2. it[d] = AddedAs(db, layerOf[e], e.id)
    BY <1>6, <1>9 DEF LoadSteps
  <2>3. db \in Databases /\ LedTo(db.toLayer, layerOf, T)
    BY <1>7, <1>9, <2>1
  <2> HIDE DEF e, T, db, Fine
  <2>6. IsDatabase(db) /\ Good(db, {}) /\ layerOf[e] \in Layers /\ e.id \in Ids
    BY <1>1, <1>3, <2>1, <2>3
  <2>4. /\ IsDatabase(it[d]) /\ Good(it[d], {})
        /\ it[d].toLayer = KeysWith(db.toLayer, {e.id, identifier[layerOf[e]]}, layerOf[e])
    BY <2>2, <2>6, AddedAsGood
  <2>5. LedTo(it[d].toLayer, layerOf, d)
    <3>1. LedTo(KeysWith(db.toLayer, {e.id, identifier[layerOf[e]]}, layerOf[e]), layerOf, T \cup {e})
      BY <2>1, <2>3, LedToMore
    <3> QED BY <2>1, <2>4, <3>1
  <2> QED BY <1>7, <2>4, <2>5, InDatabases
<1> HIDE DEF Fine
<1>10. new \in Fine[S]
  BY <1>5, <1>6, <1>8, <1>9, LoadKeeps
<1> QED BY <1>1, <1>7, <1>10

LEMMA LedToKinds ==
  ASSUME Identified, NEW S, Entries(S), NEW layerOf, Placed(layerOf, S),
         NEW f, LedTo(f, layerOf, S)
  PROVE  Kinds(f)
<1>1. ASSUME NEW e \in S
      PROVE  /\ e.id \in SessionIds <=> f[e.id] \in SessionLayers
             /\ identifier[layerOf[e]] \in SessionIds <=> f[identifier[layerOf[e]]] \in SessionLayers
  <2>1. /\ e.anonymous <=> e.id \in SessionIds
        /\ layerOf[e] \in Layers /\ (layerOf[e] \in SessionLayers <=> e.anonymous)
    BY DEF Entries, TextEntry, Placed
  <2>2. f[e.id] = layerOf[e] /\ f[identifier[layerOf[e]]] = layerOf[e]
    BY DEF LedTo
  <2> QED BY <2>1, <2>2, OwnKind
<1>2. ASSUME NEW id \in DOMAIN f
      PROVE  \E e \in S : id = e.id \/ id = identifier[layerOf[e]]
  BY DEF LedTo
<1> QED BY <1>1, <1>2 DEF Kinds

\* Nothing to load.
LEMMA NothingLoaded ==
  ASSUME NEW layerOf
  PROVE  LoadedFrom(layerOf, {}) = Current
<1>1. IsFiniteSet({})
  BY FS_EmptySet
<1>2. PICK it : LoadSteps(it, layerOf, {})
  <2>1. Current \in {Current} /\ \A db \in {Current}, e \in {} : AddedAs(db, layerOf[e], e.id) \in {Current}
    OBVIOUS
  <2> QED BY <1>1, <2>1, LoadChain
<1> QED BY <1>2 DEF LoadSteps

NamesKept == sessionName \in SavedNames /\ file.names \in SavedNames

TextsTyped == text \in [Layers -> Texts] /\ disk \in [Layers -> Texts]

\* What was saved for a shape is what its name leads to in the file.
FileInv ==
  /\ Entries(file.entries)
  /\ \A p \in file.live :
       file.found[p] = {e.says : e \in {f \in file.entries : f.id = file.names[p]}}
  /\ file.shapes \subseteq Proxies \ Referenced

ReadRecord ==
  [kind : {"open", "import", "reference"}, shapes : SUBSET Proxies, names : SavedNames,
   entries : {{}, file.entries}, begun : BOOLEAN, early : BOOLEAN]

\* What is to be read is of the file.
EntriesInv == attrs \in {{}, file.entries} /\ reads \in Seq(ReadRecord)

\* What loadAllLayers does with the entries of the attribute.
LoadsEntries(layerOf) ==
  /\ Placed(layerOf, attrs)
  /\ \A e \in attrs : IF e.anonymous THEN identifier[layerOf[e]] \notin Range(file.names)
                      ELSE identifier[layerOf[e]] = e.id
  /\ \E new : /\ Kinded(new) /\ Become(new)
              /\ DOMAIN idToLayer = {} => LedTo(new.toLayer, layerOf, attrs)
  /\ text' \in [Layers -> Texts] /\ \A e \in attrs : text'[layerOf[e]] = e.says
  /\ dirty' = dirty \cup {layerOf[e] : e \in attrs}

LEMMA LoadAllEffect ==
  ASSUME StagesInv, ManagerInv, TextsTyped, FileInv, attrs \in {{}, file.entries}, LoadAllLayers
  PROVE  \E layerOf : LoadsEntries(layerOf)
<1>1. PICK layerOf \in [attrs -> NewSessions \cup (Layers \ SessionLayers)] :
        /\ \A e, f \in attrs : layerOf[e] = layerOf[f] => e = f
        /\ \A e \in attrs : IF e.anonymous THEN Anonymous(layerOf[e])
                            ELSE identifier[layerOf[e]] = e.id
        /\ Become(LoadedFrom(layerOf, attrs))
        /\ text' = [layer \in Layers |->
                      IF layer \in Range(layerOf)
                      THEN (CHOOSE e \in attrs : layerOf[e] = layer).says ELSE text[layer]]
        /\ dirty' = dirty \cup Range(layerOf)
  BY Zenon DEF LoadAllLayers, LoadedFrom
<1>2. Identified /\ Kinded(Current)
  BY DEF StagesInv
<1>3. Entries(attrs) /\ attrs \subseteq file.entries
  <2>1. Entries({})
    BY FS_EmptySet DEF Entries
  <2> QED BY <2>1 DEF FileInv
<1>4. ASSUME NEW layer \in NewSessions
      PROVE  /\ layer \in SessionLayers /\ layer \in Layers
             /\ identifier[layer] \notin Range(file.names)
             /\ \A e \in file.entries : identifier[layer] # e.id
  BY SessionAssumption DEF NewSessions, Fresh
<1>5. ASSUME NEW e \in attrs
      PROVE  /\ layerOf[e] \in Layers
             /\ layerOf[e] \in SessionLayers <=> e.anonymous
             /\ IF e.anonymous
                THEN /\ identifier[layerOf[e]] \notin Range(file.names)
                     /\ \A f \in attrs : identifier[layerOf[e]] # f.id
                ELSE identifier[layerOf[e]] = e.id
  <2>1. layerOf[e] \in NewSessions \cup (Layers \ SessionLayers)
    BY <1>1
  <2>2. layerOf[e] \in Layers
    BY <1>4, <2>1
  <2>3. CASE e.anonymous
    <3>1. layerOf[e] \in SessionLayers
      BY <1>1, <2>3 DEF Anonymous
    <3> QED BY <1>3, <1>4, <2>1, <2>2, <2>3, <3>1
  <2>4. CASE ~e.anonymous
    <3>1. identifier[layerOf[e]] = e.id /\ e.id \notin SessionIds
      BY <1>1, <1>3, <2>4 DEF Entries, TextEntry
    <3>2. layerOf[e] \notin SessionLayers
      BY <3>1 DEF SessionIds
    <3> QED BY <2>2, <2>4, <3>1, <3>2
  <2> QED BY <2>3, <2>4
<1>6. Placed(layerOf, attrs)
  <2>1. ASSUME NEW e \in attrs, NEW f \in attrs, e.id = identifier[layerOf[f]] PROVE e = f
    <3>1. ~f.anonymous
      BY <1>5, <2>1
    <3>2. identifier[layerOf[f]] = f.id
      BY <1>5, <3>1
    <3> QED BY <1>3, <2>1, <3>2 DEF Entries
  <2> QED BY <1>1, <1>5, <2>1 DEF Placed
<1>7. /\ Kinded(LoadedFrom(layerOf, attrs))
      /\ DOMAIN idToLayer = {} => LedTo(LoadedFrom(layerOf, attrs).toLayer, layerOf, attrs)
  <2>1. CASE DOMAIN idToLayer # {}
    <3>1. attrs = {}
      BY <1>2, <2>1 DEF ManagerInv, Kinded, Good, Keyed, Current, Database
    <3> QED BY <1>2, <2>1, <3>1, NothingLoaded
  <2>2. CASE DOMAIN idToLayer = {}
    <3>1. IsDatabase(Current) /\ Good(Current, {})
      BY <1>2 DEF Kinded
    <3>2. /\ IsDatabase(LoadedFrom(layerOf, attrs)) /\ Good(LoadedFrom(layerOf, attrs), {})
          /\ LedTo(LoadedFrom(layerOf, attrs).toLayer, layerOf, attrs)
      BY <1>2, <1>3, <1>6, <2>2, <3>1, LoadedLayers
    <3>3. Kinds(LoadedFrom(layerOf, attrs).toLayer)
      BY <1>2, <1>3, <1>6, <3>2, LedToKinds
    <3> QED BY <3>2, <3>3 DEF Kinded
  <2> QED BY <2>1, <2>2
<1>8. Range(layerOf) = {layerOf[e] : e \in attrs}
  BY <1>1 DEF Range
<1>9. ASSUME NEW e \in attrs PROVE (CHOOSE f \in attrs : layerOf[f] = layerOf[e]) = e
  BY <1>1
<1>10. \A e \in attrs : e.says \in Texts
  BY <1>3 DEF Entries, TextEntry
<1>11. /\ \A layer \in Layers : layer \in Range(layerOf) =>
            (CHOOSE e \in attrs : layerOf[e] = layer).says \in Texts
  BY <1>8, <1>9, <1>10
<1>12. text' \in [Layers -> Texts]
  BY <1>1, <1>11 DEF TextsTyped
<1>13. ASSUME NEW e \in attrs PROVE text'[layerOf[e]] = e.says
  BY <1>1, <1>5, <1>8, <1>9
<1> QED BY <1>1, <1>5, <1>6, <1>7, <1>8, <1>12, <1>13 DEF LoadsEntries

-----------------------------------------------------------------------------
(***************************************************************************)
(* What each step keeps: the stages and the database ...                   *)
(***************************************************************************)
LEMMA SameStages ==
  ASSUME StagesInv, UNCHANGED <<layerToIds, idToLayer, added, identifier, session, target, prev>>,
         dirty' \subseteq Layers
  PROVE  StagesInv'
<1>1. Kinded(Current)'
  BY SameKinded DEF StagesInv
<1>2. StagesTyped' /\ prev' \in [Proxies -> Layers \cup {NoLayer}]
  BY DEF StagesInv, StagesTyped, Loaded
<1> QED BY <1>1, <1>2, StagesStep

LEMMA ClearedStages ==
  ASSUME StagesInv, NEW kept \in SUBSET dirty, ClearScene(kept)
  PROVE  StagesInv'
<1>1. Kinded(Database(<< >>, << >>))
  BY DEF Kinded, IsDatabase, Good, Kinds, Typed, Listed, Keyed, AllNamed, Database
<1>2. Kinded(Current)'
  <2>1. Become(Database(<< >>, << >>)) /\ UNCHANGED identifier
    BY DEF ClearScene
  <2> QED BY <1>1, <2>1, BecomeKinded
<1>3. /\ session' = [p \in Proxies |-> NoLayer] /\ target' = [p \in Proxies |-> NoLayer]
      /\ prev' = [p \in Proxies |-> NoLayer]
      /\ dirty' = kept /\ UNCHANGED <<added, identifier>>
  BY DEF ClearScene
<1>4. StagesTyped' /\ prev' \in [Proxies -> Layers \cup {NoLayer}]
  BY <1>3 DEF StagesTyped, Loaded
<1>5. dirty' \subseteq Layers
  BY <1>3 DEF StagesInv
<1> QED BY <1>2, <1>3, <1>4, <1>5, StagesStep

LEMMA StagesNext ==
  ASSUME StagesInv, NamesKept, TextsTyped, FileInv, EntriesInv, SceneInv, SceneNext
  PROVE  StagesInv'
<1>0. sessionName \in SavedNames /\ dirty \subseteq Layers
  BY DEF NamesKept, StagesInv
<1>1. ASSUME NEW p \in Proxies,
             \/ CreateShape(p) \/ SetFilePath(p) \/ ComputeStage(p)
      PROVE  StagesInv'
  <2>1. LoadStage(p) \/ LoadFails(p)
    BY <1>1 DEF CreateShape, SetFilePath, ComputeStage, LoadStageOfShape, LoadNewStage
  <2> QED BY <1>0, <2>1, LoadStageKinded, LoadFailsKinded
<1>2. ASSUME NEW p \in Proxies, DeleteShape(p) PROVE StagesInv'
  BY <1>0, <1>2, DestroyProxyKinded DEF DeleteShape
<1>3. ASSUME NEW p \in Proxies, NEW layer \in Layers, Retarget(p, layer) PROVE StagesInv'
  BY <1>3, SetEditTargetKinded DEF Retarget
<1>4. ASSUME NEW p \in Proxies, NEW says \in Texts, EditText(p, says) PROVE StagesInv'
  <2>1. p \in Loaded /\ dirty' = dirty \cup {target[p]}
    BY <1>4 DEF EditText, EditStage, Edit
  <2>2. dirty' \subseteq Layers
    BY <1>0, <2>1 DEF StagesInv, StagesTyped
  <2> QED BY <1>4, <2>2, SameStages DEF EditText, EditStage, Edit, dbVars
<1>5. ASSUME NEW layer \in Layers, SaveLayer(layer) \/ ReloadLayer(layer)
      PROVE  StagesInv'
  <2>1. CleanLayer(layer)
    BY <1>5 DEF SaveLayer, ReloadLayer
  <2>2. dirty' \subseteq Layers
    BY <1>0, <2>1 DEF CleanLayer, Clean
  <2> QED BY <2>1, <2>2, SameStages DEF CleanLayer, Clean, dbVars
<1>6. CASE SaveScene
  BY <1>0, <1>6, SerializeAllTyped DEF SaveScene
<1>7. ASSUME NEW S, \/ LoadPlugin \/ ImportScene \/ UnheardRead \/ Pulled \/ ReadReference(S)
                    \/ ReadManager
      PROVE  StagesInv'
  <2>1. UNCHANGED trackVars
    BY <1>7 DEF LoadPlugin, ImportScene, UnheardRead, Pulled, ReadReference, ReadManager
  <2> QED BY <1>0, <2>1, SameStages DEF trackVars, vars, dbVars
<1>8. ASSUME NEW p \in Proxies, ReadShape(p) PROVE StagesInv'
  <2>1. UNCHANGED <<vars, session, target, prev>>
    BY <1>8 DEF ReadShape
  <2> QED BY <1>0, <2>1, SameStages DEF vars, dbVars
<1>9. ASSUME NEW kept \in SUBSET (dirty \ SessionLayers), NewScene(kept) \/ OpenScene(kept)
      PROVE  StagesInv'
  <2>1. kept \in SUBSET dirty /\ ClearScene(kept)
    BY <1>9 DEF NewScene, OpenScene
  <2> QED BY <2>1, ClearedStages
<1>10. CASE Restart
  <2>1. {} \in SUBSET dirty /\ ClearScene({})
    BY <1>10 DEF Restart
  <2> QED BY <2>1, ClearedStages
<1>11. CASE PostFileRead
  <2>1. UNCHANGED <<added, identifier, session, target, prev>>
    BY <1>11 DEF PostFileRead
  <2>2. CASE LoadAllLayers
    <3>1. PICK layerOf : LoadsEntries(layerOf)
      BY <2>2, LoadAllEffect DEF SceneInv, EntriesInv
    <3>2. Kinded(Current)'
      <4>1. PICK new : Kinded(new) /\ Become(new)
        BY <3>1 DEF LoadsEntries
      <4> QED BY <2>1, <4>1, BecomeKinded
    <3>3. dirty' \subseteq Layers
      BY <1>0, <3>1 DEF LoadsEntries, Placed
    <3>4. StagesTyped' /\ prev' \in [Proxies -> Layers \cup {NoLayer}]
      BY <2>1 DEF StagesInv, StagesTyped, Loaded
    <3> QED BY <2>1, <3>2, <3>3, <3>4, StagesStep
  <2>3. CASE UNCHANGED <<layerToIds, idToLayer, dirty>>
    BY <1>0, <2>1, <2>3, SameStages
  <2> QED BY <1>11, <2>2, <2>3 DEF PostFileRead
<1>12. CASE PullStage
  <2> DEFINE p == Head(unloaded)
  <2>1. p \in Proxies
    <3>1. unloaded # << >> /\ unloaded \in Seq(shapes) /\ shapes \subseteq Proxies
      BY <1>12 DEF PullStage, SceneInv, ShapesInv
    <3> QED BY <3>1
  <2>2. LoadStage(p) \/ LoadFails(p)
    BY <1>12 DEF PullStage, LoadNewStage
  <2> HIDE DEF p
  <2> QED BY <1>0, <2>1, <2>2, LoadStageKinded, LoadFailsKinded
<1> QED
  BY <1>1, <1>2, <1>3, <1>4, <1>5, <1>6, <1>7, <1>8, <1>9, <1>10, <1>11, <1>12
  DEF SceneNext, UserNext, ReadNext

-----------------------------------------------------------------------------
(***************************************************************************)
(* ... the identifiers, and the file but for a save ...                    *)
(***************************************************************************)
LEMMA OthersSame ==
  ASSUME SceneNext
  PROVE  UNCHANGED identifier /\ (SaveScene \/ UNCHANGED file)
<1>1. ASSUME NEW p, \/ CreateShape(p) \/ SetFilePath(p) \/ ComputeStage(p) \/ DeleteShape(p)
                    \/ PullStage
      PROVE  UNCHANGED <<identifier, file>>
  BY <1>1 DEF CreateShape, SetFilePath, ComputeStage, LoadStageOfShape, LoadNewStage,
              LoadStage, LoadFails, DeleteShape, DestroyProxy, vars, PullStage
<1>2. ASSUME NEW p, NEW layer, NEW says,
             Retarget(p, layer) \/ EditText(p, says) \/ SaveLayer(layer) \/ ReloadLayer(layer)
      PROVE  UNCHANGED <<identifier, file>>
  BY <1>2 DEF Retarget, SetEditTarget, TargetChanged, EditText, EditStage, Edit, SaveLayer,
              ReloadLayer, CleanLayer, Clean
<1>3. ASSUME NEW kept, NewScene(kept) \/ OpenScene(kept) \/ Restart
      PROVE  UNCHANGED <<identifier, file>>
  BY <1>3 DEF NewScene, OpenScene, Restart, ClearScene
<1>4. ASSUME NEW S, NEW p, \/ LoadPlugin \/ ImportScene \/ UnheardRead \/ Pulled
                           \/ ReadReference(S) \/ ReadManager \/ PostFileRead \/ ReadShape(p)
      PROVE  UNCHANGED <<identifier, file>>
  BY <1>4 DEF LoadPlugin, ImportScene, UnheardRead, Pulled, ReadReference, ReadManager,
              PostFileRead, ReadShape, trackVars, vars
<1>5. SaveScene => UNCHANGED identifier
  BY DEF SaveScene, SerializeAll
<1> QED BY <1>1, <1>2, <1>3, <1>4, <1>5 DEF SceneNext, UserNext, ReadNext

\* ... the names ...
LEMMA LastRead ==
  ASSUME EntriesInv, reads # << >>
  PROVE  /\ Len(reads) \in 1..Len(reads) /\ Last(reads) = reads[Len(reads)]
         /\ Last(reads) \in ReadRecord /\ Len(reads) \in Nat /\ Len(reads) >= 1
         /\ \A k \in 1..Len(reads) : reads[k] \in ReadRecord
BY DEF EntriesInv, Last

LEMMA NamesNext ==
  ASSUME StagesInv, NamesKept, EntriesInv, SceneNext
  PROVE  NamesKept'
<1>0. SavedNames' = SavedNames /\ sessionName \in SavedNames /\ file.names \in SavedNames
  BY OthersSame DEF SavedNames, SessionIds, NamesKept
<1>1. ASSUME sessionName' \in SavedNames PROVE NamesKept'
  <2>1. CASE SaveScene
    BY <1>0, <1>1, <2>1 DEF SaveScene, NamesKept
  <2>2. CASE UNCHANGED file
    BY <1>0, <1>1, <2>2 DEF NamesKept
  <2> QED BY <2>1, <2>2, OthersSame
<1>2. ASSUME NEW p, NEW layer, NEW says,
             \/ CreateShape(p) \/ SetFilePath(p) \/ ComputeStage(p)
             \/ Retarget(p, layer) \/ EditText(p, says) \/ SaveLayer(layer) \/ ReloadLayer(layer)
      PROVE  UNCHANGED sessionName
  BY <1>2 DEF CreateShape, SetFilePath, ComputeStage, LoadStageOfShape, LoadNewStage,
              LoadStage, LoadFails, Retarget, SetEditTarget, TargetChanged, EditText, EditStage,
              SaveLayer, ReloadLayer, CleanLayer
<1>3. ASSUME NEW S, \/ LoadPlugin \/ ImportScene \/ UnheardRead \/ Pulled
                    \/ ReadReference(S) \/ ReadManager \/ PostFileRead \/ PullStage
      PROVE  UNCHANGED sessionName
  BY <1>3 DEF LoadPlugin, ImportScene, UnheardRead, Pulled, ReadReference, ReadManager,
              PostFileRead, PullStage, LoadNewStage, LoadStage, LoadFails, trackVars
<1>4. ASSUME NEW p \in Proxies, DeleteShape(p) PROVE sessionName' \in SavedNames
  BY <1>0, <1>4 DEF DeleteShape, DestroyProxy, SavedNames
<1>5. CASE SaveScene
  <2>1. sessionName' \in SavedNames
    BY <1>0, <1>5, SerializeAllTyped DEF SaveScene, SavedNames
  <2> QED BY <1>1, <2>1
<1>6. ASSUME NEW kept, NewScene(kept) \/ OpenScene(kept) \/ Restart
      PROVE  sessionName' \in SavedNames
  BY <1>6 DEF NewScene, OpenScene, Restart, ClearScene, SavedNames
<1>7. ASSUME NEW p \in Proxies, ReadShape(p) PROVE sessionName' \in SavedNames
  <2>1. /\ reads # << >>
        /\ sessionName' = [sessionName EXCEPT ![p] = Last(reads).names[p]]
    BY <1>7 DEF ReadShape
  <2>2. Last(reads).names \in SavedNames
    BY <2>1, LastRead DEF ReadRecord
  <2> QED BY <1>0, <2>1, <2>2 DEF SavedNames
<1> QED
  BY <1>0, <1>1, <1>2, <1>3, <1>4, <1>5, <1>6, <1>7 DEF SceneNext, UserNext, ReadNext

\* ... the texts ...
LEMMA TextsNext ==
  ASSUME StagesInv, TextsTyped, FileInv, EntriesInv, SceneInv, SceneNext
  PROVE  TextsTyped'
<1> USE DEF TextsTyped
<1>1. ASSUME NEW p, NEW layer,
             \/ CreateShape(p) \/ SetFilePath(p) \/ ComputeStage(p) \/ DeleteShape(p)
             \/ Retarget(p, layer)
      PROVE  UNCHANGED <<text, disk>>
  BY <1>1 DEF CreateShape, SetFilePath, ComputeStage, LoadStageOfShape, DeleteShape, Retarget
<1>2. ASSUME NEW S, NEW p, \/ LoadPlugin \/ ImportScene \/ UnheardRead \/ Pulled \/ SaveScene
                           \/ ReadReference(S) \/ ReadManager \/ PullStage \/ ReadShape(p)
      PROVE  UNCHANGED <<text, disk>>
  BY <1>2 DEF LoadPlugin, ImportScene, UnheardRead, Pulled, ReadReference, ReadManager,
              SaveScene, PullStage, ReadShape
<1>3. ASSUME NEW p \in Proxies, NEW says \in Texts, EditText(p, says) PROVE TextsTyped'
  BY <1>3 DEF EditText
<1>4. ASSUME NEW layer \in Layers, SaveLayer(layer) PROVE TextsTyped'
  BY <1>4 DEF SaveLayer
<1>5. ASSUME NEW layer \in Layers, ReloadLayer(layer) PROVE TextsTyped'
  BY <1>5, TextAssumption DEF ReloadLayer
<1>6. ASSUME NEW kept, NewScene(kept) \/ OpenScene(kept) \/ Restart PROVE TextsTyped'
  <2>1. PICK k : ClearScene(k)
    BY <1>6 DEF NewScene, OpenScene, Restart
  <2> QED BY <2>1, TextAssumption DEF ClearScene
<1>7. CASE PostFileRead
  <2>1. CASE LoadAllLayers
    <3>1. PICK layerOf : LoadsEntries(layerOf)
      BY <2>1, LoadAllEffect DEF SceneInv, EntriesInv
    <3>2. UNCHANGED disk
      BY <1>7 DEF PostFileRead
    <3> QED BY <3>1, <3>2 DEF LoadsEntries
  <2> QED BY <1>7, <2>1 DEF PostFileRead
<1> QED
  BY <1>1, <1>2, <1>3, <1>4, <1>5, <1>6, <1>7 DEF SceneNext, UserNext, ReadNext

\* ... the file ...
LEMMA SavedFile ==
  ASSUME StagesInv, NamesKept, TextsTyped, SceneInv, SaveScene
  PROVE  FileInv'
<1>1. /\ SerializeAll /\ Idle
      /\ file' = [shapes |-> shapes \ Referenced, live |-> Loaded, names |-> sessionName',
                  entries |-> Populated,
                  found |-> [p \in Proxies |-> {text[layer] : layer \in SavedSession(p)'}]]
  BY DEF SaveScene
<1>2. UNCHANGED <<identifier, dirty>> /\ SessionIds' = SessionIds
  BY <1>1 DEF SerializeAll, SessionIds
<1>3. Kinded(Current)' /\ \A p \in Loaded : OwnKey(idToLayer', session[p])
  BY <1>1, SerializeAllTyped DEF StagesInv, NamesKept
<1>4. Visible' \subseteq Layers /\ Visible' \subseteq dirty
  BY <1>2 DEF Visible, StagesInv
<1>5. attrs = {}
  BY <1>1 DEF SceneInv, ReadsInv, Idle
<1>6. /\ Populated = {} \/ Populated = {Entry(layer) : layer \in Visible'}
      /\ Loaded # {} => Populated = {Entry(layer) : layer \in Visible'}
  BY <1>5 DEF Populated, SceneInv, ShapesInv
<1>7. IsFiniteSet(Populated)
  <2>1. IsFiniteSet(Visible')
    BY <1>4, FS_Subset, FiniteAssumption
  <2> DEFINE T == {Entry(layer) : layer \in Visible'}
             f == [layer \in Visible' |-> Entry(layer)]
  <2>2. f \in [Visible' -> T] /\ \A e \in T : \E layer \in Visible' : f[layer] = e
    OBVIOUS
  <2>3. f \in Surjection(Visible', T)
    BY <2>2 DEF Surjection
  <2> HIDE DEF T, f
  <2>4. IsFiniteSet(T)
    BY <2>1, <2>3, FS_Surjection
  <2> QED BY <1>6, <2>4, FS_EmptySet DEF T
<1>8. ASSUME NEW e \in Populated
      PROVE  \E layer \in Visible' : /\ e = Entry(layer) /\ e.id = identifier[layer]
                                     /\ e.says = text[layer]
                                     /\ e.anonymous = (layer \in SessionLayers)
  BY <1>6, <1>8 DEF Entry, Anonymous
<1>9. \A e \in Populated : TextEntry(e)
  <2> TAKE e \in Populated
  <2>1. PICK layer \in Visible' : /\ e.id = identifier[layer] /\ e.says = text[layer]
                                  /\ e.anonymous = (layer \in SessionLayers)
    BY <1>8
  <2>2. layer \in Layers /\ (identifier[layer] \in SessionIds <=> layer \in SessionLayers)
    BY <1>4, OwnKind DEF StagesInv
  <2>3. e.id \in Ids /\ e.says \in Texts
    BY <2>1, <2>2 DEF TextsTyped, StagesInv, Identified
  <2>4. e.anonymous \in BOOLEAN
    BY <2>1
  <2>5. e.anonymous <=> e.id \in SessionIds
    BY <2>1, <2>2
  <2> QED BY <2>3, <2>4, <2>5 DEF TextEntry
<1>10. \A e, f \in Populated : e.id = f.id => e = f
  BY <1>4, <1>8 DEF StagesInv, Identified
<1>11. ASSUME NEW p \in Loaded
       PROVE  /\ sessionName'[p] = identifier[session[p]]
              /\ \A layer : layer \in SavedSession(p)' <=> layer = session[p] /\ layer \in dirty
  <2> DEFINE id == identifier[session[p]]
  <2>1. p \in Proxies /\ session[p] \in Layers
    BY SessionAssumption DEF StagesInv, StagesTyped, Loaded
  <2>2. sessionName'[p] = id /\ id # NoId
    BY <1>1, <2>1, NoAssumption DEF SerializeAll, StagesInv, Identified
  <2>3. SavedSession(p)' = {idToLayer'[i] : i \in {id} \cap DOMAIN idToLayer'} \cap dirty
    BY <1>2, <2>2 DEF SavedSession, Found
  <2>4. /\ id \in DOMAIN idToLayer' => idToLayer'[id] = session[p]
        /\ session[p] \in dirty => id \in DOMAIN idToLayer'
    BY <1>3 DEF OwnKey
  <2> QED BY <2>2, <2>3, <2>4
<1>12. ASSUME NEW p \in Loaded
       PROVE  \A e : e \in {f \in Populated : f.id = sessionName'[p]}
                       <=> e = Entry(session[p]) /\ session[p] \in dirty
  <2>1. session[p] \in Layers /\ Populated = {Entry(layer) : layer \in Visible'}
    BY <1>6, SessionAssumption DEF StagesInv, StagesTyped, Loaded
  <2>2. session[p] \in Visible' <=> session[p] \in dirty
    <3>1. session[p] \in dirty => identifier[session[p]] \in DOMAIN idToLayer'
      BY <1>3 DEF OwnKey
    <3>2. identifier[session[p]] \in DOMAIN idToLayer' => idToLayer'[identifier[session[p]]] = session[p]
      BY <1>3 DEF OwnKey
    <3>3. \A id \in DOMAIN idToLayer' : idToLayer'[id] \in DOMAIN layerToIds'
      BY <1>3 DEF Kinded, Good, Keyed, Current, Database
    <3> QED BY <1>2, <3>1, <3>2, <3>3 DEF Visible
  <2>3. ASSUME NEW layer \in Visible'
        PROVE  Entry(layer).id = identifier[session[p]] <=> layer = session[p]
    BY <1>4, <2>1 DEF Entry, StagesInv, Identified
  <2> QED BY <1>11, <2>1, <2>2, <2>3
<1>13. ASSUME NEW p \in Loaded
       PROVE  {text[layer] : layer \in SavedSession(p)'}
                = {e.says : e \in {f \in Populated : f.id = sessionName'[p]}}
  <2>1. Entry(session[p]).says = text[session[p]]
    BY DEF Entry
  <2> QED BY <1>11, <1>12, <2>1
<1>14. ASSUME NEW p \in file'.live
       PROVE  file'.found[p] = {e.says : e \in {f \in file'.entries : f.id = file'.names[p]}}
  <2>1. p \in Loaded /\ p \in Proxies
    BY <1>1, <1>14 DEF Loaded
  <2>2. /\ file'.found[p] = {text[layer] : layer \in SavedSession(p)'}
        /\ file'.entries = Populated /\ file'.names = sessionName'
    BY <1>1, <2>1
  <2> QED BY <1>13, <2>1, <2>2
<1>15. file'.entries = Populated /\ file'.shapes = shapes \ Referenced
  BY <1>1
<1>16. Entries(file.entries)'
  <2>1. \A e \in file'.entries : TextEntry(e)'
    BY <1>2, <1>9, <1>15 DEF TextEntry
  <2> QED BY <1>7, <1>10, <1>15, <2>1 DEF Entries
<1>17. file'.shapes \subseteq Proxies \ Referenced
  BY <1>15 DEF SceneInv, ShapesInv
<1> QED BY <1>14, <1>16, <1>17 DEF FileInv

LEMMA FileNext ==
  ASSUME StagesInv, NamesKept, TextsTyped, FileInv, SceneInv, SceneNext
  PROVE  FileInv'
<1>1. CASE UNCHANGED file
  <2>1. SessionIds' = SessionIds
    BY OthersSame DEF SessionIds
  <2>2. Entries(file.entries)'
    BY <1>1, <2>1 DEF FileInv, Entries, TextEntry
  <2> QED BY <1>1, <2>2 DEF FileInv
<1> QED BY <1>1, OthersSame, SavedFile

\* ... and what is to be read.
LEMMA ReadShapeReads ==
  ASSUME EntriesInv, NEW p, ReadShape(p)
  PROVE  /\ reads' \in Seq(ReadRecord) /\ Len(reads') = Len(reads)
         /\ \A k \in 1..Len(reads) :
              reads'[k] = IF k = Len(reads)
                          THEN [[reads[k] EXCEPT !.shapes = @ \ {p}] EXCEPT !.begun = TRUE]
                          ELSE reads[k]
<1> DEFINE n == Len(reads)
           new == [[reads[n] EXCEPT !.shapes = @ \ {p}] EXCEPT !.begun = TRUE]
<1>1. n \in 1..n /\ reads[n] \in ReadRecord /\ reads \in Seq(ReadRecord)
  BY LastRead DEF ReadShape, EntriesInv
<1>2. new \in ReadRecord
  BY <1>1 DEF ReadRecord
<1>3. reads' = [reads EXCEPT ![n] = new]
  BY <1>1 DEF ReadShape
<1> HIDE DEF new
<1>4. reads' \in Seq(ReadRecord) /\ Len(reads') = n /\ \A k \in 1..n : reads'[k] = IF k = n THEN new ELSE reads[k]
  BY <1>1, <1>2, <1>3
<1> QED BY <1>4 DEF new

LEMMA ReadManagerReads ==
  ASSUME EntriesInv, ReadManager
  PROVE  /\ reads' \in Seq(ReadRecord) /\ Len(reads') = Len(reads)
         /\ \A k \in 1..Len(reads) :
              reads'[k] = IF k = Len(reads)
                          THEN [[reads[k] EXCEPT !.entries = {}] EXCEPT !.begun = TRUE]
                          ELSE reads[k]
<1> DEFINE n == Len(reads)
           new == [[reads[n] EXCEPT !.entries = {}] EXCEPT !.begun = TRUE]
<1>1. n \in 1..n /\ reads[n] \in ReadRecord /\ reads \in Seq(ReadRecord)
  BY LastRead DEF ReadManager, EntriesInv
<1>2. new \in ReadRecord
  BY <1>1 DEF ReadRecord
<1>3. reads' = [reads EXCEPT ![n] = new]
  BY <1>1 DEF ReadManager
<1> HIDE DEF new
<1>4. reads' \in Seq(ReadRecord) /\ Len(reads') = n /\ \A k \in 1..n : reads'[k] = IF k = n THEN new ELSE reads[k]
  BY <1>1, <1>2, <1>3
<1> QED BY <1>4 DEF new

LEMMA ReadOverReads ==
  ASSUME EntriesInv, PostFileRead
  PROVE  /\ reads' \in Seq(ReadRecord) /\ Len(reads') = Len(reads) - 1
         /\ \A k \in 1..Len(reads) - 1 :
              reads'[k] = [reads[k] EXCEPT !.early = @ \/ OldDepth = 1]
<1> DEFINE n == Len(reads) - 1
<1>1. n \in Nat /\ \A k \in 1..n : reads[k] \in ReadRecord
  BY LastRead DEF PostFileRead, EntriesInv
<1>2. reads' = [k \in 1..n |-> [reads[k] EXCEPT !.early = @ \/ OldDepth = 1]]
  BY DEF PostFileRead
<1>3. ASSUME NEW k \in 1..n PROVE [reads[k] EXCEPT !.early = @ \/ OldDepth = 1] \in ReadRecord
  <2>1. reads[k] \in ReadRecord /\ (reads[k].early \/ OldDepth = 1) \in BOOLEAN
    BY <1>1, <1>3
  <2> QED BY <2>1 DEF ReadRecord
<1>4. reads' \in [1..n -> ReadRecord]
  BY <1>2, <1>3
<1>5. reads' \in Seq(ReadRecord) /\ Len(reads') = n
  BY <1>1, <1>4
<1> QED BY <1>2, <1>5

LEMMA UnheardReads ==
  ASSUME EntriesInv, UnheardRead
  PROVE  /\ reads' \in Seq(ReadRecord) /\ Len(reads') = Len(reads) - 1
         /\ \A k \in 1..Len(reads) - 1 : reads'[k] = reads[k]
<1>1. reads \in Seq(ReadRecord) /\ Len(reads) >= 1
  BY LastRead DEF UnheardRead, EntriesInv
<1>2. reads' = SubSeq(reads, 1, Len(reads) - 1)
  BY DEF UnheardRead, Front
<1> DEFINE n == Len(reads) - 1
<1>3. n \in 0..Len(reads) /\ 1 \in Nat
  BY <1>1
<1>4. \A k \in 1..n : reads[k] \in ReadRecord
  BY <1>1, <1>3
<1> HIDE DEF n
<1>5. /\ SubSeq(reads, 1, n) \in Seq(ReadRecord)
      /\ Len(SubSeq(reads, 1, n)) = IF 1 <= n THEN n - 1 + 1 ELSE 0
      /\ \A k \in 1..n - 1 + 1 : SubSeq(reads, 1, n)[k] = reads[1 + k - 1]
  <2>1. 1 \in Int /\ n \in Int
    BY <1>1, <1>3
  <2> QED BY <1>4, <2>1, SubSeqProperties
<1>6. n \in Nat /\ Len(reads) - 1 = n /\ reads' = SubSeq(reads, 1, n)
  BY <1>1, <1>2 DEF n
<1>7. Len(SubSeq(reads, 1, n)) = n
  BY <1>5, <1>6
<1>8. \A k \in 1..n : SubSeq(reads, 1, n)[k] = reads[k]
  <2> TAKE k \in 1..n
  <2>1. k \in 1..n - 1 + 1 /\ 1 + k - 1 = k
    BY <1>6
  <2> QED BY <1>5, <2>1
<1> HIDE DEF n
<1> QED BY <1>5, <1>6, <1>7, <1>8

LEMMA ReferenceReads ==
  ASSUME EntriesInv, NamesKept, NEW S \in SUBSET Referenced, ReadReference(S)
  PROVE  /\ reads' \in Seq(ReadRecord) /\ Len(reads') = Len(reads) + 1
         /\ \A k \in 1..Len(reads) : reads'[k] = reads[k]
         /\ reads'[Len(reads')].kind = "reference" /\ reads'[Len(reads')].shapes = S
         /\ reads'[Len(reads')].entries = {}
         /\ reads # << >> => reads'[Len(reads')].names = Last(reads).names
<1>0. reads \in Seq(ReadRecord) /\ S \subseteq Proxies
  BY ReferencedAssumption DEF EntriesInv
<1>1. ASSUME NEW names \in SavedNames
      PROVE  /\ Read("reference", S, names, {}) \in ReadRecord
             /\ Read("reference", S, names, {}).kind = "reference"
             /\ Read("reference", S, names, {}).shapes = S
             /\ Read("reference", S, names, {}).names = names
             /\ Read("reference", S, names, {}).entries = {}
  BY <1>0 DEF Read, ReadRecord
<1>2. \E names \in SavedNames :
        /\ reads' = Append(reads, Read("reference", S, names, {}))
        /\ reads # << >> => names = Last(reads).names
  <2>1. CASE reads = << >> /\ reads' = <<Read("reference", S, sessionName, {})>>
    <3>1. reads' = Append(reads, Read("reference", S, sessionName, {}))
      BY <2>1
    <3> QED BY <2>1, <3>1 DEF NamesKept
  <2>2. CASE reads # << >> /\ reads' = Append(reads, Read("reference", S, Last(reads).names, {}))
    BY <2>2, LastRead DEF ReadRecord
  <2> QED BY <2>1, <2>2 DEF ReadReference, Idle
<1>3. PICK names \in SavedNames :
        /\ reads' = Append(reads, Read("reference", S, names, {}))
        /\ reads # << >> => names = Last(reads).names
  BY <1>2
<1> QED BY <1>0, <1>1, <1>3

LEMMA EntriesNext ==
  ASSUME EntriesInv, NamesKept, FileInv, SceneInv, SceneNext
  PROVE  EntriesInv'
<1>0. /\ attrs \in {{}, file.entries} /\ reads \in Seq(ReadRecord)
      /\ Read("open", file.shapes, file.names, file.entries) \in ReadRecord
      /\ Read("import", file.shapes, file.names, file.entries) \in ReadRecord
  BY DEF EntriesInv, ReadRecord, Read, NamesKept, FileInv
<1>1. CASE SaveScene
  <2>1. reads' = << >> /\ attrs' = {}
    BY <1>1 DEF SaveScene, Idle, nodeVars, Cleared
  <2> QED BY <2>1 DEF EntriesInv
<1>2. UNCHANGED file => ReadRecord' = ReadRecord
  <2>1. SavedNames' = SavedNames
    BY OthersSame DEF SavedNames, SessionIds
  <2> QED BY <2>1 DEF ReadRecord
<1>3. ASSUME UNCHANGED file, attrs' \in {{}, file.entries}, reads' \in Seq(ReadRecord)
      PROVE  EntriesInv'
  BY <1>2, <1>3 DEF EntriesInv
<1>4. ASSUME NEW p, NEW layer, NEW says, NEW S,
             \/ CreateShape(p) \/ SetFilePath(p) \/ ComputeStage(p) \/ DeleteShape(p)
             \/ Retarget(p, layer) \/ EditText(p, says) \/ SaveLayer(layer) \/ ReloadLayer(layer)
             \/ LoadPlugin \/ PullStage \/ Pulled
      PROVE  UNCHANGED <<attrs, reads, file>>
  BY <1>4 DEF CreateShape, SetFilePath, ComputeStage, LoadStageOfShape, DeleteShape, Retarget,
              EditText, SaveLayer, ReloadLayer, LoadPlugin, PullStage, Pulled, nodeVars
<1>5. ASSUME NEW kept, NewScene(kept) PROVE EntriesInv'
  BY <1>0, <1>3, <1>5 DEF NewScene, ClearScene
<1>6. ASSUME NEW kept, OpenScene(kept) PROVE EntriesInv'
  <2>1. reads' \in Seq(ReadRecord) /\ attrs' = {} /\ UNCHANGED file
    BY <1>0, <1>6 DEF OpenScene, ClearScene
  <2> QED BY <1>3, <2>1
<1>7. CASE Restart
  BY <1>3, <1>7 DEF Restart, ClearScene
<1>8. CASE ImportScene
  <2>1. reads' \in Seq(ReadRecord) /\ UNCHANGED <<attrs, file>>
    BY <1>0, <1>8 DEF ImportScene
  <2> QED BY <1>0, <1>3, <2>1
<1>9. ASSUME NEW S \in SUBSET Referenced, ReadReference(S) PROVE EntriesInv'
  BY <1>0, <1>3, <1>9, ReferenceReads DEF ReadReference
<1>10. ASSUME NEW p \in Proxies, ReadShape(p) PROVE EntriesInv'
  BY <1>0, <1>3, <1>10, ReadShapeReads DEF ReadShape
<1>11. CASE ReadManager
  <2>1. reads # << >> /\ Last(reads).entries \in {{}, file.entries}
    BY <1>11, LastRead DEF ReadManager, ReadRecord
  <2> QED BY <1>0, <1>3, <1>11, <2>1, ReadManagerReads DEF ReadManager
<1>12. CASE PostFileRead
  <2>1. attrs' = attrs \/ attrs' = {}
    BY <1>12 DEF PostFileRead, LoadAllLayers, Cleared
  <2> QED BY <1>0, <1>3, <1>12, <2>1, ReadOverReads DEF PostFileRead
<1>13. CASE UnheardRead
  BY <1>0, <1>3, <1>13, UnheardReads DEF UnheardRead
<1> QED
  BY <1>0, <1>1, <1>3, <1>4, <1>5, <1>6, <1>7, <1>8, <1>9, <1>10, <1>11, <1>12, <1>13
  DEF SceneNext, UserNext, ReadNext

-----------------------------------------------------------------------------
(***************************************************************************)
(* While a scene is opened, and no read inside has been taken for the      *)
(* outermost: the entries of the file are still to be read or in the       *)
(* attribute, nothing else is in the scene, and the shapes that have been  *)
(* read have the names of the file.                                        *)
(***************************************************************************)
Opening == reads # << >> /\ reads[1].kind = "open" /\ ~reads[1].early

AsSaved ==
  /\ ~pulling /\ DOMAIN layerToIds = {}
  /\ manager => attrs = file.entries /\ reads[1].entries = {}
  /\ ~manager => reads[1].entries = file.entries
  /\ \A k \in 1..Len(reads) : reads[k].names = file.names
  /\ \A k \in 2..Len(reads) : reads[k].entries = {}
  /\ \A p \in file.shapes \ reads[1].shapes : sessionName[p] = file.names[p]

OpenInv == Opening => AsSaved

LEMMA OpenSceneOpens ==
  ASSUME NEW kept, OpenScene(kept)
  PROVE  OpenInv'
<1>1. /\ Len(reads') = 1
      /\ reads'[1].names = file.names /\ reads'[1].entries = file.entries
      /\ reads'[1].shapes = file.shapes
  BY DEF OpenScene, Read
<1>2. UNCHANGED <<file, pulling>> /\ ~pulling /\ manager' = FALSE /\ DOMAIN layerToIds' = {}
  BY DEF OpenScene, ClearScene, Become, Database
<1>3. \A k \in 1..Len(reads') : k = 1
  BY <1>1
<1>4. \A k \in 2..Len(reads') : FALSE
  BY <1>1
<1> QED BY <1>1, <1>2, <1>3, <1>4 DEF OpenInv, AsSaved

LEMMA ReferenceOpens ==
  ASSUME OpenInv, EntriesInv, NamesKept, NEW S \in SUBSET Referenced, ReadReference(S)
  PROVE  OpenInv'
<1> SUFFICES ASSUME Opening' PROVE AsSaved'
  BY DEF OpenInv
<1>1. /\ reads' \in Seq(ReadRecord) /\ Len(reads') = Len(reads) + 1
      /\ \A k \in 1..Len(reads) : reads'[k] = reads[k]
      /\ reads'[Len(reads')].kind = "reference" /\ reads'[Len(reads')].entries = {}
      /\ reads # << >> => reads'[Len(reads')].names = Last(reads).names
  BY ReferenceReads
<1>2. reads # << >>
  <2> SUFFICES ASSUME reads = << >> PROVE FALSE
    OBVIOUS
  <2>1. Len(reads') = 1
    BY <1>1
  <2> QED BY <1>1, <2>1 DEF Opening
<1>3. /\ 1 \in 1..Len(reads) /\ Len(reads) \in 1..Len(reads) /\ Len(reads) \in Nat
      /\ Last(reads) = reads[Len(reads)]
  BY <1>2, LastRead
<1>4. reads'[1] = reads[1]
  BY <1>1, <1>3
<1>5. AsSaved
  BY <1>2, <1>4 DEF OpenInv, Opening
<1>6. UNCHANGED <<pulling, layerToIds, manager, attrs, file, sessionName>>
  BY DEF ReadReference, trackVars, vars, dbVars
<1>7. \A k \in 1..Len(reads') : k \in 1..Len(reads) \/ k = Len(reads')
  BY <1>1, <1>3
<1>8. \A k \in 2..Len(reads') : k \in 2..Len(reads) \/ k = Len(reads')
  BY <1>1, <1>3
<1>9. \A k \in 1..Len(reads') : reads'[k].names = file.names
  BY <1>1, <1>2, <1>3, <1>5, <1>7 DEF AsSaved
<1>10. \A k \in 2..Len(reads') : reads'[k].entries = {}
  <2> TAKE k \in 2..Len(reads')
  <2>1. CASE k \in 2..Len(reads)
    <3>1. k \in 1..Len(reads)
      BY <2>1
    <3> QED BY <1>1, <1>5, <2>1, <3>1 DEF AsSaved
  <2>2. CASE k = Len(reads')
    BY <1>1, <2>2
  <2> QED BY <1>8, <2>1, <2>2
<1> QED BY <1>4, <1>5, <1>6, <1>9, <1>10 DEF AsSaved

LEMMA ReadShapeOpens ==
  ASSUME OpenInv, EntriesInv, NamesKept, NEW p \in Proxies, ReadShape(p)
  PROVE  OpenInv'
<1> SUFFICES ASSUME Opening' PROVE AsSaved'
  BY DEF OpenInv
<1>1. /\ Len(reads') = Len(reads)
      /\ \A k \in 1..Len(reads) :
           reads'[k] = IF k = Len(reads)
                       THEN [[reads[k] EXCEPT !.shapes = @ \ {p}] EXCEPT !.begun = TRUE]
                       ELSE reads[k]
  BY ReadShapeReads
<1>2. /\ reads # << >> /\ sessionName' = [sessionName EXCEPT ![p] = Last(reads).names[p]]
      /\ UNCHANGED <<pulling, layerToIds, manager, attrs, file>>
  BY DEF ReadShape, vars, dbVars
<1>3. /\ 1 \in 1..Len(reads) /\ Len(reads) \in 1..Len(reads)
      /\ Last(reads) = reads[Len(reads)] /\ \A k \in 1..Len(reads) : reads[k] \in ReadRecord
  BY <1>2, LastRead
<1>4. ASSUME NEW k \in 1..Len(reads)
      PROVE  /\ reads'[k].kind = reads[k].kind /\ reads'[k].early = reads[k].early
             /\ reads'[k].names = reads[k].names /\ reads'[k].entries = reads[k].entries
             /\ reads'[k].shapes = reads[k].shapes \/ reads'[k].shapes = reads[k].shapes \ {p}
  <2>1. reads[k] \in ReadRecord
    BY <1>3
  <2> QED BY <1>1, <2>1 DEF ReadRecord
<1>5. Opening
  BY <1>2, <1>3, <1>4 DEF Opening
<1>6. AsSaved
  BY <1>5 DEF OpenInv
<1>7. \A k \in 1..Len(reads') : reads'[k].names = file.names
  BY <1>1, <1>4, <1>6 DEF AsSaved
<1>8. \A k \in 2..Len(reads') : reads'[k].entries = {}
  <2> TAKE k \in 2..Len(reads')
  <2>0. Len(reads) \in Nat
    BY <1>2, LastRead
  <2>1. k \in 1..Len(reads) /\ k \in 2..Len(reads)
    <3>1. \A n \in Nat : \A i \in 2..n : i \in 1..n
      OBVIOUS
    <3>2. k \in 2..Len(reads)
      BY <1>1
    <3> QED BY <2>0, <3>1, <3>2
  <2> QED BY <1>4, <1>6, <2>1 DEF AsSaved
<1>9. ASSUME NEW q \in file.shapes \ reads'[1].shapes PROVE sessionName'[q] = file.names[q]
  <2>1. Last(reads).names = file.names /\ sessionName \in [Proxies -> SessionIds \cup {NoId}]
    BY <1>3, <1>6 DEF AsSaved, NamesKept, SavedNames
  <2>2. CASE q = p
    BY <1>2, <2>1, <2>2
  <2>3. CASE q # p
    <3>1. q \in file.shapes \ reads[1].shapes
      BY <1>3, <1>4, <1>9, <2>3
    <3>2. sessionName'[q] = sessionName[q]
      BY <1>2, <2>1, <2>3
    <3> QED BY <1>6, <3>1, <3>2 DEF AsSaved
  <2> QED BY <2>2, <2>3
<1>10. reads'[1].entries = reads[1].entries
  BY <1>3, <1>4
<1> QED BY <1>2, <1>6, <1>7, <1>8, <1>9, <1>10 DEF AsSaved

LEMMA ReadManagerOpens ==
  ASSUME OpenInv, EntriesInv, ReadManager
  PROVE  OpenInv'
<1> SUFFICES ASSUME Opening' PROVE AsSaved'
  BY DEF OpenInv
<1>1. /\ Len(reads') = Len(reads)
      /\ \A k \in 1..Len(reads) :
           reads'[k] = IF k = Len(reads)
                       THEN [[reads[k] EXCEPT !.entries = {}] EXCEPT !.begun = TRUE]
                       ELSE reads[k]
  BY ReadManagerReads
<1>2. /\ reads # << >> /\ Last(reads).entries # {}
      /\ attrs' = IF manager THEN attrs ELSE Last(reads).entries
      /\ manager' = TRUE
      /\ UNCHANGED <<pulling, layerToIds, sessionName, file>>
  BY DEF ReadManager, trackVars, vars, dbVars
<1>3. /\ 1 \in 1..Len(reads) /\ Len(reads) \in 1..Len(reads) /\ Len(reads) \in Nat
      /\ Last(reads) = reads[Len(reads)] /\ \A k \in 1..Len(reads) : reads[k] \in ReadRecord
  BY <1>2, LastRead
<1>4. ASSUME NEW k \in 1..Len(reads)
      PROVE  /\ reads'[k].kind = reads[k].kind /\ reads'[k].early = reads[k].early
             /\ reads'[k].names = reads[k].names /\ reads'[k].shapes = reads[k].shapes
             /\ k = Len(reads) => reads'[k].entries = {}
  <2>1. reads[k] \in ReadRecord
    BY <1>3
  <2> QED BY <1>1, <2>1 DEF ReadRecord
<1>5. Opening
  BY <1>2, <1>3, <1>4 DEF Opening
<1>6. AsSaved
  BY <1>5 DEF OpenInv
<1>7. Len(reads) = 1
  <2> SUFFICES ASSUME Len(reads) # 1 PROVE FALSE
    OBVIOUS
  <2>0. Len(reads) \in Nat /\ Len(reads) >= 1
    BY <1>2, LastRead
  <2>1. Len(reads) \in 2..Len(reads)
    <3>1. \A n \in Nat : n >= 1 /\ n # 1 => n \in 2..n
      OBVIOUS
    <3> QED BY <2>0, <3>1
  <2> QED BY <1>2, <1>3, <1>6, <2>1 DEF AsSaved
<1>8. ~manager /\ attrs' = file.entries /\ reads'[1].entries = {}
  BY <1>2, <1>3, <1>4, <1>6, <1>7 DEF AsSaved
<1>9. \A k \in 1..Len(reads') : reads'[k].names = file.names
  BY <1>1, <1>4, <1>6 DEF AsSaved
<1>10. \A k \in 2..Len(reads') : FALSE
  BY <1>1, <1>7
<1>11. reads'[1].shapes = reads[1].shapes
  BY <1>3, <1>4
<1> QED BY <1>2, <1>6, <1>8, <1>9, <1>10, <1>11 DEF AsSaved

\* A read that ends inside.
LEMMA ReadOverOpens ==
  ASSUME OpenInv, EntriesInv, PostFileRead \/ UnheardRead
  PROVE  OpenInv'
<1> SUFFICES ASSUME Opening' PROVE AsSaved'
  BY DEF OpenInv
<1>0. /\ reads # << >>
      /\ Len(reads) \in Nat /\ \A k \in 1..Len(reads) : reads[k] \in ReadRecord
  BY LastRead DEF PostFileRead, UnheardRead
<1>1. /\ reads' \in Seq(ReadRecord) /\ Len(reads') = Len(reads) - 1
      /\ \A k \in 1..Len(reads) - 1 :
           \/ reads'[k] = reads[k]
           \/ PostFileRead /\ reads'[k] = [reads[k] EXCEPT !.early = @ \/ OldDepth = 1]
  BY ReadOverReads, UnheardReads
<1>2. \A k \in 1..Len(reads') : k \in 1..Len(reads) - 1 /\ k \in 1..Len(reads)
  BY <1>0, <1>1
<1>3. ASSUME NEW k \in 1..Len(reads')
      PROVE  /\ reads'[k].kind = reads[k].kind /\ reads'[k].names = reads[k].names
             /\ reads'[k].entries = reads[k].entries /\ reads'[k].shapes = reads[k].shapes
             /\ ~reads'[k].early => ~reads[k].early
  <2>1. reads[k] \in ReadRecord
    BY <1>0, <1>2
  <2>2. CASE reads'[k] = reads[k]
    BY <2>2
  <2>3. CASE reads'[k] = [reads[k] EXCEPT !.early = @ \/ OldDepth = 1]
    BY <2>1, <2>3 DEF ReadRecord
  <2> QED BY <1>1, <1>2, <2>2, <2>3
<1>4. 1 \in 1..Len(reads')
  BY <1>1 DEF Opening
<1>5. Opening
  BY <1>0, <1>3, <1>4 DEF Opening
<1>6. AsSaved
  BY <1>5 DEF OpenInv
<1>7. UNCHANGED <<pulling, layerToIds, manager, attrs, file, sessionName>>
  <2>1. CASE UnheardRead
    BY <2>1 DEF UnheardRead, trackVars, vars, dbVars
  <2>2. CASE PostFileRead
    <3>1. OldDepth # 1
      <4>1. reads'[1] = [reads[1] EXCEPT !.early = @ \/ OldDepth = 1] /\ reads[1] \in ReadRecord
        BY <1>0, <1>1, <1>2, <1>4, <2>2, ReadOverReads
      <4> QED BY <4>1 DEF Opening, ReadRecord
    <3> QED BY <2>2, <3>1 DEF PostFileRead
  <2> QED BY <2>1, <2>2
<1>8. \A k \in 1..Len(reads') : reads'[k].names = file.names
  BY <1>2, <1>3, <1>6 DEF AsSaved
<1>9. \A k \in 2..Len(reads') : reads'[k].entries = {}
  <2> TAKE k \in 2..Len(reads')
  <2>1. k \in 1..Len(reads') /\ k \in 2..Len(reads)
    BY <1>0, <1>1
  <2> QED BY <1>3, <1>6, <2>1 DEF AsSaved
<1> QED BY <1>3, <1>4, <1>6, <1>7, <1>8, <1>9 DEF AsSaved

LEMMA OpenNext ==
  ASSUME OpenInv, EntriesInv, NamesKept, SceneInv, SceneNext
  PROVE  OpenInv'
<1>1. ASSUME reads' = << >> PROVE OpenInv'
  BY <1>1 DEF OpenInv, Opening
<1>2. CASE UserNext
  <2>1. Idle \/ LoadPlugin
    BY <1>2, UserLeaves
  <2>2. reads' = << >>
    BY <1>2, <2>1, UserLeaves DEF Leaves, Idle, LoadPlugin
  <2> QED BY <1>1, <2>2
<1>3. ASSUME NEW kept, NewScene(kept) \/ Restart PROVE OpenInv'
  BY <1>1, <1>3 DEF NewScene, Idle, Restart
<1>4. CASE ImportScene
  <2>1. reads'[1].kind = "import"
    BY <1>4 DEF ImportScene, Read
  <2> QED BY <2>1 DEF OpenInv, Opening
<1>5. ASSUME PullStage \/ Pulled PROVE OpenInv'
  <2>1. UNCHANGED reads /\ pulling
    BY <1>5 DEF PullStage, Pulled
  <2> QED BY <2>1 DEF OpenInv, Opening, AsSaved
<1> QED
  BY <1>2, <1>3, <1>4, <1>5, OpenSceneOpens, ReferenceOpens, ReadShapeOpens, ReadManagerOpens,
     ReadOverOpens
  DEF SceneNext, ReadNext

-----------------------------------------------------------------------------
LEMMA ManagerNext == manager \in BOOLEAN /\ SceneNext => manager' \in BOOLEAN
<1> SUFFICES ASSUME manager \in BOOLEAN, SceneNext PROVE manager' \in BOOLEAN
  OBVIOUS
<1>1. ASSUME manager' = (manager \/ DOMAIN layerToIds' # {}) PROVE manager' \in BOOLEAN
  BY <1>1
<1>2. ASSUME UserNext PROVE manager' \in BOOLEAN
  BY <1>1, <1>2, Zenon DEF UserNext, LoadPlugin, CreateShape, DeleteShape, SetFilePath, ComputeStage,
        LoadStageOfShape, Retarget, EditText, SaveLayer, ReloadLayer, SaveScene, nodeVars
<1>3. ASSUME ReadNext PROVE manager' \in BOOLEAN
  BY <1>1, <1>3, Zenon DEF ReadNext, NewScene, OpenScene, ClearScene, ImportScene, ReadReference, ReadShape,
        ReadManager, PostFileRead, UnheardRead, PullStage, Pulled, Restart
<1> QED BY <1>2, <1>3 DEF SceneNext

SavedInv ==
  /\ manager \in BOOLEAN
  /\ StagesInv /\ NamesKept /\ TextsTyped /\ FileInv /\ EntriesInv /\ OpenInv

LEMMA SavedStart == SceneInit => SavedInv
<1> SUFFICES ASSUME SceneInit PROVE SavedInv
  OBVIOUS
<1>0. TrackInit /\ Init /\ file = EmptyFile
  BY DEF SceneInit, TrackInit
<1>1. StagesInv
  <2>1. Identified
    BY <1>0 DEF Init, Identified
  <2>2. Kinded(Current)
    BY <1>0 DEF Init, Kinded, IsDatabase, Good, Kinds, Typed, Listed, Keyed, AllNamed, Current,
                Database
  <2>3. StagesTyped /\ prev \in [Proxies -> Layers \cup {NoLayer}]
    BY <1>0 DEF TrackInit, StagesTyped, Loaded
  <2>4. added \in BOOLEAN /\ dirty \subseteq Layers
    BY <1>0 DEF Init
  <2> QED BY <2>1, <2>2, <2>3, <2>4 DEF StagesInv
<1>2. NamesKept
  BY <1>0 DEF TrackInit, EmptyFile, NamesKept, SavedNames
<1>3. TextsTyped
  BY TextAssumption DEF SceneInit, TextsTyped
<1>4. FileInv
  BY <1>0, FS_EmptySet DEF EmptyFile, FileInv, Entries
<1>5. EntriesInv /\ OpenInv
  BY DEF SceneInit, EntriesInv, OpenInv, Opening
<1> QED BY <1>1, <1>2, <1>3, <1>4, <1>5 DEF SavedInv, SceneInit

LEMMA SavedStutter == SavedInv /\ UNCHANGED sceneVars => SavedInv'
<1> SUFFICES ASSUME SavedInv, UNCHANGED sceneVars PROVE SavedInv'
  OBVIOUS
<1>1. UNCHANGED <<layerToIds, idToLayer, added, identifier, dirty, session, target, prev,
                  sessionName, text, disk, manager, attrs, reads, pulling, file>>
  BY DEF sceneVars, trackVars, vars, dbVars
<1>2. StagesInv'
  BY <1>1, SameStages DEF SavedInv, StagesInv
<1>3. SessionIds' = SessionIds /\ SavedNames' = SavedNames
  BY <1>1 DEF SessionIds, SavedNames
<1>4. NamesKept' /\ TextsTyped'
  BY <1>1, <1>3 DEF SavedInv, NamesKept, TextsTyped
<1>5. FileInv'
  <2>1. Entries(file.entries)'
    BY <1>1, <1>3 DEF SavedInv, FileInv, Entries, TextEntry
  <2> QED BY <1>1, <2>1 DEF SavedInv, FileInv
<1>6. EntriesInv'
  <2>1. ReadRecord' = ReadRecord
    BY <1>1, <1>3 DEF ReadRecord
  <2> QED BY <1>1, <2>1 DEF SavedInv, EntriesInv
<1>7. OpenInv'
  BY <1>1 DEF SavedInv, OpenInv, Opening, AsSaved
<1>8. manager' \in BOOLEAN
  BY <1>1 DEF SavedInv
<1> QED BY <1>2, <1>4, <1>5, <1>6, <1>7, <1>8 DEF SavedInv

\* What the file, the attribute and the reads in progress have of what was saved, at any
\* time, for any shapes, layers, texts and depth of nesting.
THEOREM SavedInvariance == SceneSpec => []SavedInv
<1>1. SavedInv /\ SceneInv /\ [SceneNext]_sceneVars => SavedInv'
  <2>1. ASSUME SavedInv, SceneInv, SceneNext PROVE SavedInv'
    BY <2>1, StagesNext, NamesNext, TextsNext, FileNext, EntriesNext, OpenNext, ManagerNext DEF SavedInv
  <2> QED BY <2>1, SavedStutter
<1> QED BY SavedStart, SceneInvariance, <1>1, PTL DEF SceneSpec

\* Shapes, stages, database, texts and reads have their types: a stage has a session layer
\* or none, whatever identifiers the layers of a scene that was read have.
THEOREM ScenesTyped == SceneSpec => []SceneTypeOK
<1>1. SceneInv /\ SavedInv => SceneTypeOK
  <2> SUFFICES ASSUME SceneInv, SavedInv PROVE SceneTypeOK
    OBVIOUS
  <2>1. TypeOK
    BY DEF SavedInv, StagesInv, Identified, Kinded, Good, Typed, Current, Database, TypeOK
  <2>2. sessionName \in [Proxies -> Ids \cup {NoId}]
    <3>1. SessionIds \subseteq Ids
      BY SessionAssumption DEF SavedInv, StagesInv, Identified, SessionIds
    <3> QED BY <3>1 DEF SavedInv, NamesKept, SavedNames
  <2>3. TrackTypeOK
    BY <2>1, <2>2 DEF SavedInv, StagesInv, StagesTyped, TrackTypeOK
  <2>4. Range(unloaded) \subseteq shapes
    BY DEF SceneInv, ShapesInv, Range
  <2>5. depth \in 0..Len(reads)
    BY DEF SceneInv, ReadsInv, IsSequence
  <2>6. manager \in BOOLEAN
    BY DEF SavedInv
  <2>7. (DOMAIN layerToIds # {} \/ attrs # {}) => manager
    BY DEF SceneInv, ManagerInv
  <2>8. /\ shapes \subseteq Proxies /\ listening \subseteq shapes
        /\ plugin \in BOOLEAN /\ pulling \in BOOLEAN
        /\ text \in [Layers -> Texts] /\ disk \in [Layers -> Texts]
    BY DEF SceneInv, ShapesInv, ReadsInv, SavedInv, TextsTyped
  <2> QED BY <2>3, <2>4, <2>5, <2>6, <2>7, <2>8 DEF SceneTypeOK
<1> QED BY SceneInvariance, SavedInvariance, <1>1, PTL

-----------------------------------------------------------------------------
(***************************************************************************)
(* A scene that is opened has what was saved.                              *)
(***************************************************************************)
\* An identifier a shape was saved with leads to what the file has under it.
LEMMA FoundAgain ==
  ASSUME Entries(attrs), NEW layerOf, LoadsEntries(layerOf), DOMAIN idToLayer = {},
         NEW id \in Range(file.names)
  PROVE  {text'[layer] : layer \in Found(id)'} = {e.says : e \in {f \in attrs : f.id = id}}
<1>1. LedTo(idToLayer', layerOf, attrs)
  BY DEF LoadsEntries, Become
<1>2. CASE \E e \in attrs : e.id = id
  <2>1. PICK e \in attrs : e.id = id
    BY <1>2
  <2>2. id \in DOMAIN idToLayer' /\ idToLayer'[id] = layerOf[e]
    BY <1>1, <2>1 DEF LedTo
  <2>3. layerOf[e] \in dirty' /\ text'[layerOf[e]] = e.says
    BY <2>1 DEF LoadsEntries
  <2>4. Found(id)' = {layerOf[e]}
    BY <2>2, <2>3 DEF Found
  <2>5. {f \in attrs : f.id = id} = {e}
    BY <2>1 DEF Entries
  <2> QED BY <2>3, <2>4, <2>5
<1>3. CASE ~ \E e \in attrs : e.id = id
  <2>1. ASSUME NEW e \in attrs PROVE id # e.id /\ id # identifier[layerOf[e]]
    BY <1>3, <2>1 DEF LoadsEntries
  <2>2. id \notin DOMAIN idToLayer'
    BY <1>1, <2>1 DEF LedTo
  <2>3. Found(id)' = {}
    BY <2>2 DEF Found
  <2>4. {f \in attrs : f.id = id} = {}
    BY <1>3
  <2> QED BY <2>3, <2>4
<1> QED BY <1>2, <1>3

\* ... and a layer that has a file is back, with its text, and will be saved again.
LEMMA VisibleAgain ==
  ASSUME Identified, Entries(attrs), NEW layerOf, LoadsEntries(layerOf), DOMAIN idToLayer = {},
         NEW e \in attrs, ~e.anonymous
  PROVE  \E layer \in Visible' : identifier[layer] = e.id /\ text'[layer] = e.says
<1>1. PICK new : Kinded(new) /\ Become(new) /\ LedTo(new.toLayer, layerOf, attrs)
  BY DEF LoadsEntries
<1>2. e.id \in DOMAIN new.toLayer /\ new.toLayer[e.id] = layerOf[e]
  BY <1>1 DEF LedTo
<1>3. layerOf[e] \in DOMAIN layerToIds'
  BY <1>1, <1>2 DEF Become, Kinded, Good, Keyed
<1>4. layerOf[e] \in dirty' /\ text'[layerOf[e]] = e.says /\ identifier[layerOf[e]] = e.id
  BY DEF LoadsEntries
<1> QED BY <1>3, <1>4 DEF Visible

\* The last read of a scene that is opened is over: the attribute has all that the file
\* has, and each shape of the file its name.
LEMMA OpenedAsSaved ==
  ASSUME SceneInv, SavedInv, Opened, ~reads[1].early
  PROVE  /\ DOMAIN idToLayer = {} /\ DOMAIN layerToIds = {}
         /\ IF manager THEN attrs = file.entries /\ LoadAllLayers
            ELSE file.entries = {} /\ UNCHANGED <<idToLayer, layerToIds>>
         /\ \A p \in file.shapes : sessionName[p] = file.names[p]
         /\ UNCHANGED <<file, identifier, sessionName>>
<1>1. AsSaved
  BY DEF Opened, PostFileRead, SavedInv, OpenInv, Opening
<1>2. Last(reads) = reads[1]
  BY DEF Opened, Last
<1>3. reads[1].shapes = {} /\ reads[1].entries = {}
  BY <1>2 DEF Opened, PostFileRead
<1>4. OldDepth = 1
  <2>1. depth \in 0..Len(reads)
    BY DEF SceneInv, ReadsInv, IsSequence
  <2>2. depth = 0 \/ depth = 1
    BY <2>1 DEF Opened
  <2> QED BY <2>2 DEF OldDepth
<1>5. DOMAIN layerToIds = {}
  BY <1>1 DEF AsSaved
<1>6. DOMAIN idToLayer = {}
  BY <1>5 DEF SavedInv, StagesInv, Kinded, Good, Keyed, Current, Database
<1>7. IF manager THEN LoadAllLayers ELSE UNCHANGED <<layerToIds, idToLayer>>
  BY <1>4 DEF Opened, PostFileRead
<1>8. UNCHANGED <<file, identifier, sessionName>>
  BY DEF Opened, PostFileRead
<1> QED BY <1>1, <1>3, <1>5, <1>6, <1>7, <1>8 DEF AsSaved

\* A scene that is opened has the edits it was saved with: each layer that has a file, and
\* what each shape's session layer said, after any number of saves, reads and crashes.
THEOREM EditsReturn == SceneSpec => RoundTrip
<1>1. ASSUME SceneInv, SavedInv, Opened, ~reads[1].early
      PROVE  /\ \A p \in file.live \cap file.shapes : NameLeadsTo(p, file.found[p])
             /\ \A e \in file.entries : e.anonymous \/
                  \E layer \in Visible' : identifier[layer] = e.id /\ text'[layer] = e.says
  <2>1. /\ DOMAIN idToLayer = {} /\ DOMAIN layerToIds = {}
        /\ IF manager THEN attrs = file.entries /\ LoadAllLayers
           ELSE file.entries = {} /\ UNCHANGED <<idToLayer, layerToIds>>
        /\ \A p \in file.shapes : sessionName[p] = file.names[p]
        /\ UNCHANGED <<file, identifier, sessionName>>
    BY <1>1, OpenedAsSaved
  <2>2. /\ Entries(file.entries) /\ file.shapes \subseteq Proxies
        /\ \A p \in file.live :
             file.found[p] = {e.says : e \in {f \in file.entries : f.id = file.names[p]}}
    BY <1>1 DEF SavedInv, FileInv
  <2>3. CASE manager
    <3>1. attrs = file.entries /\ Entries(attrs)
      BY <2>1, <2>2, <2>3
    <3>2. PICK layerOf : LoadsEntries(layerOf)
      BY <1>1, <2>1, <2>3, LoadAllEffect DEF SavedInv, EntriesInv, SceneInv
    <3>3. ASSUME NEW p \in file.live \cap file.shapes PROVE NameLeadsTo(p, file.found[p])
      <4>1. sessionName'[p] = file.names[p] /\ p \in Proxies
        BY <2>1, <2>2, <3>3
      <4>2. file.found[p] = {e.says : e \in {f \in attrs : f.id = file.names[p]}}
        BY <2>2, <3>1, <3>3
      <4>3. CASE file.names[p] = NoId
        <5>1. SavedSession(p)' = {}
          BY <4>1, <4>3 DEF SavedSession
        <5>2. {f \in attrs : f.id = file.names[p]} = {}
          BY <3>1, <4>3, NoAssumption DEF Entries, TextEntry
        <5> QED BY <4>2, <5>1, <5>2 DEF NameLeadsTo
      <4>4. CASE file.names[p] # NoId
        <5>1. SavedSession(p)' = Found(file.names[p])'
          BY <2>1, <4>1, <4>4 DEF SavedSession, Found
        <5>2. file.names[p] \in Range(file.names)
          BY <1>1, <4>1 DEF SavedInv, NamesKept, SavedNames, Range
        <5>3. {text'[layer] : layer \in Found(file.names[p])'}
                = {e.says : e \in {f \in attrs : f.id = file.names[p]}}
          BY <2>1, <3>1, <3>2, <5>2, FoundAgain
        <5> QED BY <4>2, <5>1, <5>3 DEF NameLeadsTo
      <4> QED BY <4>3, <4>4
    <3>4. ASSUME NEW e \in file.entries, ~e.anonymous
          PROVE  \E layer \in Visible' : identifier[layer] = e.id /\ text'[layer] = e.says
      BY <1>1, <2>1, <3>1, <3>2, <3>4, VisibleAgain DEF SavedInv, StagesInv
    <3> QED BY <3>3, <3>4
  <2>4. CASE ~manager
    <3>1. file.entries = {} /\ DOMAIN idToLayer' = {}
      BY <2>1, <2>4
    <3>2. ASSUME NEW p \in file.live \cap file.shapes PROVE NameLeadsTo(p, file.found[p])
      <4>1. file.found[p] = {}
        BY <2>2, <3>1, <3>2
      <4>2. SavedSession(p)' = {}
        BY <3>1 DEF SavedSession, Found
      <4> QED BY <4>1, <4>2 DEF NameLeadsTo
    <3> QED BY <3>1, <3>2
  <2> QED BY <2>3, <2>4
<1>2. SceneInv /\ SavedInv /\ [SceneNext]_sceneVars
        => [Opened /\ ~reads[1].early =>
              /\ \A p \in file.live \cap file.shapes : NameLeadsTo(p, file.found[p])
              /\ \A e \in file.entries : e.anonymous \/
                   \E layer \in Visible' : identifier[layer] = e.id /\ text'[layer] = e.says]_sceneVars
  BY <1>1
<1> QED BY SceneInvariance, SavedInvariance, <1>2, PTL DEF SceneSpec, RoundTrip

=============================================================================
