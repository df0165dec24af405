--------------------------- MODULE LayerDatabase ---------------------------
(***************************************************************************)
(* AL::usdmaya::nodes::LayerDatabase: the layers a LayerManager node keeps *)
(* until the Maya scene is saved, found by layer and by identifier.        *)
(*                                                                         *)
(*   source  plugin/al/lib/AL_USDMaya/AL/usdmaya/nodes/LayerManager.{h,cpp} *)
(*                                                                         *)
(* Two std::maps hold the same relation in the two directions and every    *)
(* operation has to change both.  The order of a layer's identifiers means *)
(* nothing, but the code counts and searches the vector, so it is one here. *)
(***************************************************************************)
EXTENDS Integers, Sequences, SequencesExt

CONSTANTS
  Layers,   \* SdfLayer objects
  Ids       \* layer identifiers

VARIABLES
  layerToIds,   \* m_layerToIds
  idToLayer,    \* m_idToLayer
  added,        \* what the last addLayer or removeLayer returned
  identifier,   \* SdfLayer::GetIdentifier of every layer (external)
  dirty         \* the layers with SdfLayer::IsDirty (external)

dbVars == <<layerToIds, idToLayer, added>>
vars   == <<dbVars, identifier, dirty>>

\* The layers by their identifiers' map: a record of the two maps, so that the
\* two calls of _addLayer in addLayer compose.
Database(toIds, toLayer) == [toIds |-> toIds, toLayer |-> toLayer]

TypeOK ==
  /\ DOMAIN layerToIds \subseteq Layers
  /\ layerToIds \in [DOMAIN layerToIds -> Seq(Ids)]
  /\ DOMAIN idToLayer \subseteq Ids
  /\ idToLayer \in [DOMAIN idToLayer -> Layers]
  /\ added \in BOOLEAN
  /\ identifier \in [Layers -> Ids]
  /\ dirty \subseteq Layers

-----------------------------------------------------------------------------
WithKey(f, k, v) == [x \in DOMAIN f \cup {k} |-> IF x = k THEN v ELSE f[x]]
WithoutKeys(f, K) == [x \in DOMAIN f \ K |-> f[x]]

Places(ids, id) == {i \in 1..Len(ids) : ids[i] = id}

\* Mutants: the test is `size() < 1`; nothing is taken from the old layer.
TakenFromLate(toIds, old, id) ==
  IF old \notin DOMAIN toIds THEN toIds
  ELSE IF Len(toIds[old]) < 1 THEN WithoutKeys(toIds, {old})
  ELSE WithKey(toIds, old, RemoveAt(toIds[old], Min(Places(toIds[old], id))))
TakenFromNothing(toIds, old, id) == toIds

\* An identifier leaves the layer it was a key to.  With one identifier left
\* the layer goes with it; otherwise its first occurrence is erased.
TakenFrom(toIds, old, id) ==
  IF old \notin DOMAIN toIds THEN toIds
  ELSE IF Len(toIds[old]) <= 1 THEN WithoutKeys(toIds, {old})
  ELSE IF Places(toIds[old], id) = {} THEN toIds
  ELSE WithKey(toIds, old, RemoveAt(toIds[old], Min(Places(toIds[old], id))))

\* _addLayer: the layer has an entry in db.toIds already.
AddKey(db, layer, id) ==
  IF id \in DOMAIN db.toLayer /\ db.toLayer[id] = layer THEN db
  ELSE LET toIds == IF id \in DOMAIN db.toLayer
                    THEN TakenFrom(db.toIds, db.toLayer[id], id)
                    ELSE db.toIds
       IN  Database(WithKey(toIds, layer, Append(toIds[layer], id)),
                    WithKey(db.toLayer, id, layer))

WithEntry(toIds, layer) ==
  IF layer \in DOMAIN toIds THEN toIds ELSE WithKey(toIds, layer, << >>)

AddCanonical(db, layer) ==
  AddKey(Database(WithEntry(db.toIds, layer), db.toLayer), layer, identifier[layer])

Current == Database(layerToIds, idToLayer)

Become(db) == layerToIds' = db.toIds /\ idToLayer' = db.toLayer

(***************************************************************************)
(* addLayer(layer, identifier): the canonical identifier always, another   *)
(* one if it is given.                                                     *)
(***************************************************************************)
AddLayer(layer) ==
  /\ Become(AddCanonical(Current, layer))
  /\ added' = (layer \notin DOMAIN layerToIds)
  /\ UNCHANGED <<identifier, dirty>>

AddLayerAs(layer, id) ==
  /\ id # identifier[layer]
  /\ Become(AddKey(AddCanonical(Current, layer), layer, id))
  /\ added' = (layer \notin DOMAIN layerToIds)
  /\ UNCHANGED <<identifier, dirty>>

\* Mutants: the identifiers keep an empty reference; they stay.
RemovedNulls(db, layer) ==
  Database(WithoutKeys(db.toIds, {layer}),
           [id \in DOMAIN db.toLayer |->
              IF db.toLayer[id] = layer THEN "null" ELSE db.toLayer[id]])
RemovedKeepsIds(db, layer) == Database(WithoutKeys(db.toIds, {layer}), db.toLayer)

(***************************************************************************)
(* removeLayer: all the identifiers of the layer, then the layer.          *)
(***************************************************************************)
Removed(db, layer) ==
  IF layer \notin DOMAIN db.toIds THEN db
  ELSE Database(WithoutKeys(db.toIds, {layer}),
                WithoutKeys(db.toLayer, ToSet(db.toIds[layer])))

RemoveLayer(layer) ==
  /\ Become(Removed(Current, layer))
  /\ added' = (layer \in DOMAIN layerToIds)
  /\ UNCHANGED <<identifier, dirty>>

\* findLayer: a layer that is not dirty is hidden.
Found(id) == {idToLayer[i] : i \in {id} \cap DOMAIN idToLayer} \cap dirty

\* begin() and ++ of the iterators: the managed layers that are dirty.
Visible == DOMAIN layerToIds \cap dirty

(***************************************************************************)
(* USD, outside the database: a layer takes an identifier no other layer   *)
(* has, a layer is edited, a layer is written out.                         *)
(***************************************************************************)
SetIdentifier(layer, id) ==
  /\ \A other \in Layers : identifier[other] # id
  /\ identifier' = [identifier EXCEPT ![layer] = id]
  /\ UNCHANGED <<dbVars, dirty>>

Edit(layer) ==
  /\ dirty' = dirty \cup {layer}
  /\ UNCHANGED <<dbVars, identifier>>

Clean(layer) ==
  /\ dirty' = dirty \ {layer}
  /\ UNCHANGED <<dbVars, identifier>>

Init ==
  /\ layerToIds = << >>
  /\ idToLayer = << >>
  /\ added = FALSE
  /\ identifier \in {f \in [Layers -> Ids] : \A l, m \in Layers : f[l] = f[m] => l = m}
  /\ dirty = {}

Next ==
  \E layer \in Layers :
    \/ AddLayer(layer)
    \/ RemoveLayer(layer)
    \/ Edit(layer)
    \/ Clean(layer)
    \/ \E id \in Ids : AddLayerAs(layer, id) \/ SetIdentifier(layer, id)

Spec == Init /\ [][Next]_vars

-----------------------------------------------------------------------------
\* The two maps hold the same relation, once: each identifier of a layer is a
\* key to it and is listed once, each key is listed by its layer, and no layer
\* is left without one.  It is what the asserts of _addLayer and removeLayer
\* take for granted ("should never happen", LayerManager.cpp:146-148, 207-211,
\* 229-233) and what the test `size() <= 1` needs.
Listed(toIds, toLayer) ==
  \A layer \in DOMAIN toIds :
    /\ \A i \in 1..Len(toIds[layer]) :
         /\ toIds[layer][i] \in DOMAIN toLayer
         /\ toLayer[toIds[layer][i]] = layer
    /\ \A i, j \in 1..Len(toIds[layer]) : toIds[layer][i] = toIds[layer][j] => i = j

Keyed(toIds, toLayer) ==
  \A id \in DOMAIN toLayer :
    /\ toLayer[id] \in DOMAIN toIds
    /\ Places(toIds[toLayer[id]], id) # {}

OneRelation ==
  /\ Listed(layerToIds, idToLayer)
  /\ Keyed(layerToIds, idToLayer)
  /\ \A layer \in DOMAIN layerToIds : layerToIds[layer] # << >>

\* A layer that findLayer returns is one the iteration visits, so that every
\* layer a stage can be given back is among those that are saved.
FoundIsVisible == \A id \in Ids : Found(id) \subseteq Visible

\* The database implements the map of its documentation.
Map == INSTANCE LayerMap
         WITH keys <- idToLayer, managed <- DOMAIN layerToIds, result <- added

ImplementsMap == Map!MapSpec

=============================================================================
