----------------------------- MODULE LayerMap -----------------------------
(***************************************************************************)
(* What LayerDatabase promises: a map from identifiers to layers.  A layer *)
(* is managed while some identifier is a key to it.                        *)
(*                                                                         *)
(*   source  plugin/al/lib/AL_USDMaya/AL/usdmaya/nodes/LayerManager.h      *)
(*           (the documentation of addLayer, removeLayer and findLayer)    *)
(***************************************************************************)
EXTENDS Functions, TLC

CONSTANTS Layers, Ids

VARIABLES
  keys,      \* identifier -> layer, for the identifiers that are keys
  managed,   \* the managed layers
  result     \* what the last addLayer or removeLayer returned

mapVars == <<keys, managed, result>>

MapInit == keys = << >> /\ managed = {} /\ result = FALSE

\* Every identifier in ids, one at least, becomes a key to the layer, whatever
\* it was a key to; a layer that has lost its last key is no longer managed.
Add(layer, ids) ==
  /\ ids # {}
  /\ keys' = [id \in DOMAIN keys \cup ids |-> IF id \in ids THEN layer ELSE keys[id]]
  /\ managed' = {keys'[id] : id \in DOMAIN keys'}
  /\ result' = (layer \notin managed)

\* A managed layer leaves with all its keys.
RemoveManaged(layer) ==
  /\ layer \in managed
  /\ keys' = Restrict(keys, {id \in DOMAIN keys : keys[id] # layer})
  /\ managed' = managed \ {layer}
  /\ result' = TRUE

RemoveOther(layer) ==
  /\ layer \notin managed
  /\ result' = FALSE
  /\ UNCHANGED <<keys, managed>>

MapNext ==
  \E layer \in Layers :
    \/ \E ids \in SUBSET Ids : Add(layer, ids)
    \/ RemoveManaged(layer)
    \/ RemoveOther(layer)

MapSpec == MapInit /\ [][MapNext]_mapVars

=============================================================================
