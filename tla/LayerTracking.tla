--------------------------- MODULE LayerTracking ---------------------------
(***************************************************************************)
(* How the ProxyShapes keep the LayerDatabase up to date, so that saving   *)
(* the Maya scene saves what was edited in USD.                            *)
(*                                                                         *)
(*   source  plugin/al/lib/AL_USDMaya/AL/usdmaya/nodes/ProxyShape.cpp      *)
(*           (loadStage, onEditTargetChanged, trackEditTargetLayer,        *)
(*           serialize, serializeAll)                                      *)
(*                                                                         *)
(* A stage has one edit target, which takes all the edits.  USD announces  *)
(* a new one synchronously, so that tracking is part of setting it.  The   *)
(* identifiers stay as they are here and the manager node, once needed,    *)
(* exists; the callers ignore what addLayer and removeLayer return.        *)
(***************************************************************************)
EXTENDS LayerDatabase

CONSTANTS
  Proxies,        \* ProxyShape nodes
  SessionLayers,  \* anonymous layers made as session layers
  Used,           \* the other layers of the stage of each proxy
  NoLayer,        \* an SdfLayerHandle that is null or has expired
  NoId            \* an empty sessionLayerName

ASSUME SessionAssumption == SessionLayers \subseteq Layers
ASSUME UsedAssumption    == Used \in [Proxies -> SUBSET (Layers \ SessionLayers)]
ASSUME NoAssumption      == NoLayer \notin Layers /\ NoId \notin Ids
ASSUME FiniteAssumption  == IsFiniteSet(Proxies) /\ IsFiniteSet(Layers)

VARIABLES
  session,      \* the session layer of m_stage, NoLayer without a stage
  target,       \* the layer of the stage's edit target, NoLayer without one
  prev,         \* m_prevEditTarget
  sessionName   \* the sessionLayerName attribute

trackVars == <<vars, session, target, prev, sessionName>>

Loaded == {p \in Proxies : session[p] # NoLayer}

TrackTypeOK ==
  /\ TypeOK
  /\ session \in [Proxies -> SessionLayers \cup {NoLayer}]
  /\ target \in [Proxies -> Layers \cup {NoLayer}]
  /\ prev \in [Proxies -> Layers \cup {NoLayer}]
  /\ sessionName \in [Proxies -> Ids \cup {NoId}]

-----------------------------------------------------------------------------
\* Mutant: the new edit target is not added.
TrackedNotAdded(db, old, new) ==
  IF old = new \/ old \in dirty THEN db ELSE Removed(db, old)

\* trackEditTargetLayer: a new edit target is added; the old one, unless it
\* has been edited, is taken off.
Tracked(db, old, new) ==
  IF old = new THEN db
  ELSE AddCanonical(IF old \in dirty THEN db ELSE Removed(db, old), new)

(***************************************************************************)
(* loadStage: the old stage is tracked once more; the new one opens on the *)
(* session layer that was saved, if the manager finds it, on a new one if  *)
(* not, and edits it.  A file that does not open leaves no stage.  A new   *)
(* anonymous layer has an identifier that nothing refers to.               *)
(*                                                                         *)
(* The new stage is tracked at once if getUsdStage gives it.  Maya may not *)
(* have computed outStageData anew, or be computing it right now; then it  *)
(* gives the old stage or none, and tracking is left for later.            *)
(***************************************************************************)
Fresh ==
  {layer \in SessionLayers \ (DOMAIN layerToIds \cup dirty \cup Range(session)
                                                        \cup Range(prev)) :
     identifier[layer] \notin Range(sessionName)}

SavedSession(p) == IF sessionName[p] = NoId THEN {} ELSE Found(sessionName[p])

\* Mutant: the old session layer goes with the old stage.
AfterOldStageDropped(p) == Removed(Current, session[p])

AfterOldStage(p) ==
  IF p \in Loaded THEN Tracked(Current, prev[p], target[p]) ELSE Current

LastTracked(p) == IF p \in Loaded THEN target[p] ELSE prev[p]

LoadStage(p) ==
  /\ \E layer \in (IF SavedSession(p) # {} THEN SavedSession(p) ELSE Fresh) :
       /\ session' = [session EXCEPT ![p] = layer]
       /\ target' = [target EXCEPT ![p] = layer]
       /\ \/ /\ Become(Tracked(AfterOldStage(p), LastTracked(p), layer))
             /\ prev' = [prev EXCEPT ![p] = layer]
          \/ /\ Become(AfterOldStage(p))
             /\ prev' = [prev EXCEPT ![p] = LastTracked(p)]
  /\ UNCHANGED <<added, identifier, dirty, sessionName>>

LoadFails(p) ==
  /\ Become(AfterOldStage(p))
  /\ session' = [session EXCEPT ![p] = NoLayer]
  /\ target' = [target EXCEPT ![p] = NoLayer]
  /\ prev' = [prev EXCEPT ![p] = LastTracked(p)]
  /\ UNCHANGED <<added, identifier, dirty, sessionName>>

(***************************************************************************)
(* UsdStage::SetEditTarget, with onEditTargetChanged.                      *)
(***************************************************************************)
TargetChanged(p, layer) ==
  /\ Become(Tracked(Current, prev[p], layer))
  /\ target' = [target EXCEPT ![p] = layer]
  /\ prev' = [prev EXCEPT ![p] = layer]
  /\ UNCHANGED <<added, identifier, dirty, session, sessionName>>

\* A layer that is the target already is not announced.
SetEditTarget(p, layer) ==
  /\ p \in Loaded
  /\ layer \in (Used[p] \cup {session[p]}) \ {target[p]}
  /\ TargetChanged(p, layer)

\* An edit through the stage of p; a layer saved or reloaded.
EditStage(p) ==
  /\ p \in Loaded
  /\ Edit(target[p])
  /\ UNCHANGED <<session, target, prev, sessionName>>

CleanLayer(layer) ==
  /\ Clean(layer)
  /\ UNCHANGED <<session, target, prev, sessionName>>

(***************************************************************************)
(* serializeAll before the scene is saved: each stage adds its session     *)
(* layer and tracks its edit target; then what the iterators of the        *)
(* database visit is written.                                              *)
(***************************************************************************)
Serialized(p, db) ==
  Tracked(AddCanonical(db, session[p]), prev[p], target[p])

SerializeAll ==
  /\ Become(FoldSet(Serialized, Current, Loaded))
  /\ prev' = [p \in Proxies |-> LastTracked(p)]
  /\ sessionName' = [p \in Proxies |->
       IF p \in Loaded THEN identifier[session[p]] ELSE sessionName[p]]
  /\ UNCHANGED <<added, identifier, dirty, session, target>>

\* The destructor leaves the database as it is.
DestroyProxy(p) ==
  /\ session' = [session EXCEPT ![p] = NoLayer]
  /\ target' = [target EXCEPT ![p] = NoLayer]
  /\ prev' = [prev EXCEPT ![p] = NoLayer]
  /\ sessionName' = [sessionName EXCEPT ![p] = NoId]
  /\ UNCHANGED vars

TrackInit ==
  /\ Init
  /\ session = [p \in Proxies |-> NoLayer]
  /\ target = [p \in Proxies |-> NoLayer]
  /\ prev = [p \in Proxies |-> NoLayer]
  /\ sessionName = [p \in Proxies |-> NoId]

TrackNext ==
  \/ \E p \in Proxies :
       \/ LoadStage(p)
       \/ LoadFails(p)
       \/ \E layer \in Layers : SetEditTarget(p, layer)
       \/ EditStage(p)
       \/ DestroyProxy(p)
  \/ \E layer \in Layers : CleanLayer(layer)
  \/ SerializeAll

TrackSpec == TrackInit /\ [][TrackNext]_trackVars

-----------------------------------------------------------------------------
\* "we want to guarantee we always have all the latest items" (LayerManager.h:
\* 132-134): saving the scene writes every layer with edits that has a file or is
\* the session layer of a stage, whatever was edited through whichever stage,
\* reloaded, retargeted or lost since the last save.  Two stages with a layer in
\* common break it.
SavesEdits ==
  [][SerializeAll => dirty \ (SessionLayers \ Range(session)) \subseteq Visible']_trackVars

\* While the session layer that a save named for a proxy has edits, each stage
\* the proxy loads, after a reload or a load that failed, opens on that layer
\* (ProxyShape.cpp:951-954, 1329-1340).
SessionKept ==
  [][\A p \in Proxies : \A layer \in dirty :
       /\ sessionName[p] = identifier[layer]
       /\ session'[p] \notin {session[p], NoLayer}
       => session'[p] = layer]_trackVars

=============================================================================
