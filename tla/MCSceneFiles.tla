--------------------------- MODULE MCSceneFiles ---------------------------
(* Small instances of SceneFiles for TLC.  As in MCLayerTracking, Ids is     *)
(* Layers and every layer is its own identifier.                             *)
EXTENDS SceneFiles

CONSTANTS p1, p2, a   \* proxies and a layer that has a file

MCUsed     == [p \in Proxies |-> IF p = p1 THEN {a} ELSE {}]
MCSymmetry == Permutations(SessionLayers)

\* No more than two stages to load and two layers with edits, no references in an
\* import; the stage of a referenced shape opens and is not edited.
MCBound ==
  /\ Len(unloaded) <= 2 /\ Cardinality(dirty) <= 2
  /\ Len(reads) = 2 => reads[1].kind = "open"
  /\ \A p \in Referenced : session[p] \notin dirty
  /\ pulling \/ reads # << >> \/ \A p \in Referenced \cap shapes : p \in Loaded

MCInit == SceneInit /\ identifier = [layer \in Layers |-> layer]
MCSpec == MCInit /\ [][SceneNext]_sceneVars
===========================================================================
