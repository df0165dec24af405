-------------------------- MODULE MCLayerTracking --------------------------
(* Small instances of LayerTracking for TLC.  Ids is Layers and every layer  *)
(* is its own identifier, so that SYMMETRY renames the two together.         *)
EXTENDS LayerTracking

CONSTANTS p1, p2, a, b   \* proxies and layers that files hold

MCShared   == (p1 :> {a}) @@ (p2 :> {a})
MCSymmetry == Permutations(SessionLayers)

MCInit == TrackInit /\ identifier = [layer \in Layers |-> layer]
MCSpec == MCInit /\ [][TrackNext]_trackVars
=============================================================================
