-------------------------- MODULE MCLayerCommands --------------------------
(* Small instances of LayerCommands for TLC.  As in MCLayerTracking, Ids is  *)
(* Layers and every layer is its own identifier.                             *)
EXTENDS LayerCommands

CONSTANTS p1, p2, a, b   \* proxies and their root layers

MCUsed     == [p \in Proxies |-> IF p = p1 THEN {a} ELSE {b}]
MCRoot     == [p \in Proxies |-> IF p = p1 THEN a ELSE b]
MCOpenable == [p \in Proxies |-> IF p = p1 THEN {a} ELSE {}]
MCSymmetry == Permutations(SessionLayers)

\* What follows an undo that was not sound is of no interest.  Commands are given
\* to one shape, whose stage is loaded, before there is another and before the scene
\* is saved, while the manager has few layers.
Bare == Commands = {} /\ \A p \in Proxies : sublayers[p] = {}

Alone ==
  /\ b \notin dirty \cup DOMAIN layerToIds
  /\ Cardinality(dirty) <= 1 /\ Cardinality(DOMAIN layerToIds) <= 2
  /\ \A p \in Proxies : /\ sessionName[p] = NoId
                        /\ p = p1 <=> session[p] # NoLayer
                        /\ p # p1 => prev[p] = NoLayer

MCBound ==
  /\ sound
  /\ Bare \/ Alone
  /\ a \notin sublayers[p1] /\ Cardinality(sublayers[p1]) <= 1

MCInit == CommandInit /\ identifier = [layer \in Layers |-> layer]
MCSpec == MCInit /\ [][CommandNext]_commandVars
============================================================================
