-------------------------- MODULE MCLayerDatabase --------------------------
(* A small instance of LayerDatabase for TLC. *)
EXTENDS LayerDatabase

MCSymmetry == Permutations(Layers) \cup Permutations(Ids)
=============================================================================
