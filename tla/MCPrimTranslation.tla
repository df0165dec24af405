------------------------- MODULE MCPrimTranslation -------------------------
(* Small instances of PrimTranslation for TLC: a prim, its child, and the    *)
(* unmerged shape of the child.                                              *)
EXTENDS PrimTranslation

CONSTANTS rig, arm, shape0, Camera, Mesh, Shader

MCChain ==
  (rig :> <<rig>>) @@ (arm :> <<arm, rig>>) @@ (shape0 :> <<shape0, arm, rig>>)

MCCompositions ==
  {s \in [Paths -> Types \cup {Plain, Absent}] :
     /\ \A p \in Paths : s[p] # Absent => \A q \in Up(p) : s[q] # Absent
     /\ s[rig] = Shader
     /\ s[arm] \in {Camera, Shader, Absent}
     /\ s[shape0] \in {Mesh, Absent}}
=============================================================================
