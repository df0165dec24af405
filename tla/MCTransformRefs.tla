-------------------------- MODULE MCTransformRefs --------------------------
(* Small instances of TransformRefs for TLC: a prim with two children.       *)
EXTENDS TransformRefs

CONSTANTS top, left, right

MCChain == (top :> <<top>>) @@ (left :> <<left, top>>) @@ (right :> <<right, top>>)

\* What follows a command that was not sound is of no interest.
MCSound == sound
=============================================================================
