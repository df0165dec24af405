------------------------- MODULE MCEventScheduler -------------------------
(* Small instances of EventScheduler for TLC. *)
EXTENDS EventScheduler

CONSTANT afterNew   \* the name of Maya's event
MCMayaNames  == <<afterNew>>
MCParents    == {InvalidId}
MCOneType    == {UserType}
MCZeroOne    == {0, 1}
MCZero       == {0}
MCTagSymmetry == Permutations(Tags)
=============================================================================
