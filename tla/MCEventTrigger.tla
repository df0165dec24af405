-------------------------- MODULE MCEventTrigger --------------------------
(* Small instances of EventTrigger for TLC. *)
EXTENDS EventTrigger

CONSTANT afterNew   \* the name of Maya's event
MCMayaNames == <<afterNew>>
MCParents   == {InvalidId}
MCOneType   == {USDMayaType}
MCZero      == {0}

\* No action reads due.
MCWithoutDue ==
  <<vars, [k \in 1..Len(loops) |-> [loops[k] EXCEPT !.due = {}]], crashed>>
=============================================================================
