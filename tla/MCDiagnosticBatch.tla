------------------------- MODULE MCDiagnosticBatch -------------------------
(* Small instances of DiagnosticBatch for TLC.                               *)
EXTENDS DiagnosticBatch, TLC

CONSTANTS m1, m2, m3

MCKinds == (m1 :> "status") @@ (m2 :> "warning") @@ (m3 :> "error")
MCKind  == [m \in Messages |-> MCKinds[m]]
=============================================================================
