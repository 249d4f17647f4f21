--------------------------- MODULE MCJobDispatch ----------------------------
(* Instances of JobDispatch for TLC.                                       *)
EXTENDS JobDispatch, TLC

CONSTANTS j1, j2

BothHandled == (j1 :> "handled") @@ (j2 :> "handled")
HandledAndUnknown == (j1 :> "handled") @@ (j2 :> "unknown")
=============================================================================
