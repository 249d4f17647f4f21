----------------------------- MODULE MCArchive ------------------------------
(* An instance of Archive for TLC.                                         *)
EXTENDS Archive

CONSTANTS t1, t2, c1, c2
=============================================================================
