---------------------------- MODULE MCMetering ------------------------------
(* Instances of Metering for TLC.                                          *)
EXTENDS Metering

CONSTANTS s1, s2
=============================================================================
