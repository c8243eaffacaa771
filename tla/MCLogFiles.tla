----------------------------- MODULE MCLogFiles -----------------------------
(* The model values the logfiles*.cfg files use.                           *)
EXTENDS LogFiles

CONSTANTS k1, k2
=============================================================================
