------------------------------ MODULE MCTrace ------------------------------
(***************************************************************************)
(* A small instance of Trace for TLC.                                      *)
(***************************************************************************)
EXTENDS TraceProperties

\* Options.TracesSampleRate at its two ends and in between.
EveryRate == {"none", "some", "all"}
=============================================================================
