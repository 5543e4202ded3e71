----------------------------- MODULE MCRequest -----------------------------
(***************************************************************************)
(* Small instances of Request for TLC.                                     *)
(***************************************************************************)
EXTENDS RequestProperties, TLC
=============================================================================
