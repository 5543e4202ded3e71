------------------------------- MODULE MCHub -------------------------------
(***************************************************************************)
(* Small instances of Hub for TLC.                                         *)
(***************************************************************************)
EXTENDS HubProperties, TLC

\* What Hub.Clone's comment asks for: each goroutine has a hub of its own.
OwnHubs == {"context", "clone", "cloneWithBreadcrumbs"}

\* Goroutines are interchangeable.
Interchangeable == Permutations(Goroutines)
=============================================================================
