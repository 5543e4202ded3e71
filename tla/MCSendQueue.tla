---------------------------- MODULE MCSendQueue ----------------------------
(***************************************************************************)
(* Small instances of SendQueue for TLC.                                   *)
(***************************************************************************)
EXTENDS SendQueueProperties, TLC

CONSTANTS p1, p2, p3

\* An event, and two payloads of the other kinds.
MixedKinds == (p1 :> "event") @@ (p2 :> "log") @@ (p3 :> "transaction")

\* Payloads of the optional kinds, which start in enqueue.
LogsOnly == [p \in Payloads |-> "log"]

AllKinds == {"event", "log", "transaction"}

\* Calls of Close are interchangeable.
Swap == Permutations(Closers)
=============================================================================
