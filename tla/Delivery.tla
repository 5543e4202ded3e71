------------------------------ MODULE Delivery ------------------------------
(***************************************************************************)
(* What the asynchronous half of the client promises its application,      *)
(* with the queue, the sender pool, the locks and the wait group left out: *)
(*                                                                         *)
(*   - a captured payload is withheld, lost (and counted), or accepted;    *)
(*   - an accepted payload is settled exactly once, that is, one delivery  *)
(*     attempt of it has ended;                                            *)
(*   - a Flush that returns before its timeout has seen the end of         *)
(*     everything that was accepted and unsettled when it was called;      *)
(*   - nothing is accepted once the client is shut, and nothing is left to *)
(*     settle once it has stopped.                                         *)
(*                                                                         *)
(* SendQueue implements this specification.                                *)
(***************************************************************************)
EXTENDS Naturals

CONSTANTS
  Payloads,    \* the events, log records and transactions handed to the SDK
  FlushCalls   \* the calls of Flush, those that Close makes included

VARIABLES
  outcome,     \* what has become of each payload
  lost,        \* how many payloads Dropped() reports
  phase,       \* "open", "shut" (Close took effect) or "stopped" (Close returned)
  flushing,    \* where each call of Flush stands
  owed         \* the payloads each call of Flush must see settled

vars == <<outcome, lost, phase, flushing, owed>>

Accepted == {p \in Payloads : outcome[p] = "accepted"}

Init ==
  /\ outcome = [p \in Payloads |-> "pending"]
  /\ lost = 0
  /\ phase = "open"
  /\ flushing = [f \in FlushCalls |-> "idle"]
  /\ owed = [f \in FlushCalls |-> {}]

Resolve(p, from, to) ==
  /\ outcome[p] = from
  /\ outcome' = [outcome EXCEPT ![p] = to]

Withhold(p) ==
  /\ Resolve(p, "pending", "withheld")
  /\ UNCHANGED <<lost, phase, flushing, owed>>

Accept(p) ==
  /\ phase = "open"
  /\ Resolve(p, "pending", "accepted")
  /\ UNCHANGED <<lost, phase, flushing, owed>>

Lose(p) ==
  /\ Resolve(p, "pending", "lost")
  /\ lost' = lost + 1
  /\ UNCHANGED <<phase, flushing, owed>>

Settle(p) ==
  /\ phase # "stopped"
  /\ Resolve(p, "accepted", "settled")
  /\ UNCHANGED <<lost, phase, flushing, owed>>

Shut ==
  /\ phase = "open"
  /\ phase' = "shut"
  /\ UNCHANGED <<outcome, lost, flushing, owed>>

Stop ==
  /\ phase = "shut"
  /\ Accepted = {}
  /\ phase' = "stopped"
  /\ UNCHANGED <<outcome, lost, flushing, owed>>

StartFlush(f) ==
  /\ flushing[f] = "idle"
  /\ flushing' = [flushing EXCEPT ![f] = "waiting"]
  /\ owed' = [owed EXCEPT ![f] = Accepted]
  /\ UNCHANGED <<outcome, lost, phase>>

EndFlush(f) ==
  /\ flushing[f] = "waiting"
  /\ owed[f] \cap Accepted = {}
  /\ flushing' = [flushing EXCEPT ![f] = "flushed"]
  /\ UNCHANGED <<outcome, lost, phase, owed>>

ExpireFlush(f) ==
  /\ flushing[f] = "waiting"
  /\ flushing' = [flushing EXCEPT ![f] = "timedout"]
  /\ UNCHANGED <<outcome, lost, phase, owed>>

Next ==
  \/ \E p \in Payloads : Withhold(p) \/ Accept(p) \/ Lose(p) \/ Settle(p)
  \/ Shut
  \/ Stop
  \/ \E f \in FlushCalls : StartFlush(f) \/ EndFlush(f) \/ ExpireFlush(f)

Spec == Init /\ [][Next]_vars
=============================================================================
