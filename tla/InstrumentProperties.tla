------------------------ MODULE InstrumentProperties ------------------------
(***************************************************************************)
(* What the integrations must satisfy.                                     *)
(***************************************************************************)
EXTENDS TraceProperties, Instrument

CallContexts == [span : Spans \cup {NoSpan}, hub : Clients \cup {"absent"}]

\* Every variable holds a value of its type.
CallsTypeOK ==
  /\ kind \in [Calls -> Kinds]
  /\ line \in [Calls -> Lines]
  /\ context \in [Calls -> CallContexts]
  /\ at \in [Calls -> 0 .. Len(Chain) + 1]
  /\ left \in [Calls -> [1 .. Len(Chain) -> Calls \cup {NoCall}]]
  /\ spanOf \in [Calls -> Spans \cup {NoSpan}]
  /\ outcome \in [Calls -> Outcomes]

Traced(c) == Tracing(c) /\ \E i \in DOMAIN Members(c) : OurMember(c, i)

\* The driver is done, and our member has had its turn.
Ended(c) ==
  \/ line[c] = "over"
  \/ line[c] = "ending" /\ \A i \in 1 .. at[c] : ~OurMember(c, i)

\* A traced call has a span of its own from before the driver goes to work until it
\* is done, whatever else runs with the same context; a call that ends leaves it
\* finished, and nobody else finishes it (tracer.go:90-118, hook.go:69-96).
OneSpanPerCall ==
  /\ \A c, d \in Calls : spanOf[c] = spanOf[d] /\ c # d => spanOf[c] = NoSpan
  /\ \A c \in Calls :
       /\ line[c] \in {"running", "over", "abandoned"} => (spanOf[c] # NoSpan <=> Traced(c))
       /\ spanOf[c] # NoSpan => (Finished(spanOf[c]) <=> Ended(c))

\* What a report says of a call's span is how that very call ended, however soon
\* after it the transaction does: a failure is never reported without its status
\* and its error, and a miss is no failure (tracer.go:133-145, hook.go:110-116).
ReportTellsOutcome ==
  \A r \in Spans : Reports(r) # <<>> =>
    \A c \in Calls :
      /\ \A m \in Reports(r)[1].spans : m.span = spanOf[c] =>
           /\ m.status = IF outcome[c] = "failed" THEN "internal_error" ELSE "unset"
           /\ m.data = (IF outcome[c] = "failed" THEN {"error"} ELSE {})
                         \cup (IF OfRedis(c) THEN {"command"} ELSE {})
      /\ r = spanOf[c] =>
           Reports(r)[1].status = IF outcome[c] = "failed" THEN "internal_error" ELSE "unset"

\* Each tracer of a chain finds at the end of a call what it left in the context at
\* its start, and not what an outer call left: "threading the context returned by one
\* into the next preserves all of them" (chain.go:15-18).
EndFindsItsStart ==
  \A c \in Calls : line[c] = "running" /\ ~OfRedis(c) =>
    \A i \in DOMAIN Chain :
      Hears(c, i) /\ (OurMember(c, i) => Tracing(c)) => left[c][i] = c
=============================================================================
