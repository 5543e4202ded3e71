-------------------------- MODULE TraceProperties --------------------------
(***************************************************************************)
(* What Trace must satisfy.                                                *)
(***************************************************************************)
EXTENDS Trace

SpanPayloads ==
  [span : Spans, parent : Spans, status : AllStatuses, tags : SUBSET Marks,
   data : SUBSET AllData, offset : Int, duration : Int]

Payloads ==
  [status : AllStatuses, tags : SUBSET Marks, duration : Int,
   spans : SUBSET SpanPayloads]

\* Every variable holds a value of its type; a root's payloads are well-formed
\* (transaction.go:33-65).
TypeOK ==
  /\ stage \in [Spans -> {"none", "building", "live"}]
  /\ parent \in [Spans -> Spans \cup {NoSpan}]
  /\ root \in [Spans -> Spans \cup {NoSpan}]
  /\ client \in [Spans -> Clients]
  /\ sampled \in [Spans -> BOOLEAN]
  /\ children \in [Spans -> SUBSET Spans]
  /\ start \in [Spans -> Nat]
  /\ end \in [Spans -> Nat]
  /\ status \in [Spans -> AllStatuses]
  /\ tags \in [Spans -> SUBSET Marks]
  /\ data \in [Spans -> SUBSET AllData]
  /\ job \in [Spans -> JobSteps]
  /\ clock \in Nat
  /\ outgoing \in [Spans -> Seq(Payloads)]
  /\ sent \in [Spans -> Seq(Payloads)]

\* All that has been built for the root r, sent or about to be.
Reports(r) == sent[r] \o outgoing[r]

-----------------------------------------------------------------------------
\* A finished root reports exactly once if it has a client and its trace is
\* sampled, as every trace is at a rate of one and none at zero; nothing else ever
\* reports.  Finish is idempotent whoever calls it and how often
\* (span.go:785-792, 936-963).
ReportedOnce ==
  \A s \in Spans :
    /\ Len(Reports(s)) <= 1
    /\ Reports(s) # <<>> =>
         IsRoot(s) /\ Finished(s) /\ sampled[s] /\ client[s] \in {"some", "all"}
    /\ IsRoot(s) /\ Finished(s) /\ (sampled[s] \/ client[s] = "all") =>
         Reports(s) # <<>>

\* A report holds every descendant that had finished before the transaction did,
\* and no other: a span whose Finish or whose registration lost the race is left
\* out whole (span.go:922-932, transaction.go:100-107).
ReportIsExact ==
  \A r \in Spans : Reports(r) # <<>> =>
    {m.span : m \in Reports(r)[1].spans} =
      {s \in Spans \ {r} : root[s] = r /\ Finished(s) /\ end[s] < end[r]}

\* What a report of the root r names as the parent of one of its spans: the root, a
\* span that the report holds too and that started earlier, or a descendant that had
\* not finished when the transaction did, which the report does not hold
\* (transaction.go:100-107).
LinksUp(r, m) ==
  \/ m.parent = r
  \/ \E q \in Reports(r)[1].spans : q.span = m.parent /\ q.offset < m.offset
  \/ /\ m.parent \in Spans \ {r}
     /\ Live(m.parent) /\ root[m.parent] = r
     /\ ~Finished(m.parent) \/ end[m.parent] > end[r]

\* Every span of a report lies within the transaction's own time; and from parent to
\* parent it leads up to the root, or to a span that was still open when the
\* transaction finished, never in a circle and never into another trace
\* (span.go:806-840, transaction.go:60-62, 100-115).
WaterfallFits ==
  \A r \in Spans : Reports(r) # <<>> =>
    \A m \in Reports(r)[1].spans :
      /\ 0 <= m.offset
      /\ m.offset + m.duration <= Reports(r)[1].duration
      /\ LinksUp(r, m)

\* Once a span has finished, its end and its report stay what they are.
FinishIsFinal ==
  [][\A s \in Spans : Finished(s) => end'[s] = end[s] /\ Reports(s)' = Reports(s)]_vars

\* What a root's Finish has built is eventually handed to the queue, and so is the
\* transaction of a sampled job once FinishJob has begun (span.go:960-962,
\* job.go:41-50).
ReportIsSent ==
  \A r \in Spans :
    \/ outgoing[r] # <<>>
    \/ sampled[r] /\ job[r] \in {"status", "data", "finish"}
    ~> sent[r] # <<>>
=============================================================================
