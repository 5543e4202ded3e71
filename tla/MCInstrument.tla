---------------------------- MODULE MCInstrument ----------------------------
(***************************************************************************)
(* A small instance of Instrument for TLC.                                 *)
(***************************************************************************)
EXTENDS InstrumentProperties, TLC

\* One call of any kind, and a query.
KindsByCall == <<Kinds, {"query"}>>

\* A member that knows no batches, and ours.
MixedChain == <<"queries", "tracer">>

\* The spans that start no trace are alike.
ChildrenAlike == Permutations(Spans \ Roots)

\* States that differ only in when spans started and ended are one to TLC: no guard
\* and no property of the run looks at a time but to see whether a span has finished.
TimelessPayload(p) ==
  [p EXCEPT !.duration = 0,
            !.spans = {[m EXCEPT !.offset = 0, !.duration = 0] : m \in @}]
Timeless(payloads) ==
  [s \in Spans |-> [i \in DOMAIN payloads[s] |-> TimelessPayload(payloads[s][i])]]
Untimed ==
  <<stage, parent, root, client, sampled, children, {s \in Spans : Finished(s)},
    noteVars, job, Timeless(outgoing), Timeless(sent), callVars>>
=============================================================================
