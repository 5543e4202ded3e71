---------------------------- MODULE TraceProofs ----------------------------
(***************************************************************************)
(* Proofs about Trace, for any number of spans and any annotations.        *)
(***************************************************************************)
EXTENDS TraceProperties, SequenceTheorems, TLAPS

\* A span is the root of its trace, or hangs below one that is live; a root's
\* children are exactly the published descendants.
Tree ==
  /\ \A s \in Spans : stage[s] = "none" => end[s] = 0 /\ job[s] = "none"
  /\ \A s \in Spans : stage[s] # "none" =>
       /\ root[s] \in Spans
       /\ stage[root[s]] = "live"
       /\ root[root[s]] = root[s]
       /\ root[s] # s => parent[s] \in Spans
  /\ \A s \in Spans : stage[s] = "building" => root[s] # s /\ end[s] = 0
  /\ \A r, s \in Spans :
       s \in children[r] <=> stage[s] = "live" /\ root[s] = r /\ s # r
  /\ \A s \in Spans : job[s] # "none" => root[s] = s

\* Starts and finishes are events of one clock, and a span starts after its root.
Timing ==
  /\ \A s \in Spans : stage[s] # "none" =>
       /\ start[s] \in 1 .. clock
       /\ start[root[s]] <= start[s]
  /\ \A s \in Spans : end[s] # 0 =>
       stage[s] = "live" /\ start[s] < end[s] /\ end[s] <= clock
  /\ \A s, t \in Spans : end[s] = end[t] /\ end[s] # 0 => s = t

\* A span starts as the root of a trace or below another one.
LEMMA StartCases ==
  ASSUME NEW s \in Spans, Start(s)
  PROVE  \/ \E c \in Clients :
              /\ StartRoot(s, c)
              /\ UNCHANGED job \/ job' = [job EXCEPT ![s] = "running"]
         \/ \E p \in Spans : BuildChild(s, p)
  <1>1. ASSUME NEW rate \in Rates, StartJob(s, rate)
        PROVE  \E c \in Clients : StartRoot(s, c) /\ job' = [job EXCEPT ![s] = "running"]
    <2>1. rate \in Clients
      BY DEF Clients
    <2> QED
      BY <1>1, <2>1 DEF StartJob
  <1> QED
    BY <1>1 DEF Start, StartTransaction

LEMMA TypeInit == Init => TypeOK
  <1> SUFFICES ASSUME Init PROVE TypeOK
    OBVIOUS
  <1>1. /\ outgoing \in [Spans -> Seq(Payloads)]
        /\ sent \in [Spans -> Seq(Payloads)]
    BY DEF Init
  <1>2. /\ status \in [Spans -> AllStatuses]
        /\ tags \in [Spans -> SUBSET Marks]
        /\ data \in [Spans -> SUBSET AllData]
        /\ job \in [Spans -> JobSteps]
    BY DEF Init, AllStatuses, AllData, JobSteps
  <1>3. client \in [Spans -> Clients]
    BY DEF Init, Clients
  <1> QED
    BY <1>1, <1>2, <1>3 DEF Init, TypeOK

LEMMA PayloadType ==
  ASSUME TypeOK, Tree, NEW r \in Spans, root[r] = r, NEW at \in Nat
  PROVE  Payload(r, at) \in Payloads
  <1> USE DEF TypeOK
  <1>1. ASSUME NEW c \in Included(r) PROVE SpanPayload(r, c) \in SpanPayloads
    <2>1. c \in Spans /\ parent[c] \in Spans
      BY <1>1 DEF Included, Tree
    <2> QED
      BY <2>1 DEF SpanPayload, SpanPayloads
  <1>2. {SpanPayload(r, c) : c \in Included(r)} \subseteq SpanPayloads
    BY <1>1
  <1> QED
    BY <1>2 DEF Payload, Payloads

LEMMA FinishType ==
  ASSUME TypeOK, Tree, NEW s \in Spans, Finish(s)
  PROVE  /\ end' \in [Spans -> Nat]
         /\ clock' \in Nat
         /\ outgoing' \in [Spans -> Seq(Payloads)]
  <1>1. clock' \in Nat /\ end' \in [Spans -> Nat]
    BY DEF TypeOK, Finish, Tick
  <1>2. CASE root[s] = s /\ sampled[s] /\ client[s] # "nil"
    <2>1. <<Payload(s, clock')>> \in Seq(Payloads)
      BY <1>1, <1>2, PayloadType
    <2> QED
      BY <1>1, <1>2, <2>1 DEF TypeOK, Finish
  <1>3. CASE ~(root[s] = s /\ sampled[s] /\ client[s] # "nil")
    BY <1>1, <1>3 DEF TypeOK, Finish
  <1> QED
    BY <1>2, <1>3

LEMMA TypeStep == TypeOK /\ Tree /\ [Next]_vars => TypeOK'
  <1> SUFFICES ASSUME TypeOK, Tree, [Next]_vars PROVE TypeOK'
    OBVIOUS
  <1> USE DEF treeVars, noteVars
  <1>0. CASE UNCHANGED vars
    BY <1>0 DEF vars, TypeOK
  <1> SUFFICES ASSUME NEW s \in Spans,
                      \/ Start(s) \/ Register(s) \/ Note(s) \/ FinishSpan(s)
                      \/ FailJob(s) \/ CompleteJob(s) \/ JobStep(s) \/ Send(s)
               PROVE  TypeOK'
    BY <1>0 DEF Next
  <1>1. ASSUME NEW c \in Clients, StartRoot(s, c),
               job' \in [Spans -> JobSteps]
        PROVE  TypeOK'
    <2>1. sampled' \in [Spans -> BOOLEAN]
      <3>1. PICK roll \in Roll(c) :
              sampled' = [sampled EXCEPT ![s] = roll]
        BY <1>1 DEF StartRoot
      <3>2. roll \in BOOLEAN
        BY TraceAssumption DEF Roll, TraceAssumption
      <3> QED
        BY <3>1, <3>2 DEF TypeOK
    <2> QED
      BY <1>1, <2>1 DEF StartRoot, Tick, TypeOK
  <1>2. ASSUME NEW c \in Clients, StartRoot(s, c),
               UNCHANGED job \/ job' = [job EXCEPT ![s] = "running"]
        PROVE  TypeOK'
    <2>1. job' \in [Spans -> JobSteps]
      BY <1>2 DEF TypeOK, JobSteps
    <2> QED
      BY <1>1, <1>2, <2>1
  <1>4. ASSUME NEW p \in Spans, BuildChild(s, p) PROVE TypeOK'
    BY <1>4 DEF BuildChild, Tick, TypeOK
  <1>5. ASSUME Register(s) PROVE TypeOK'
    BY <1>5 DEF Register, TypeOK
  <1>6. ASSUME NEW mark \in Marks, SetTag(s, mark) \/ SetData(s, mark)
        PROVE  TypeOK'
    <2>1. CASE SetTag(s, mark)
      BY <2>1 DEF SetTag, TypeOK
    <2>2. CASE SetData(s, mark)
      BY <2>2 DEF SetData, TypeOK, AllData
    <2> QED
      BY <1>6, <2>1, <2>2
  <1>7. ASSUME NEW value \in Statuses, SetStatus(s, value) \/ SetHTTPStatus(s, value)
        PROVE  TypeOK'
    <2>1. CASE SetStatus(s, value)
      BY <2>1 DEF SetStatus, TypeOK, AllStatuses
    <2>2. CASE SetHTTPStatus(s, value)
      BY <2>2 DEF SetHTTPStatus, TypeOK, AllStatuses, AllData
    <2> QED
      BY <1>7, <2>1, <2>2
  <1>8. ASSUME Finish(s), job' \in [Spans -> JobSteps] PROVE TypeOK'
    BY <1>8, FinishType DEF Finish, TypeOK
  <1>9. ASSUME FinishSpan(s) \/ FinishJob(s) PROVE TypeOK'
    <2>1. job' \in [Spans -> JobSteps]
      BY <1>9 DEF FinishSpan, FinishJob, TypeOK, JobSteps
    <2>2. CASE Finish(s)
      BY <1>8, <2>1, <2>2
    <2>3. CASE UNCHANGED <<treeVars, noteVars, end, outgoing, sent, clock>>
      BY <2>1, <2>3 DEF TypeOK
    <2> QED
      BY <1>9, <2>2, <2>3 DEF FinishSpan, FinishJob
  <1>10. ASSUME FailJob(s) \/ CompleteJob(s) PROVE TypeOK'
    BY <1>10 DEF FailJob, CompleteJob, TypeOK, JobSteps
  <1>11. ASSUME SetJobStatus(s) PROVE TypeOK'
    BY <1>11, TraceAssumption
       DEF SetJobStatus, TypeOK, JobSteps, AllStatuses, TraceAssumption
  <1>12. ASSUME SetJobError(s) PROVE TypeOK'
    BY <1>12 DEF SetJobError, TypeOK, JobSteps, AllData
  <1>13. ASSUME Send(s) PROVE TypeOK'
    <2>1. /\ Head(outgoing[s]) \in Payloads
          /\ Tail(outgoing[s]) \in Seq(Payloads)
          /\ sent[s] \in Seq(Payloads)
      BY <1>13 DEF Send, TypeOK
    <2>2. Append(sent[s], Head(outgoing[s])) \in Seq(Payloads)
      BY <2>1
    <2> QED
      BY <1>13, <2>1, <2>2 DEF Send, TypeOK
  <1> QED
    BY <1>2, <1>4, <1>5, <1>6, <1>7, <1>9, <1>10, <1>11, <1>12, <1>13, StartCases
       DEF Note, JobStep

LEMMA TreeTimingInit == Init => Tree /\ Timing
  BY TraceAssumption DEF Init, Tree, Timing, TraceAssumption

LEMMA TreeTimingStep ==
  TypeOK /\ Tree /\ Timing /\ [Next]_vars => Tree' /\ Timing'
  <1> SUFFICES ASSUME TypeOK, Tree, Timing, [Next]_vars PROVE Tree' /\ Timing'
    OBVIOUS
  <1> USE DEF treeVars, noteVars
  <1>0. CASE UNCHANGED vars
    BY <1>0 DEF vars, Tree, Timing
  <1> SUFFICES ASSUME NEW s \in Spans,
                      \/ Start(s) \/ Register(s) \/ Note(s) \/ FinishSpan(s)
                      \/ FailJob(s) \/ CompleteJob(s) \/ JobStep(s) \/ Send(s)
               PROVE  Tree' /\ Timing'
    BY <1>0 DEF Next
  <1>1. ASSUME NEW c \in Clients, StartRoot(s, c),
               UNCHANGED job \/ job' = [job EXCEPT ![s] = "running"]
        PROVE  Tree' /\ Timing'
    <2>1. \A t \in Spans : stage[t] # "none" => t # s /\ root[t] # s
      BY <1>1 DEF StartRoot, Tree
    <2>2. Tree'
      BY <1>1, <2>1 DEF StartRoot, Tree, TypeOK
    <2>3. Timing'
      BY <1>1, <2>1 DEF StartRoot, Tick, Tree, Timing, TypeOK
    <2> QED
      BY <2>2, <2>3
  <1>2. ASSUME NEW p \in Spans, BuildChild(s, p) PROVE Tree' /\ Timing'
    <2>1. \A t \in Spans : stage[t] # "none" => t # s /\ root[t] # s
      BY <1>2 DEF BuildChild, Tree
    <2>2. p # s /\ stage[p] = "live" /\ root[p] # s
      BY <1>2, <2>1 DEF BuildChild, Live
    <2>3. /\ stage'[s] = "building" /\ root'[s] = root[p] /\ parent'[s] = p
          /\ UNCHANGED <<end, job, children>>
          /\ \A t \in Spans \ {s} : /\ stage'[t] = stage[t]
                                   /\ root'[t] = root[t]
                                   /\ parent'[t] = parent[t]
      BY <1>2 DEF BuildChild, TypeOK
    <2>4. root[p] \in Spans /\ root[p] # s /\ stage[root[p]] = "live"
          /\ root[root[p]] = root[p]
      BY <2>2 DEF Tree
    <2>5. stage[s] = "none" /\ end[s] = 0 /\ job[s] = "none"
      BY <1>2 DEF BuildChild, Tree
    <2>6. \A t \in Spans : stage'[t] # "none" =>
            /\ root'[t] \in Spans
            /\ stage'[root'[t]] = "live"
            /\ root'[root'[t]] = root'[t]
            /\ root'[t] # t => parent'[t] \in Spans
      BY <2>1, <2>3, <2>4 DEF Tree
    <2>7. \A r, t \in Spans :
            t \in children'[r] <=> stage'[t] = "live" /\ root'[t] = r /\ t # r
      BY <2>3, <2>5 DEF Tree
    <2>8. Tree'
      BY <2>3, <2>4, <2>5, <2>6, <2>7 DEF Tree
    <2>9. Timing'
      BY <1>2, <2>1, <2>2 DEF BuildChild, Tick, Tree, Timing, TypeOK
    <2> QED
      BY <2>8, <2>9
  <1>3. ASSUME Register(s) PROVE Tree' /\ Timing'
    <2>1. root[s] \in Spans /\ root[s] # s
      BY <1>3 DEF Register, Tree
    <2>2. Tree'
      BY <1>3, <2>1 DEF Register, Tree, TypeOK
    <2>3. Timing'
      BY <1>3 DEF Register, Timing, TypeOK
    <2> QED
      BY <2>2, <2>3
  <1>4. ASSUME Note(s) PROVE Tree' /\ Timing'
    <2>1. UNCHANGED <<stage, parent, root, children, start, end, job, clock>>
      BY <1>4 DEF Note, SetTag, SetData, SetStatus, SetHTTPStatus
    <2> QED
      BY <2>1 DEF Tree, Timing
  <1>5. ASSUME Finish(s),
               \A t \in Spans : job'[t] = job[t] \/ job[t] # "none"
        PROVE  Tree' /\ Timing'
    <2>1. Tree'
      BY <1>5 DEF Finish, Live, Tree, TypeOK
    <2>2. Timing'
      <3>1. end'[s] = clock + 1 /\ clock' = clock + 1
        BY <1>5 DEF Finish, Tick, TypeOK
      <3>2. \A t \in Spans \ {s} : end'[t] = end[t]
        BY <1>5 DEF Finish, TypeOK
      <3>3. UNCHANGED <<stage, root, start>> /\ stage[s] = "live" /\ end[s] = 0
        BY <1>5 DEF Finish, Finished, Live
      <3>4. \A t \in Spans : stage[t] # "none" =>
              start[t] \in 1 .. clock' /\ start[root[t]] <= start[t]
        BY <3>1 DEF Timing, TypeOK
      <3>0. \A t \in Spans : /\ clock \in Nat /\ start[t] \in Nat /\ end[t] \in Nat
                             /\ stage[t] # "none" => start[t] <= clock
                             /\ end[t] # 0 => /\ stage[t] = "live"
                                             /\ start[t] < end[t]
                                             /\ end[t] <= clock
        BY DEF Timing, TypeOK
      <3>5. \A t \in Spans : end'[t] # 0 =>
              stage[t] = "live" /\ start[t] < end'[t] /\ end'[t] <= clock'
        <4>1. ASSUME NEW t \in Spans \ {s}, end'[t] # 0
              PROVE  stage[t] = "live" /\ start[t] < end'[t] /\ end'[t] <= clock'
          BY <3>0, <3>1, <3>2, <4>1
        <4>2. start[s] < end'[s] /\ end'[s] <= clock'
          BY <3>0, <3>1, <3>3
        <4> QED
          BY <3>3, <4>1, <4>2
      <3>6. \A t, u \in Spans : end'[t] = end'[u] /\ end'[t] # 0 => t = u
        <4>1. \A t \in Spans \ {s} : end'[t] # end'[s]
          BY <3>0, <3>1, <3>2
        <4> QED
          BY <3>2, <4>1 DEF Timing
      <3> QED
        BY <3>3, <3>4, <3>5, <3>6 DEF Timing
    <2> QED
      BY <2>1, <2>2
  <1>6. ASSUME UNCHANGED <<treeVars, end, clock>>,
               \A t \in Spans : job'[t] = job[t] \/ job[t] # "none"
        PROVE  Tree' /\ Timing'
    <2>1. Tree'
      BY <1>6 DEF Tree
    <2>2. Timing'
      BY <1>6 DEF Timing
    <2> QED
      BY <2>1, <2>2
  <1>7. ASSUME FinishSpan(s) \/ FinishJob(s) PROVE Tree' /\ Timing'
    <2>1. \A t \in Spans : job'[t] = job[t] \/ job[t] # "none"
      BY <1>7 DEF FinishSpan, FinishJob, TypeOK
    <2> QED
      BY <1>5, <1>6, <1>7, <2>1 DEF FinishSpan, FinishJob
  <1>8. ASSUME \/ FailJob(s) \/ CompleteJob(s) \/ SetJobStatus(s) \/ SetJobError(s)
               \/ Send(s)
        PROVE  Tree' /\ Timing'
    <2>1. UNCHANGED <<treeVars, end, clock>>
      BY <1>8 DEF FailJob, CompleteJob, SetJobStatus, SetJobError, Send
    <2>2. \A t \in Spans : job'[t] = job[t] \/ job[t] # "none"
      BY <1>8 DEF FailJob, CompleteJob, SetJobStatus, SetJobError, Send, TypeOK
    <2> QED
      BY <1>6, <2>1, <2>2
  <1> QED
    BY <1>1, <1>2, <1>3, <1>4, <1>7, <1>8, StartCases DEF JobStep

-----------------------------------------------------------------------------
\* Whether a span draws a report, and whether sampling follows the options.
Sampling ==
  \A s \in Spans :
    /\ sampled[s] => client[s] \in {"some", "all"}
    /\ IsRoot(s) /\ client[s] = "all" => sampled[s]

LEMMA SamplingInit == Init => Sampling
  BY DEF Init, Sampling, IsRoot, Live

LEMMA SamplingStep == TypeOK /\ Tree /\ Sampling /\ [Next]_vars => Sampling'
  <1> SUFFICES ASSUME TypeOK, Tree, Sampling, [Next]_vars PROVE Sampling'
    OBVIOUS
  <1> USE DEF treeVars, noteVars
  <1>0. CASE UNCHANGED vars
    BY <1>0 DEF vars, Sampling, IsRoot, Live
  <1> SUFFICES ASSUME NEW s \in Spans,
                      \/ Start(s) \/ Register(s) \/ Note(s) \/ FinishSpan(s)
                      \/ FailJob(s) \/ CompleteJob(s) \/ JobStep(s) \/ Send(s)
               PROVE  Sampling'
    BY <1>0 DEF Next
  <1>1. ASSUME NEW c \in Clients, StartRoot(s, c) PROVE Sampling'
    <2>1. PICK roll \in Roll(c) :
            sampled' = [sampled EXCEPT ![s] = roll]
      BY <1>1 DEF StartRoot
    <2>2. client' = [client EXCEPT ![s] = c]
      BY <1>1 DEF StartRoot
    <2>3. roll => c \in {"some", "all"}
      BY <2>1, TraceAssumption DEF Roll, TraceAssumption
    <2>4. c = "all" => roll
      BY <2>1, TraceAssumption DEF Roll, TraceAssumption
    <2>5. \A t \in Spans \ {s} : IsRoot(t)' <=> IsRoot(t)
      BY <1>1 DEF StartRoot, IsRoot, Live, TypeOK
    <2> QED
      BY <2>1, <2>2, <2>3, <2>4, <2>5 DEF Sampling, TypeOK
  <1>2. ASSUME ~(\E c \in Clients : StartRoot(s, c)) PROVE Sampling'
    <2>1. UNCHANGED <<client, sampled>>
      BY <1>2, StartCases DEF BuildChild, Register, Note,
                  SetTag, SetData, SetStatus, SetHTTPStatus, FinishSpan, Finish,
                  FailJob, CompleteJob, JobStep, SetJobStatus, SetJobError,
                  FinishJob, Send
    <2>2. \A t \in Spans : IsRoot(t)' => IsRoot(t)
      <3>1. CASE Register(s)
        <4>1. root' = root /\ root[s] # s /\ \A t \in Spans \ {s} : stage'[t] = stage[t]
          BY <3>1 DEF Register, Tree, TypeOK
        <4> QED
          BY <4>1 DEF IsRoot, Live
      <3>2. CASE \E p \in Spans : BuildChild(s, p)
        BY <3>2 DEF BuildChild, IsRoot, Live, TypeOK
      <3>3. CASE UNCHANGED <<stage, root>>
        BY <3>3 DEF IsRoot, Live
      <3> QED
        BY <1>2, <3>1, <3>2, <3>3, StartCases
           DEF Note, SetTag, SetData, SetStatus,
               SetHTTPStatus, FinishSpan, Finish, FailJob, CompleteJob, JobStep,
               SetJobStatus, SetJobError, FinishJob, Send
    <2> QED
      BY <2>1, <2>2 DEF Sampling
  <1> QED
    BY <1>1, <1>2

-----------------------------------------------------------------------------
\* What a payload p of the root r says is so, and stays so.
Accurate(r, p) ==
  /\ {m.span : m \in p.spans} =
       {s \in Spans \ {r} : root[s] = r /\ Finished(s) /\ end[s] < end[r]}
  /\ \A m \in p.spans : 0 <= m.offset /\ m.offset + m.duration <= p.duration

\* A root that has finished and is sampled has one accurate payload, sent or about
\* to be; nothing else has any.
Reporting ==
  \A r \in Spans :
    /\ IsRoot(r) /\ Finished(r) /\ sampled[r] =>
         \E p \in Payloads :
           /\ Accurate(r, p)
           /\ \/ outgoing[r] = <<p>> /\ sent[r] = <<>>
              \/ outgoing[r] = <<>> /\ sent[r] = <<p>>
    /\ ~(IsRoot(r) /\ Finished(r) /\ sampled[r]) =>
         outgoing[r] = <<>> /\ sent[r] = <<>>

LEMMA PayloadIsAccurate ==
  ASSUME TypeOK, Tree, Timing, NEW s \in Spans, Finish(s), root[s] = s,
         NEW p, p = Payload(s, clock')
  PROVE  Accurate(s, p)'
  <1>1. /\ clock \in Nat /\ clock' = clock + 1
        /\ end' = [end EXCEPT ![s] = clock']
        /\ UNCHANGED <<stage, root, start, children>>
    BY DEF Finish, Tick, TypeOK, treeVars, noteVars
  <1>2. end'[s] = clock + 1 /\ \A t \in Spans \ {s} : end'[t] = end[t]
    BY <1>1 DEF TypeOK
  <1>3. {m.span : m \in p.spans} = Included(s)
    <2>1. p.spans = {SpanPayload(s, t) : t \in Included(s)}
      BY DEF Payload
    <2>2. \A t : SpanPayload(s, t).span = t
      BY DEF SpanPayload
    <2> QED
      BY <2>1, <2>2
  <1>4. Included(s) = {t \in Spans \ {s} : root[t] = s /\ end[t] # 0}
    BY DEF Included, Finished, Tree, Timing, TypeOK
  <1>5. \A t \in Spans \ {s} : end'[t] # 0 => end'[t] < end'[s]
    BY <1>1, <1>2 DEF Timing, TypeOK
  <1>6. \A m \in p.spans : 0 <= m.offset /\ m.offset + m.duration <= p.duration
    <2> SUFFICES ASSUME NEW t \in Included(s)
                 PROVE  /\ 0 <= start[t] - start[s]
                        /\ start[t] - start[s] + (end[t] - start[t]) <= clock' - start[s]
      BY DEF Payload, SpanPayload
    <2>1. t \in Spans /\ root[t] = s /\ end[t] # 0
      BY <1>4
    <2>2. start[s] <= start[t] /\ end[t] <= clock
      BY <2>1 DEF Timing
    <2> QED
      BY <1>1, <2>1, <2>2 DEF TypeOK
  <1>7. {m.span : m \in p.spans} =
          {t \in Spans \ {s} : root'[t] = s /\ end'[t] # 0 /\ end'[t] < end'[s]}
    BY <1>1, <1>2, <1>3, <1>4, <1>5
  <1> QED
    BY <1>6, <1>7 DEF Accurate, Finished

\* What a step may do to the ends of spans and to the payloads.
LEMMA StepCases ==
  ASSUME [Next]_vars
  PROVE  \/ \E s \in Spans : Finish(s)
         \/ \E s \in Spans : Send(s)
         \/ UNCHANGED <<outgoing, sent, end>>
  BY DEF Next, vars, Start, StartTransaction, StartJob, StartRoot, BuildChild, Register,
         Note, SetTag, SetData, SetStatus, SetHTTPStatus, FinishSpan, FailJob,
         CompleteJob, JobStep, SetJobStatus, SetJobError, FinishJob

\* What is settled once a span has finished.
LEMMA FinishedStays ==
  ASSUME TypeOK, Tree, [Next]_vars, NEW t \in Spans, Finished(t), Live(t)
  PROVE  /\ end'[t] = end[t] /\ root'[t] = root[t] /\ sampled'[t] = sampled[t]
         /\ stage'[t] = stage[t]
  <1> USE DEF treeVars, noteVars
  <1>1. end'[t] = end[t]
    BY StepCases DEF Finish, Send, Finished, TypeOK
  <1>2. CASE UNCHANGED vars
    BY <1>2 DEF vars
  <1>3. ASSUME NEW s \in Spans, Start(s) \/ Register(s)
        PROVE  /\ root'[t] = root[t] /\ sampled'[t] = sampled[t]
               /\ stage'[t] = stage[t]
    <2>1. s # t
      BY <1>3 DEF Start, StartTransaction, StartJob, StartRoot, BuildChild, Register, Live
    <2>2. sampled'[t] = sampled[t]
      <3>1. ASSUME NEW c \in Clients, StartRoot(s, c)
            PROVE  sampled'[t] = sampled[t]
        BY <2>1, <3>1 DEF StartRoot, TypeOK
      <3> QED
        BY <1>3, <3>1, StartCases DEF BuildChild, Register
    <2> QED
      BY <1>3, <2>1, <2>2
         DEF Start, StartTransaction, StartJob, StartRoot, BuildChild, Register, TypeOK
  <1>4. ASSUME NEW s \in Spans,
               \/ Note(s) \/ FinishSpan(s) \/ FailJob(s) \/ CompleteJob(s)
               \/ JobStep(s) \/ Send(s)
        PROVE  UNCHANGED <<stage, root, sampled>>
    BY <1>4 DEF Note, SetTag, SetData, SetStatus, SetHTTPStatus, FinishSpan, Finish,
                FailJob, CompleteJob, JobStep, SetJobStatus, SetJobError, FinishJob, Send
  <1> QED
    BY <1>1, <1>2, <1>3, <1>4 DEF Next

\* A span that a step finishes ends after all that had finished before.
LEMMA FinishesLater ==
  ASSUME TypeOK, Tree, Timing, [Next]_vars, NEW t \in Spans, ~Finished(t),
         NEW r \in Spans, Finished(r)
  PROVE  end'[t] = 0 \/ end[r] < end'[t]
  <1>1. end[r] <= clock /\ clock \in Nat /\ end[r] \in Nat
    BY DEF Timing, Finished, TypeOK
  <1>2. ASSUME NEW s \in Spans, Finish(s) PROVE end'[t] = 0 \/ end[r] < end'[t]
    <2>1. clock' = clock + 1 /\ end' = [end EXCEPT ![s] = clock']
      BY <1>2 DEF Finish, Tick
    <2>2. end'[t] = end[t] \/ end'[t] = clock + 1
      BY <2>1 DEF TypeOK
    <2> QED
      BY <1>1, <2>2 DEF Finished
  <1> QED
    BY <1>2, StepCases DEF Send, Finished

LEMMA AccurateStays ==
  ASSUME TypeOK, Tree, Timing, [Next]_vars,
         NEW r \in Spans, IsRoot(r), Finished(r), NEW p, Accurate(r, p)
  PROVE  Accurate(r, p)'
  <1>1. end'[r] = end[r]
    BY FinishedStays DEF IsRoot
  <1>2. \A t \in Spans : Finished(t) => end'[t] = end[t] /\ root'[t] = root[t]
    BY FinishedStays DEF Timing, Finished, Live
  <1>3. \A t \in Spans : ~Finished(t) => end'[t] = 0 \/ end[r] < end'[t]
    BY FinishesLater
  <1>4. \A t \in Spans : end'[t] \in Nat /\ end[t] \in Nat
    BY TypeStep DEF TypeOK
  <1>5. \A t \in Spans : (Finished(t)' /\ end'[t] < end'[r]) <=> (Finished(t) /\ end[t] < end[r])
    BY <1>1, <1>2, <1>3, <1>4 DEF Finished
  <1>6. {t \in Spans \ {r} : root'[t] = r /\ Finished(t)' /\ end'[t] < end'[r]} =
        {t \in Spans \ {r} : root[t] = r /\ Finished(t) /\ end[t] < end[r]}
    BY <1>2, <1>5
  <1> QED
    BY <1>1, <1>6 DEF Accurate

LEMMA ReportingInit == Init => Reporting
  BY DEF Init, Reporting, IsRoot, Live

LEMMA ReportingStep ==
  TypeOK /\ Tree /\ Timing /\ Sampling /\ Reporting /\ [Next]_vars => Reporting'
  <1> SUFFICES ASSUME TypeOK, Tree, Timing, Sampling, Reporting, [Next]_vars,
                      NEW r \in Spans
               PROVE  /\ IsRoot(r)' /\ Finished(r)' /\ sampled'[r] =>
                           \E p \in Payloads :
                             /\ Accurate(r, p)'
                             /\ \/ outgoing'[r] = <<p>> /\ sent'[r] = <<>>
                                \/ outgoing'[r] = <<>> /\ sent'[r] = <<p>>
                      /\ ~(IsRoot(r)' /\ Finished(r)' /\ sampled'[r]) =>
                           outgoing'[r] = <<>> /\ sent'[r] = <<>>
    BY DEF Reporting
  <1> USE DEF treeVars, noteVars
  \* The step in which r finishes.
  <1>1. ASSUME Finish(r)
        PROVE  /\ IsRoot(r)' /\ Finished(r)' /\ sampled'[r] =>
                    \E p \in Payloads : /\ Accurate(r, p)'
                                        /\ outgoing'[r] = <<p>> /\ sent'[r] = <<>>
               /\ ~(IsRoot(r)' /\ Finished(r)' /\ sampled'[r]) =>
                    outgoing'[r] = <<>> /\ sent'[r] = <<>>
    <2>1. outgoing[r] = <<>> /\ sent[r] = <<>> /\ sent' = sent
      BY <1>1 DEF Reporting, Finish
    <2>2. /\ UNCHANGED <<stage, root, sampled>> /\ stage[r] = "live"
          /\ clock' \in Nat /\ end'[r] # 0
      BY <1>1 DEF Finish, Tick, TypeOK, Live
    <2>3. CASE root[r] = r /\ sampled[r]
      <3>1. outgoing'[r] = <<Payload(r, clock')>>
        BY <1>1, <2>3 DEF Finish, Sampling, TypeOK
      <3>2. Payload(r, clock') \in Payloads
        BY <2>2, <2>3, PayloadType
      <3>3. PICK p \in Payloads : p = Payload(r, clock')
        BY <3>2
      <3>4. Accurate(r, p)'
        BY <1>1, <2>3, <3>3, PayloadIsAccurate
      <3> QED
        BY <2>1, <2>2, <2>3, <3>1, <3>3, <3>4 DEF IsRoot, Live, Finished
    <2>4. CASE ~(root[r] = r /\ sampled[r])
      BY <1>1, <2>1, <2>2, <2>4 DEF Finish, IsRoot
    <2> QED
      BY <2>3, <2>4
  \* The step that hands over the payload of r.
  <1>2. ASSUME Send(r)
        PROVE  \E p \in Payloads : /\ IsRoot(r) /\ Finished(r) /\ sampled[r]
                                   /\ Accurate(r, p)'
                                   /\ outgoing'[r] = <<>> /\ sent'[r] = <<p>>
    <2>1. IsRoot(r) /\ Finished(r) /\ sampled[r]
      BY <1>2 DEF Send, Reporting
    <2>2. PICK p \in Payloads : Accurate(r, p) /\ outgoing[r] = <<p>> /\ sent[r] = <<>>
      BY <1>2, <2>1 DEF Send, Reporting
    <2>3. outgoing'[r] = Tail(<<p>>) /\ sent'[r] = Append(<<>>, Head(<<p>>))
      BY <1>2, <2>2 DEF Send, TypeOK
    <2>4. outgoing'[r] = <<>> /\ sent'[r] = <<p>>
      BY <2>3
    <2> QED
      BY <2>1, <2>2, <2>4, AccurateStays
  \* Every other step.
  <1>3. ASSUME outgoing'[r] = outgoing[r], sent'[r] = sent[r],
               ~Finished(r) => end'[r] = 0
        PROVE  /\ IsRoot(r)' /\ Finished(r)' /\ sampled'[r] =>
                    \E p \in Payloads :
                      /\ Accurate(r, p)'
                      /\ \/ outgoing'[r] = <<p>> /\ sent'[r] = <<>>
                         \/ outgoing'[r] = <<>> /\ sent'[r] = <<p>>
               /\ ~(IsRoot(r)' /\ Finished(r)' /\ sampled'[r]) =>
                    outgoing'[r] = <<>> /\ sent'[r] = <<>>
    <2>1. CASE Finished(r)
      <3>1. Live(r)
        BY <2>1 DEF Timing, Finished, Live
      <3>2. /\ Finished(r)' /\ sampled'[r] = sampled[r]
            /\ IsRoot(r)' <=> IsRoot(r)
        BY <2>1, <3>1, FinishedStays DEF Finished, IsRoot, Live
      <3>3. CASE IsRoot(r) /\ sampled[r]
        BY <1>3, <2>1, <3>2, <3>3, AccurateStays DEF Reporting
      <3>4. CASE ~(IsRoot(r) /\ sampled[r])
        BY <1>3, <3>2, <3>4 DEF Reporting
      <3> QED
        BY <3>3, <3>4
    <2>2. CASE ~Finished(r)
      BY <1>3, <2>2 DEF Reporting, Finished
    <2> QED
      BY <2>1, <2>2
  <1>4. ASSUME NEW s \in Spans, Finish(s) \/ Send(s), s # r
        PROVE  /\ outgoing'[r] = outgoing[r] /\ sent'[r] = sent[r]
               /\ ~Finished(r) => end'[r] = 0
    BY <1>4 DEF Finish, Send, Finished, TypeOK
  <1>5. CASE UNCHANGED <<outgoing, sent, end>>
    BY <1>3, <1>5 DEF Finished
  <1>6. CASE Send(r)
    <2>1. PICK p \in Payloads : /\ IsRoot(r) /\ Finished(r) /\ sampled[r]
                                /\ Accurate(r, p)'
                                /\ outgoing'[r] = <<>> /\ sent'[r] = <<p>>
      BY <1>2, <1>6
    <2>2. IsRoot(r)' /\ Finished(r)' /\ sampled'[r]
      BY <2>1, FinishedStays DEF Finished, IsRoot, Live
    <2> QED
      BY <2>1, <2>2
  <1> QED
    BY <1>1, <1>3, <1>4, <1>5, <1>6, StepCases

-----------------------------------------------------------------------------
\* A span hangs below one of its own trace that started before it; and what a payload
\* says of a span's place is what its construction fixed.
Below ==
  \A s \in Spans : stage[s] # "none" /\ root[s] # s =>
    /\ stage[parent[s]] = "live"
    /\ root[parent[s]] = root[s]
    /\ start[parent[s]] < start[s]

WellPlaced(r, p) ==
  \A m \in p.spans :
    /\ m.span \in Spans /\ Live(m.span) /\ root[m.span] = r
    /\ m.parent = parent[m.span] /\ m.offset = start[m.span] - start[r]

Placing ==
  \A r \in Spans : \A p \in Payloads :
    outgoing[r] = <<p>> \/ sent[r] = <<p>> => Live(r) /\ WellPlaced(r, p)

\* The construction of a span is final once it has begun.
LEMMA ConstructionStays ==
  ASSUME TypeOK, Tree, [Next]_vars, NEW t \in Spans, stage[t] # "none"
  PROVE  /\ parent'[t] = parent[t] /\ root'[t] = root[t] /\ start'[t] = start[t]
         /\ stage'[t] # "none" /\ (Live(t) => Live(t)')
  <1> USE DEF treeVars, noteVars
  <1>1. CASE UNCHANGED vars
    BY <1>1 DEF vars, Live
  <1>2. ASSUME NEW s \in Spans, NEW c \in Clients, StartRoot(s, c)
        PROVE  /\ parent'[t] = parent[t] /\ root'[t] = root[t] /\ start'[t] = start[t]
               /\ stage'[t] = stage[t]
    BY <1>2 DEF StartRoot, TypeOK
  <1>3. ASSUME NEW s \in Spans, NEW p \in Spans, BuildChild(s, p)
        PROVE  /\ parent'[t] = parent[t] /\ root'[t] = root[t] /\ start'[t] = start[t]
               /\ stage'[t] = stage[t]
    BY <1>3 DEF BuildChild, TypeOK
  <1>4. ASSUME NEW s \in Spans, Register(s)
        PROVE  /\ UNCHANGED <<parent, root, start>>
               /\ stage'[t] = stage[t] \/ stage'[t] = "live"
    BY <1>4 DEF Register, TypeOK
  <1>5. ASSUME NEW s \in Spans,
               \/ Note(s) \/ FinishSpan(s) \/ FailJob(s) \/ CompleteJob(s)
               \/ JobStep(s) \/ Send(s)
        PROVE  UNCHANGED <<stage, parent, root, start>>
    BY <1>5 DEF Note, SetTag, SetData, SetStatus, SetHTTPStatus, FinishSpan, Finish,
                FailJob, CompleteJob, JobStep, SetJobStatus, SetJobError, FinishJob, Send
  <1>6. ASSUME NEW s \in Spans, Start(s)
        PROVE  /\ parent'[t] = parent[t] /\ root'[t] = root[t] /\ start'[t] = start[t]
               /\ stage'[t] = stage[t]
    BY <1>2, <1>3, <1>6, StartCases
  <1> QED
    BY <1>1, <1>4, <1>5, <1>6 DEF Next, Live

LEMMA BelowInit == Init => Below
  BY DEF Init, Below

LEMMA BelowStep == TypeOK /\ Tree /\ Timing /\ Below /\ [Next]_vars => Below'
  <1> SUFFICES ASSUME TypeOK, Tree, Timing, Below, [Next]_vars,
                      NEW t \in Spans, stage'[t] # "none", root'[t] # t
               PROVE  /\ stage'[parent'[t]] = "live"
                      /\ root'[parent'[t]] = root'[t]
                      /\ start'[parent'[t]] < start'[t]
    BY DEF Below
  <1>1. CASE stage[t] # "none"
    <2>1. parent'[t] = parent[t] /\ root'[t] = root[t] /\ start'[t] = start[t]
      BY <1>1, ConstructionStays
    <2>2. PICK q \in Spans : /\ q = parent[t] /\ Live(q) /\ stage[q] # "none"
                             /\ root[q] = root[t] /\ start[q] < start[t]
      BY <1>1, <2>1 DEF Tree, Below, Live
    <2>3. Live(q)' /\ root'[q] = root[q] /\ start'[q] = start[q]
      BY ONLY <2>2, ConstructionStays, TypeOK, Tree, [Next]_vars
    <2> QED
      BY <2>1, <2>2, <2>3 DEF Live
  \* The step that begins t.
  <1>2. CASE stage[t] = "none"
    <2>1. ASSUME NEW s \in Spans, NEW c \in Clients, StartRoot(s, c) PROVE FALSE
      BY <1>2, <2>1 DEF StartRoot, TypeOK
    <2>2. ASSUME NEW s \in Spans,
                 \/ Register(s) \/ Note(s) \/ FinishSpan(s) \/ FailJob(s)
                 \/ CompleteJob(s) \/ JobStep(s) \/ Send(s)
          PROVE  stage'[t] = stage[t]
      BY <1>2, <2>2
         DEF Register, Note, SetTag, SetData, SetStatus, SetHTTPStatus, FinishSpan,
             Finish, FailJob, CompleteJob, JobStep, SetJobStatus, SetJobError,
             FinishJob, Send, treeVars, noteVars, TypeOK
    <2>3. PICK s \in Spans, p \in Spans : BuildChild(s, p)
      BY <1>2, <2>1, <2>2, StartCases DEF Next, vars, treeVars
    <2>4. s = t
      BY <1>2, <2>3 DEF BuildChild, TypeOK
    <2>5. stage[p] = "live" /\ p # t
      BY <1>2, <2>3 DEF BuildChild, Live
    <2>6. /\ parent'[t] = p /\ root'[t] = root[p] /\ start'[t] = clock + 1
          /\ stage'[p] = stage[p] /\ root'[p] = root[p] /\ start'[p] = start[p]
      BY <2>3, <2>4, <2>5 DEF BuildChild, Tick, TypeOK
    <2>7. start[p] \in Nat /\ start[p] <= clock /\ clock \in Nat
      BY <2>5 DEF Timing, TypeOK
    <2> QED
      BY <2>5, <2>6, <2>7
  <1> QED
    BY <1>1, <1>2

LEMMA PlacingInit == Init => Placing
  BY DEF Init, Placing

LEMMA WellPlacedStays ==
  ASSUME TypeOK, Tree, [Next]_vars, NEW r \in Spans, Live(r), NEW p, WellPlaced(r, p)
  PROVE  Live(r)' /\ WellPlaced(r, p)'
  <1>1. Live(r)' /\ start'[r] = start[r]
    BY ConstructionStays DEF Live
  <1> SUFFICES ASSUME NEW m \in p.spans
               PROVE  /\ m.span \in Spans /\ Live(m.span)' /\ root'[m.span] = r
                      /\ m.parent = parent'[m.span]
                      /\ m.offset = start'[m.span] - start'[r]
    BY <1>1 DEF WellPlaced
  <1>2. /\ m.span \in Spans /\ Live(m.span) /\ root[m.span] = r
        /\ m.parent = parent[m.span] /\ m.offset = start[m.span] - start[r]
    BY DEF WellPlaced
  <1>3. /\ Live(m.span)' /\ root'[m.span] = root[m.span]
        /\ parent'[m.span] = parent[m.span] /\ start'[m.span] = start[m.span]
    BY <1>2, ConstructionStays DEF Live
  <1> QED
    BY <1>1, <1>2, <1>3

LEMMA PayloadIsPlaced ==
  ASSUME TypeOK, Tree, NEW r \in Spans, NEW at
  PROVE  WellPlaced(r, Payload(r, at))
  <1>1. Payload(r, at).spans = {SpanPayload(r, c) : c \in Included(r)}
    BY DEF Payload
  <1>2. ASSUME NEW c \in Included(r)
        PROVE  /\ c \in Spans /\ Live(c) /\ root[c] = r
               /\ SpanPayload(r, c).span = c
               /\ SpanPayload(r, c).parent = parent[c]
               /\ SpanPayload(r, c).offset = start[c] - start[r]
    <2>1. c \in Spans /\ Live(c) /\ root[c] = r
      BY <1>2 DEF Included, Tree, TypeOK, Live
    <2> QED
      BY <2>1 DEF SpanPayload
  <1> QED
    BY <1>1, <1>2 DEF WellPlaced

LEMMA PlacingStep ==
  TypeOK /\ Tree /\ Reporting /\ Placing /\ [Next]_vars => Placing'
  <1> SUFFICES ASSUME TypeOK, Tree, Reporting, Placing, [Next]_vars,
                      NEW r \in Spans, NEW p \in Payloads,
                      outgoing'[r] = <<p>> \/ sent'[r] = <<p>>
               PROVE  Live(r)' /\ WellPlaced(r, p)'
    BY DEF Placing
  <1> USE DEF treeVars, noteVars
  <1>1. CASE outgoing[r] = <<p>> \/ sent[r] = <<p>>
    BY <1>1, WellPlacedStays DEF Placing
  <1>2. CASE Finish(r)
    <2>1. sent' = sent /\ Live(r)
      BY <1>2 DEF Finish
    <2>2. CASE p = Payload(r, clock')
      <3>1. WellPlaced(r, p)
        BY <2>2, PayloadIsPlaced
      <3> QED
        BY <2>1, <3>1, WellPlacedStays
    <2>3. CASE p # Payload(r, clock')
      <3>1. outgoing'[r] = <<Payload(r, clock')>> \/ outgoing'[r] = outgoing[r]
        BY <1>2 DEF Finish, TypeOK
      <3>2. CASE outgoing'[r] = <<Payload(r, clock')>>
        <4>1. PICK q : q = Payload(r, clock')
          OBVIOUS
        <4>2. <<q>> # <<p>>
          BY <2>3, <4>1
        <4> QED
          BY <1>1, <2>1, <3>2, <4>1, <4>2
      <3> QED
        BY <1>1, <2>1, <3>1, <3>2
    <2> QED
      BY <2>2, <2>3
  <1>3. CASE Send(r)
    <2>1. PICK q \in Payloads : outgoing[r] = <<q>> /\ sent[r] = <<>>
      BY <1>3 DEF Send, Reporting
    <2>2. outgoing'[r] = Tail(<<q>>) /\ sent'[r] = Append(<<>>, Head(<<q>>))
      BY <1>3, <2>1 DEF Send, TypeOK
    <2>3. outgoing'[r] = <<>> /\ sent'[r] = <<q>>
      BY <2>2
    <2>4. p = q
      BY <2>3
    <2> QED
      BY <1>1, <2>1, <2>4
  <1>4. CASE ~Finish(r) /\ ~Send(r)
    <2>1. ASSUME NEW s \in Spans, Finish(s) \/ Send(s), s # r
          PROVE  outgoing'[r] = outgoing[r] /\ sent'[r] = sent[r]
      BY <2>1 DEF Finish, Send, TypeOK
    <2>2. outgoing'[r] = outgoing[r] /\ sent'[r] = sent[r]
      BY <1>4, <2>1, StepCases
    <2> QED
      BY <1>1, <2>2
  <1> QED
    BY <1>2, <1>3, <1>4

-----------------------------------------------------------------------------
Inv == TypeOK /\ Tree /\ Timing /\ Sampling /\ Reporting /\ Below /\ Placing

\* The inductive invariant: the shape of the traces, the order of their clock and
\* the accuracy of what has been reported (span.go:762-963).
LEMMA Invariance == Spec => []Inv
  <1>1. Init => Inv
    BY TypeInit, TreeTimingInit, SamplingInit, ReportingInit, BelowInit, PlacingInit
       DEF Inv
  <1>2. Inv /\ [Next]_vars => Inv'
    BY TypeStep, TreeTimingStep, SamplingStep, ReportingStep, BelowStep, PlacingStep
       DEF Inv
  <1> QED
    BY <1>1, <1>2, PTL DEF Spec

\* Every variable, and every payload, has its type whatever the spans do
\* (transaction.go:33-65).
THEOREM TypeCorrect == Spec => []TypeOK
  <1>1. Inv => TypeOK
    BY DEF Inv
  <1> QED
    BY <1>1, Invariance, PTL

LEMMA OneConcat ==
  ASSUME NEW p \in Payloads
  PROVE  <<p>> \o <<>> = <<p>> /\ <<>> \o <<p>> = <<p>>
  <1>1. <<p>> \in Seq(Payloads)
    OBVIOUS
  <1> QED
    BY ONLY <1>1, ConcatEmptySeq

LEMMA OneReport ==
  ASSUME Inv, NEW r \in Spans, Reports(r) # <<>>
  PROVE  /\ IsRoot(r) /\ Finished(r) /\ sampled[r]
         /\ \E p \in Payloads : Accurate(r, p) /\ Reports(r) = <<p>>
  <1>1. IsRoot(r) /\ Finished(r) /\ sampled[r]
    BY DEF Inv, Reporting, Reports
  <1>2. PICK p \in Payloads : /\ Accurate(r, p)
                              /\ \/ outgoing[r] = <<p>> /\ sent[r] = <<>>
                                 \/ outgoing[r] = <<>> /\ sent[r] = <<p>>
    BY <1>1 DEF Inv, Reporting
  <1>3. Reports(r) = <<p>>
    BY <1>2, OneConcat DEF Reports
  <1> QED
    BY <1>1, <1>2, <1>3

LEMMA OnceByInvariant == Inv => ReportedOnce
  <1> SUFFICES ASSUME Inv, NEW s \in Spans
               PROVE  /\ Len(Reports(s)) <= 1
                      /\ Reports(s) # <<>> => /\ IsRoot(s) /\ Finished(s)
                                              /\ sampled[s]
                                              /\ client[s] \in {"some", "all"}
                      /\ IsRoot(s) /\ Finished(s) /\ (sampled[s] \/ client[s] = "all") =>
                           Reports(s) # <<>>
    BY DEF ReportedOnce
  <1>1. CASE Reports(s) = <<>>
    <2>1. ~(IsRoot(s) /\ Finished(s) /\ (sampled[s] \/ client[s] = "all"))
      <3> SUFFICES ASSUME IsRoot(s), Finished(s), sampled[s] PROVE FALSE
        BY DEF Inv, Sampling
      <3>1. PICK p \in Payloads : \/ outgoing[s] = <<p>> /\ sent[s] = <<>>
                                  \/ outgoing[s] = <<>> /\ sent[s] = <<p>>
        BY DEF Inv, Reporting
      <3>2. \/ Reports(s) = <<>> \o <<p>>
            \/ Reports(s) = <<p>> \o <<>>
        BY <3>1 DEF Reports
      <3>3. Reports(s) = <<p>>
        BY <3>2, OneConcat
      <3>4. <<p>> # <<>>
        OBVIOUS
      <3> QED
        BY <1>1, <3>3, <3>4
    <2> QED
      BY <1>1, <2>1
  <1>2. CASE Reports(s) # <<>>
    <2>1. PICK p \in Payloads : Reports(s) = <<p>>
      BY <1>2, OneReport
    <2>2. Len(Reports(s)) = 1
      BY <2>1
    <2>3. client[s] \in {"some", "all"}
      BY <1>2, OneReport DEF Inv, Sampling
    <2> QED
      BY <1>2, <2>2, <2>3, OneReport
  <1> QED
    BY <1>1, <1>2

\* Any number of Finish calls on any spans, in any order, report a sampled
\* transaction once and nothing else (span.go:936-963).
THEOREM FinishReportsOnce == Spec => []ReportedOnce
  BY OnceByInvariant, Invariance, PTL

LEMMA ReportIsAccurate ==
  ASSUME Inv, NEW r \in Spans, Reports(r) # <<>>
  PROVE  Accurate(r, Reports(r)[1])
  <1>1. PICK p \in Payloads : Accurate(r, p) /\ Reports(r) = <<p>>
    BY OneReport
  <1>2. Reports(r)[1] = p
    BY <1>1
  <1> QED
    BY <1>1, <1>2

\* A report holds exactly the descendants that finished before the transaction
\* (transaction.go:100-107).
THEOREM ReportHoldsTheFinished == Spec => []ReportIsExact
  <1>1. Inv => ReportIsExact
    BY ReportIsAccurate DEF ReportIsExact, Accurate
  <1> QED
    BY <1>1, Invariance, PTL

\* What has been reported of a span's place leads up to the root, or to a span that
\* was still open.
LEMMA ReportLinksUp ==
  ASSUME Inv, NEW r \in Spans, Reports(r) # <<>>, NEW m \in Reports(r)[1].spans
  PROVE  LinksUp(r, m)
  <1>1. PICK p \in Payloads : /\ Accurate(r, p) /\ Reports(r) = <<p>>
                              /\ outgoing[r] = <<p>> \/ sent[r] = <<p>>
    <2>1. IsRoot(r) /\ Finished(r) /\ sampled[r]
      BY OneReport
    <2>2. PICK p \in Payloads : /\ Accurate(r, p)
                                /\ \/ outgoing[r] = <<p>> /\ sent[r] = <<>>
                                   \/ outgoing[r] = <<>> /\ sent[r] = <<p>>
      BY <2>1 DEF Inv, Reporting
    <2>3. Reports(r) = <<p>>
      BY <2>2, OneConcat DEF Reports
    <2> QED
      BY <2>2, <2>3
  <1>2. Reports(r)[1] = p
    BY <1>1
  <1>3. WellPlaced(r, p)
    BY <1>1 DEF Inv, Placing
  <1>4. PICK c \in Spans : /\ c = m.span /\ stage[c] # "none" /\ root[c] = r
                           /\ m.parent = parent[c] /\ m.offset = start[c] - start[r]
    BY <1>2, <1>3 DEF WellPlaced, Live
  <1>5. c # r
    BY <1>1, <1>2, <1>4 DEF Accurate
  <1>6. /\ parent[c] \in Spans /\ stage[parent[c]] = "live" /\ root[parent[c]] = r
        /\ start[parent[c]] < start[c]
    BY <1>4, <1>5 DEF Inv, Tree, Below
  <1>7. CASE parent[c] # r /\ Finished(parent[c]) /\ end[parent[c]] < end[r]
    <2>1. parent[c] \in {q.span : q \in p.spans}
      BY <1>1, <1>6, <1>7 DEF Accurate
    <2>2. PICK q \in p.spans : q.span = parent[c]
      BY <2>1
    <2>3. q.offset = start[parent[c]] - start[r]
      BY <1>3, <2>2 DEF WellPlaced
    <2>4. start[c] \in Nat /\ start[parent[c]] \in Nat /\ start[r] \in Nat
      BY <1>6 DEF Inv, TypeOK
    <2>5. q.offset < m.offset
      BY <1>4, <1>6, <2>3, <2>4
    <2> QED
      BY <1>2, <1>4, <2>2, <2>5 DEF LinksUp
  <1>8. CASE parent[c] # r /\ (~Finished(parent[c]) \/ ~(end[parent[c]] < end[r]))
    <2>1. ~Finished(parent[c]) \/ end[parent[c]] > end[r]
      BY <1>6, <1>8 DEF Inv, Timing, TypeOK, Finished
    <2> QED
      BY <1>4, <1>6, <1>8, <2>1 DEF LinksUp, Live
  <1> QED
    BY <1>4, <1>7, <1>8 DEF LinksUp

\* The waterfall of a report never reaches out of the transaction, and from parent to
\* parent it leads up to the root or to a span that was still open, without a circle
\* (span.go:806-840, transaction.go:60-62, 100-115).
THEOREM WaterfallIsBounded == Spec => []WaterfallFits
  <1>1. Inv => WaterfallFits
    BY ReportIsAccurate, ReportLinksUp DEF WaterfallFits, Accurate
  <1> QED
    BY <1>1, Invariance, PTL

LEMMA ReportStays ==
  ASSUME Inv, [Next]_vars, NEW s \in Spans, Finished(s)
  PROVE  end'[s] = end[s] /\ Reports(s)' = Reports(s)
  <1> USE DEF treeVars, noteVars
  <1>1. Live(s) /\ end'[s] = end[s]
    BY FinishedStays DEF Inv, Timing, Finished, Live
  <1>2. CASE Send(s)
    <2>1. IsRoot(s) /\ sampled[s]
      BY <1>2 DEF Send, Inv, Reporting
    <2>2. PICK p \in Payloads : outgoing[s] = <<p>> /\ sent[s] = <<>>
      BY <1>2, <2>1 DEF Send, Inv, Reporting
    <2>3. outgoing'[s] = Tail(<<p>>) /\ sent'[s] = Append(<<>>, Head(<<p>>))
      BY <1>2, <2>2 DEF Send, Inv, TypeOK
    <2>4. outgoing'[s] = <<>> /\ sent'[s] = <<p>>
      BY <2>3
    <2> QED
      BY <1>1, <2>2, <2>4, OneConcat DEF Reports
  <1>3. CASE ~Send(s)
    <2>1. outgoing'[s] = outgoing[s] /\ sent'[s] = sent[s]
      <3>1. ASSUME NEW t \in Spans, Finish(t) \/ Send(t), t # s
            PROVE  outgoing'[s] = outgoing[s] /\ sent'[s] = sent[s]
        BY <3>1 DEF Finish, Send, Inv, TypeOK
      <3>2. ~Finish(s)
        BY DEF Finish
      <3> QED
        BY <1>3, <3>1, <3>2, StepCases
    <2> QED
      BY <1>1, <2>1 DEF Reports
  <1> QED
    BY <1>2, <1>3

\* A report comes into being when its root finishes, as the root and its children
\* are then.
LEMMA NewReport ==
  ASSUME Inv, [Next]_vars, NEW s \in Spans, ~Finished(s), Reports(s)' # <<>>
  PROVE  Finish(s) /\ Reports(s)' = <<Payload(s, clock')>>
  <1> USE DEF treeVars, noteVars
  <1>1. outgoing[s] = <<>> /\ sent[s] = <<>>
    BY DEF Inv, Reporting
  <1>2. ASSUME outgoing'[s] = <<>>, sent'[s] = <<>> PROVE FALSE
    BY <1>2 DEF Reports
  <1>3. Finish(s)
    <2>1. ASSUME NEW t \in Spans, Finish(t) \/ Send(t), ~Finish(s)
          PROVE  outgoing'[s] = <<>> /\ sent'[s] = <<>>
      BY <1>1, <2>1 DEF Finish, Send, Inv, TypeOK
    <2> QED
      BY <1>1, <1>2, <2>1, StepCases
  <1>4. sent'[s] = <<>> /\ (outgoing'[s] = <<>> \/ outgoing'[s] = <<Payload(s, clock')>>)
    BY <1>1, <1>3 DEF Finish, Inv, TypeOK
  <1>5. PICK p : p = Payload(s, clock')
    OBVIOUS
  <1>6. Reports(s)' = <<>> \o <<p>>
    BY <1>2, <1>4, <1>5 DEF Reports
  <1>7. <<>> \o <<p>> = <<p>>
    <2>1. <<p>> \in Seq({p})
      OBVIOUS
    <2> QED
      BY ONLY <2>1, ConcatEmptySeq
  <1> QED
    BY <1>3, <1>5, <1>6, <1>7

\* The end of a finished span and its report never change (span.go:943).
THEOREM FinishedForGood == Spec => FinishIsFinal
  <1>1. ASSUME Inv, [Next]_vars
        PROVE  [\A s \in Spans :
                  Finished(s) => end'[s] = end[s] /\ Reports(s)' = Reports(s)]_vars
    BY <1>1, ReportStays
  <1> QED
    BY <1>1, Invariance, PTL DEF FinishIsFinal, Spec
=============================================================================
