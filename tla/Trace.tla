------------------------------- MODULE Trace -------------------------------
(***************************************************************************)
(* Spans and transactions (span.go, transaction.go, job.go).  A trace is a *)
(* root span and its descendants; they share one transactionState and its  *)
(* mutex.  Goroutines start, annotate and finish spans in any order; the   *)
(* root's Finish copies the finished spans into a payload under the mutex  *)
(* and hands it to the client's queue after the unlock.                    *)
(*                                                                         *)
(* A step is one section under transactionState.mu, or what a goroutine    *)
(* does to a span nobody else can reach yet.  Time is the count of starts  *)
(* and finishes so far; zero is Go's zero time.Time.                       *)
(***************************************************************************)
EXTENDS Integers, Sequences, FiniteSets

CONSTANTS
  Spans,      \* the spans of a run
  NoSpan,     \* no span in the context
  Rates,      \* Options.TracesSampleRate of the clients: "none", "some" or "all"
  Roots,      \* bound: the spans that may start a trace
  Annotated,  \* bound: the spans that the application annotates
  Marks,      \* what SetTag, SetOp and SetData may leave on a span
  Statuses    \* what SetStatus and SetHTTPStatus may set

ASSUME TraceAssumption ==
  /\ NoSpan \notin Spans
  /\ Roots \subseteq Spans
  /\ Annotated \subseteq Spans
  /\ Rates \subseteq {"none", "some", "all"}
  /\ "internal_error" \in Statuses
  /\ "unset" \notin Statuses

VARIABLES
  stage,     \* "none", "building" (StartSpan is at work) or "live"
  parent,    \* Span.ParentSpanID
  root,      \* Span.txn.root
  client,    \* a root's transactionState.client: "nil", or its sample rate
  sampled,   \* a root's transactionState.sampled
  children,  \* a root's transactionState.children
  start,     \* Span.startTime
  end,       \* Span.endTime
  status,    \* Span.Status
  tags,      \* Span.Tags and Op: what has been set
  data,      \* Span.Data: what has been set
  job,       \* where StartJob's and FinishJob's handling of a root stands
  outgoing,  \* the payloads Finish has built and not yet queued, by root
  sent,      \* the payloads handed to the client's queue, by root
  clock

treeVars == <<stage, parent, root, client, sampled, children, start>>
noteVars == <<status, tags, data>>
vars == <<treeVars, noteVars, end, job, outgoing, sent, clock>>

Clients == Rates \cup {"nil"}
AllStatuses == Statuses \cup {"unset"}
AllData == Marks \cup {"error", "http.status_code"}
JobSteps == {"none", "running", "status", "data", "finish", "done"}

Live(s) == stage[s] = "live"
IsRoot(s) == Live(s) /\ root[s] = s
Finished(s) == end[s] # 0

Tick == clock' = clock + 1

-----------------------------------------------------------------------------
Init ==
  /\ stage = [s \in Spans |-> "none"]
  /\ parent = [s \in Spans |-> NoSpan]
  /\ root = [s \in Spans |-> NoSpan]
  /\ client = [s \in Spans |-> "nil"]
  /\ sampled = [s \in Spans |-> FALSE]
  /\ children = [s \in Spans |-> {}]
  /\ start = [s \in Spans |-> 0]
  /\ end = [s \in Spans |-> 0]
  /\ status = [s \in Spans |-> "unset"]
  /\ tags = [s \in Spans |-> {}]
  /\ data = [s \in Spans |-> {}]
  /\ job = [s \in Spans |-> "none"]
  /\ outgoing = [s \in Spans |-> <<>>]
  /\ sent = [s \in Spans |-> <<>>]
  /\ clock = 0

-----------------------------------------------------------------------------
\* Mutant of Roll: at a rate of one the roll may still fail.
RollBelow(c) == IF c \in {"some", "all"} THEN BOOLEAN ELSE {FALSE}

\* The head-based roll: mathrand.Float64() is in [0, 1).
Roll(c) ==
  CASE c = "some" -> BOOLEAN
    [] c = "all" -> {TRUE}
    [] OTHER -> {FALSE}

\* StartTransaction, or StartSpan without a span in the context.  The context may
\* lack a hub, or the hub a client: the trace is then never sampled.
StartRoot(s, c) ==
  /\ s \in Roots
  /\ stage[s] = "none"
  /\ stage' = [stage EXCEPT ![s] = "live"]
  /\ root' = [root EXCEPT ![s] = s]
  /\ client' = [client EXCEPT ![s] = c]
  /\ \E roll \in Roll(c) : sampled' = [sampled EXCEPT ![s] = roll]
  /\ Tick
  /\ start' = [start EXCEPT ![s] = clock']
  /\ UNCHANGED <<parent, children, noteVars, end, outgoing, sent>>

StartTransaction(s, c) ==
  /\ StartRoot(s, c)
  /\ UNCHANGED job

StartJob(s, rate) ==
  /\ StartRoot(s, rate)
  /\ job' = [job EXCEPT ![s] = "running"]

\* StartSpan under the span p of the context, up to the lock.
BuildChild(s, p) ==
  /\ stage[s] = "none"
  /\ Live(p)
  /\ stage' = [stage EXCEPT ![s] = "building"]
  /\ parent' = [parent EXCEPT ![s] = p]
  /\ root' = [root EXCEPT ![s] = root[p]]
  /\ Tick
  /\ start' = [start EXCEPT ![s] = clock']
  /\ UNCHANGED <<client, sampled, children, noteVars, end, job, outgoing, sent>>

\* The end of StartSpan: the finished construction is published.
Register(s) ==
  /\ stage[s] = "building"
  /\ stage' = [stage EXCEPT ![s] = "live"]
  /\ children' = [children EXCEPT ![root[s]] = @ \cup {s}]
  /\ UNCHANGED <<parent, root, client, sampled, start, noteVars, end, job,
                 outgoing, sent, clock>>

\* SetTag and SetOp; nothing stops a goroutine from annotating a span that has
\* finished.
SetTag(s, mark) ==
  /\ Live(s)
  /\ tags' = [tags EXCEPT ![s] = @ \cup {mark}]
  /\ UNCHANGED <<treeVars, status, data, end, job, outgoing, sent, clock>>

SetData(s, mark) ==
  /\ Live(s)
  /\ data' = [data EXCEPT ![s] = @ \cup {mark}]
  /\ UNCHANGED <<treeVars, status, tags, end, job, outgoing, sent, clock>>

SetStatus(s, value) ==
  /\ Live(s)
  /\ status' = [status EXCEPT ![s] = value]
  /\ UNCHANGED <<treeVars, tags, data, end, job, outgoing, sent, clock>>

\* SetHTTPStatus: the mapped status and the raw code in one section.
SetHTTPStatus(s, value) ==
  /\ Live(s)
  /\ status' = [status EXCEPT ![s] = value]
  /\ data' = [data EXCEPT ![s] = @ \cup {"http.status_code"}]
  /\ UNCHANGED <<treeVars, tags, end, job, outgoing, sent, clock>>

-----------------------------------------------------------------------------
\* The children buildTransactionPayload does not skip.
Included(r) == {c \in children[r] : Finished(c)}

\* Mutants of SpanPayload: the span's own name, and the root's own parent, taken for
\* its parent's.
SpanPayloadOfItself(r, c) ==
  [span |-> c, parent |-> c, status |-> status[c],
   tags |-> tags[c], data |-> data[c],
   offset |-> start[c] - start[r], duration |-> end[c] - start[c]]
SpanPayloadOfRoot(r, c) ==
  [span |-> c, parent |-> parent[r], status |-> status[c],
   tags |-> tags[c], data |-> data[c],
   offset |-> start[c] - start[r], duration |-> end[c] - start[c]]

SpanPayload(r, c) ==
  [span |-> c, parent |-> parent[c], status |-> status[c],
   tags |-> tags[c], data |-> data[c],
   offset |-> start[c] - start[r], duration |-> end[c] - start[c]]

\* buildTransactionPayload for a root r that ends at the given time.  The payload
\* has no place for the root's own Data.
Payload(r, at) ==
  [status |-> status[r], tags |-> tags[r], duration |-> at - start[r],
   spans |-> {SpanPayload(r, c) : c \in Included(r)}]

\* Mutant of Finish: a finished span is finished again.
FinishAgain(s) ==
  /\ Live(s)
  /\ Tick
  /\ end' = [end EXCEPT ![s] = clock']
  /\ outgoing' = IF root[s] = s /\ sampled[s] /\ client[s] # "nil"
                   THEN [outgoing EXCEPT ![s] = Append(@, Payload(s, clock'))]
                   ELSE outgoing
  /\ UNCHANGED <<treeVars, noteVars, sent>>

\* Finish under the lock.  A second Finish changes nothing.
Finish(s) ==
  /\ Live(s)
  /\ ~Finished(s)
  /\ Tick
  /\ end' = [end EXCEPT ![s] = clock']
  /\ outgoing' = IF root[s] = s /\ sampled[s] /\ client[s] # "nil"
                   THEN [outgoing EXCEPT ![s] = <<Payload(s, clock')>>]
                   ELSE outgoing
  /\ UNCHANGED <<treeVars, noteVars, sent>>

\* Finish called by the application.
FinishSpan(s) ==
  /\ Finish(s)
  /\ UNCHANGED job

\* Mutants of Send: the payload is lost, or built after the unlock only.
SendNothing(r) ==
  /\ outgoing[r] # <<>>
  /\ outgoing' = [outgoing EXCEPT ![r] = Tail(@)]
  /\ UNCHANGED <<treeVars, noteVars, end, job, sent, clock>>
SendLate(r) ==
  /\ outgoing[r] # <<>>
  /\ sent' = [sent EXCEPT ![r] = Append(@, Payload(r, end[r]))]
  /\ outgoing' = [outgoing EXCEPT ![r] = Tail(@)]
  /\ UNCHANGED <<treeVars, noteVars, end, job, clock>>

\* The end of the root's Finish: captureTransactionAsync, after the unlock.
Send(r) ==
  /\ outgoing[r] # <<>>
  /\ sent' = [sent EXCEPT ![r] = Append(@, Head(outgoing[r]))]
  /\ outgoing' = [outgoing EXCEPT ![r] = Tail(@)]
  /\ UNCHANGED <<treeVars, noteVars, end, job, clock>>

-----------------------------------------------------------------------------
\* FinishJob: SetStatus and SetData when the work failed, then Finish, which finds
\* the span finished if the application has done so already.
FailJob(s) ==
  /\ job[s] = "running"
  /\ job' = [job EXCEPT ![s] = "status"]
  /\ UNCHANGED <<treeVars, noteVars, end, outgoing, sent, clock>>

CompleteJob(s) ==
  /\ job[s] = "running"
  /\ job' = [job EXCEPT ![s] = "finish"]
  /\ UNCHANGED <<treeVars, noteVars, end, outgoing, sent, clock>>

SetJobStatus(s) ==
  /\ job[s] = "status"
  /\ status' = [status EXCEPT ![s] = "internal_error"]
  /\ job' = [job EXCEPT ![s] = "data"]
  /\ UNCHANGED <<treeVars, tags, data, end, outgoing, sent, clock>>

SetJobError(s) ==
  /\ job[s] = "data"
  /\ data' = [data EXCEPT ![s] = @ \cup {"error"}]
  /\ job' = [job EXCEPT ![s] = "finish"]
  /\ UNCHANGED <<treeVars, status, tags, end, outgoing, sent, clock>>

FinishJob(s) ==
  /\ job[s] = "finish"
  /\ job' = [job EXCEPT ![s] = "done"]
  /\ \/ Finish(s)
     \/ /\ Finished(s)
        /\ UNCHANGED <<treeVars, noteVars, end, outgoing, sent, clock>>

-----------------------------------------------------------------------------
Start(s) ==
  \/ \E c \in Clients : StartTransaction(s, c)
  \/ \E rate \in Rates : StartJob(s, rate)
  \/ \E p \in Spans : BuildChild(s, p)

JobStep(s) == SetJobStatus(s) \/ SetJobError(s) \/ FinishJob(s)

Note(s) ==
  /\ s \in Annotated
  /\ \/ \E mark \in Marks : SetTag(s, mark) \/ SetData(s, mark)
     \/ \E value \in Statuses : SetStatus(s, value) \/ SetHTTPStatus(s, value)

Next ==
  \E s \in Spans :
    \/ Start(s)
    \/ Register(s)
    \/ Note(s)
    \/ FinishSpan(s)
    \/ FailJob(s)
    \/ CompleteJob(s)
    \/ JobStep(s)
    \/ Send(s)

Spec == Init /\ [][Next]_vars

\* A goroutine inside StartSpan, Finish or FinishJob gets to the end of it.
Fairness ==
  \A s \in Spans : WF_vars(Register(s)) /\ WF_vars(JobStep(s)) /\ WF_vars(Send(s))

FairSpec == Spec /\ Fairness
=============================================================================
