----------------------------- MODULE Instrument -----------------------------
(***************************************************************************)
(* The integrations that put spans around calls of a driver: the pgx       *)
(* tracer with its chain (pgx/tracer.go, pgx/chain.go) and the redis hook  *)
(* (redis/hook.go), on top of the application's own use of Trace.          *)
(*                                                                         *)
(* A call is one query, batch, command or pipeline.  pgx asks its tracer   *)
(* before and after it and keeps nothing in between but the context that   *)
(* the tracer returned; the members of a chain leave what they need at the *)
(* end in that context.  The redis hook runs around its call and keeps the *)
(* span in a local variable.                                               *)
(***************************************************************************)
EXTENDS Trace

CONSTANTS
  Calls,     \* the calls of a run
  NoCall,
  KindsOf,   \* bound: by call, what it may be of Kinds
  Chain,     \* what is installed in pgx: "tracer" is bikeeperpgx.Tracer, "full" and
             \* "queries" are others, the last without the batch callbacks
  Hubs,      \* bound: what hub a context without a span may hold: its client, or "absent"
  Noted      \* bound: the spans of its own that the application annotates

Kinds == {"query", "batch", "command", "pipeline"}

\* One Tracer at most: two would use one key of the context.
ASSUME InstrumentAssumption ==
  /\ NoCall \notin Calls
  /\ KindsOf \in [Calls -> SUBSET Kinds]
  /\ Chain \in Seq({"tracer", "full", "queries"})
  /\ Chain # <<>>
  /\ \A i, j \in DOMAIN Chain : Chain[i] = "tracer" /\ Chain[j] = "tracer" => i = j
  /\ Hubs \subseteq Clients \cup {"absent"}
  /\ {"error", "command"} \subseteq Marks
  /\ Annotated = Spans

VARIABLES
  kind,     \* what a call is; set when it begins
  line,     \* where a call has got to
  context,  \* the caller's context: its span, and its hub's client
  at,       \* the member of the chain whose turn it is
  left,     \* by member: the call whose start left the value that the context holds
  spanOf,   \* the span started for a call
  outcome   \* how the driver's work ended

callVars == <<kind, line, context, at, left, spanOf, outcome>>
allVars == <<vars, callVars>>

Lines == {"idle", "starting", "building", "entering", "running", "returned",
          "ending", "status", "data", "finish", "over", "abandoned"}
Outcomes == {"none", "ok", "failed", "miss"}

OfRedis(c) == kind[c] \in {"command", "pipeline"}
Members(c) == IF OfRedis(c) THEN <<"hook">> ELSE Chain
Hears(c, i) == kind[c] = "batch" => Members(c)[i] # "queries"
OurMember(c, i) == Members(c)[i] \in {"tracer", "hook"}

NothingLeft == [i \in 1 .. Len(Chain) |-> NoCall]
CallSpans == {spanOf[c] : c \in Calls} \ {NoSpan}

InstrumentInit ==
  /\ Init
  /\ kind = [c \in Calls |-> "query"]
  /\ line = [c \in Calls |-> "idle"]
  /\ context = [c \in Calls |-> [span |-> NoSpan, hub |-> "absent"]]
  /\ at = [c \in Calls |-> 0]
  /\ left = [c \in Calls |-> NothingLeft]
  /\ spanOf = [c \in Calls |-> NoSpan]
  /\ outcome = [c \in Calls |-> "none"]

-----------------------------------------------------------------------------
(***************************************************************************)
(* Before the call: chain.TraceQueryStart and TraceBatchStart, and what    *)
(* comes before next in the hook.                                          *)
(***************************************************************************)
Goto(c, to) == line' = [line EXCEPT ![c] = to]

Enter(c, k, span, hub, inherited) ==
  /\ line[c] = "idle"
  /\ kind' = [kind EXCEPT ![c] = k]
  /\ Goto(c, "starting")
  /\ context' = [context EXCEPT ![c] = [span |-> span, hub |-> hub]]
  /\ at' = [at EXCEPT ![c] = 1]
  /\ left' = [left EXCEPT ![c] = inherited]
  /\ UNCHANGED <<vars, spanOf, outcome>>

\* The application calls the driver, with a span of its own in the context or none;
\* with a span there, the hub does not matter.
Begin(c, k) ==
  \/ \E s \in Spans \ CallSpans : Live(s) /\ Enter(c, k, s, "absent", NothingLeft)
  \/ \E hub \in Hubs : Enter(c, k, NoSpan, hub, NothingLeft)

\* A callback of pgx (a QueryRewriter) makes a call with the context that the
\* tracers of the one under way have returned.
BeginWithin(c, k, outer) ==
  /\ line[outer] = "running" /\ ~OfRedis(outer)
  /\ Enter(c, k, context[outer].span, context[outer].hub, left[outer])

\* SpanFromContext(ctx) != nil || HasHub(ctx).
Tracing(c) == context[c].span # NoSpan \/ context[c].hub # "absent"

\* Mutant of Leave: every member is given the caller's context.
LeaveAlone(c) == left' = [left EXCEPT ![c] = [NothingLeft EXCEPT ![at[c]] = c]]

\* Member at[c] has had its turn; the context it returns goes to the next one.
Leave(c) == left' = [left EXCEPT ![c][at[c]] = c]

IsTurn(c) == line[c] = "starting" /\ at[c] \in DOMAIN Members(c)

\* Another tracer keeps its own state under its own key; without the callback it is
\* passed over, and so is ours when nothing could be sent.
StartOther(c) ==
  /\ IsTurn(c)
  /\ ~OurMember(c, at[c]) \/ ~Tracing(c)
  /\ IF ~OurMember(c, at[c]) /\ Hears(c, at[c]) THEN Leave(c) ELSE UNCHANGED left
  /\ at' = [at EXCEPT ![c] = @ + 1]
  /\ UNCHANGED <<vars, kind, line, context, spanOf, outcome>>

IsOurTurn(c) == IsTurn(c) /\ OurMember(c, at[c]) /\ Tracing(c)

\* bikeeper.StartSpan with no span in the context: the call is a trace of its own.
StartRootSpan(c, s) ==
  /\ IsOurTurn(c)
  /\ context[c].span = NoSpan
  /\ StartTransaction(s, context[c].hub)
  /\ spanOf' = [spanOf EXCEPT ![c] = s]
  /\ Leave(c)
  /\ at' = [at EXCEPT ![c] = @ + 1]
  /\ UNCHANGED <<kind, line, context, outcome>>

BuildSpan(c, s) ==
  /\ IsOurTurn(c)
  /\ context[c].span # NoSpan
  /\ BuildChild(s, context[c].span)
  /\ spanOf' = [spanOf EXCEPT ![c] = s]
  /\ Goto(c, "building")
  /\ UNCHANGED <<kind, context, at, left, outcome>>

RegisterSpan(c) ==
  /\ line[c] = "building"
  /\ Register(spanOf[c])
  /\ Leave(c)
  /\ at' = [at EXCEPT ![c] = @ + 1]
  /\ Goto(c, "starting")
  /\ UNCHANGED <<kind, context, spanOf, outcome>>

\* The last member has returned; ProcessPipelineHook records the count of its commands.
StartsAreOver(c) ==
  /\ line[c] = "starting" /\ at[c] > Len(Members(c))
  /\ Goto(c, IF kind[c] = "pipeline" /\ Tracing(c) THEN "entering" ELSE "running")
  /\ UNCHANGED <<vars, kind, context, at, left, spanOf, outcome>>

DescribePipeline(c) ==
  /\ line[c] = "entering"
  /\ SetData(spanOf[c], "command")
  /\ Goto(c, "running")
  /\ UNCHANGED <<kind, context, at, left, spanOf, outcome>>

-----------------------------------------------------------------------------
(***************************************************************************)
(* After it: the chain in reverse, and finish.                             *)
(***************************************************************************)

\* The driver is done.  A miss is redis.Nil.
Return(c, result) ==
  /\ line[c] = "running"
  /\ result = "miss" => OfRedis(c)
  /\ outcome' = [outcome EXCEPT ![c] = result]
  /\ at' = [at EXCEPT ![c] = Len(Members(c))]
  /\ Goto(c, IF kind[c] = "command" /\ Tracing(c) THEN "returned" ELSE "ending")
  /\ UNCHANGED <<vars, kind, context, left, spanOf>>

\* The driver panics, or rows are never closed: neither the hook nor pgx asks for an
\* end then.
Abandon(c) ==
  /\ line[c] = "running"
  /\ Goto(c, "abandoned")
  /\ UNCHANGED <<vars, kind, context, at, left, spanOf, outcome>>

\* ProcessHook describes its command when it has been carried out.
DescribeCommand(c) ==
  /\ line[c] = "returned"
  /\ SetData(spanOf[c], "command")
  /\ Goto(c, "ending")
  /\ UNCHANGED <<kind, context, at, left, spanOf, outcome>>

IsEndTurn(c) == line[c] = "ending" /\ at[c] > 0

\* Mutant of Found: the span of the caller.
FoundActive(c) == context[c].span

\* The span that finish is given: the hook's own, or the one in the context.
Found(c) ==
  IF OfRedis(c) THEN spanOf[c]
  ELSE IF left[c][at[c]] = NoCall THEN NoSpan ELSE spanOf[left[c][at[c]]]

\* A member that keeps no span, or the tracer that finds none in the context.
EndOther(c) ==
  /\ IsEndTurn(c)
  /\ ~OurMember(c, at[c]) \/ Found(c) = NoSpan
  /\ at' = [at EXCEPT ![c] = @ - 1]
  /\ UNCHANGED <<vars, kind, line, context, left, spanOf, outcome>>

\* Mutant of Fails: a miss is taken for a failure.
FailsOnMiss(c) == outcome[c] # "ok"

Fails(c) == outcome[c] = "failed"

StartFinish(c) ==
  /\ IsEndTurn(c)
  /\ OurMember(c, at[c]) /\ Found(c) # NoSpan
  /\ Goto(c, IF Fails(c) THEN "status" ELSE "finish")
  /\ UNCHANGED <<vars, kind, context, at, left, spanOf, outcome>>

SetFailure(c) ==
  /\ line[c] = "status"
  /\ SetStatus(Found(c), "internal_error")
  /\ Goto(c, "data")
  /\ UNCHANGED <<kind, context, at, left, spanOf, outcome>>

SetError(c) ==
  /\ line[c] = "data"
  /\ SetData(Found(c), "error")
  /\ Goto(c, "finish")
  /\ UNCHANGED <<kind, context, at, left, spanOf, outcome>>

\* Finish, which does nothing the second time.
EndSpan(c) ==
  /\ line[c] = "finish"
  /\ \/ FinishSpan(Found(c))
     \/ Finished(Found(c)) /\ UNCHANGED vars
  /\ at' = [at EXCEPT ![c] = @ - 1]
  /\ Goto(c, "ending")
  /\ UNCHANGED <<kind, context, left, spanOf, outcome>>

\* Mutant of EndsAreOver: the walk goes one step too far.
EndsBelowZero(c) ==
  /\ line[c] = "ending" /\ at[c] = 0
  /\ at' = [at EXCEPT ![c] = @ - 1]
  /\ Goto(c, "over")
  /\ UNCHANGED <<vars, kind, context, left, spanOf, outcome>>

EndsAreOver(c) ==
  /\ line[c] = "ending" /\ at[c] = 0
  /\ Goto(c, "over")
  /\ UNCHANGED <<vars, kind, context, at, left, spanOf, outcome>>

-----------------------------------------------------------------------------
\* What goes on by itself once a call is under way.
CallStep(c) ==
  \/ StartOther(c)
  \/ \E s \in Spans : StartRootSpan(c, s) \/ BuildSpan(c, s)
  \/ RegisterSpan(c)
  \/ StartsAreOver(c) \/ DescribePipeline(c) \/ DescribeCommand(c)
  \/ EndOther(c) \/ StartFinish(c) \/ SetFailure(c) \/ SetError(c)
  \/ EndSpan(c) \/ EndsAreOver(c)

\* The application with its own spans; it has no way to a span of a call.
StartSpan(s) ==
  /\ s \notin CallSpans
  /\ Start(s)
  /\ parent'[s] \notin CallSpans
  /\ UNCHANGED callVars

PublishSpan(s) == s \notin CallSpans /\ Register(s) /\ UNCHANGED callVars

UseSpan(s) ==
  /\ s \notin CallSpans
  /\ (s \in Noted /\ Note(s)) \/ FinishSpan(s) \/ FailJob(s) \/ CompleteJob(s)
  /\ UNCHANGED callVars

RunJob(s) == JobStep(s) /\ UNCHANGED callVars
SendReport(r) == Send(r) /\ UNCHANGED callVars

InstrumentNext ==
  \/ \E c \in Calls :
       \/ \E k \in KindsOf[c] :
            Begin(c, k) \/ \E outer \in Calls : BeginWithin(c, k, outer)
       \/ CallStep(c)
       \/ \E result \in Outcomes \ {"none"} : Return(c, result)
       \/ Abandon(c)
  \/ \E s \in Spans :
       StartSpan(s) \/ PublishSpan(s) \/ UseSpan(s) \/ RunJob(s) \/ SendReport(s)

InstrumentSpec == InstrumentInit /\ [][InstrumentNext]_allVars
=============================================================================
