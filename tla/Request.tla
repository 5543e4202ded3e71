------------------------------ MODULE Request ------------------------------
(***************************************************************************)
(* One request through the middleware (fiber/bikeeperfiber.go and          *)
(* echo/bikeeperecho.go, New): a hub and a transaction are stored in the   *)
(* request's context, the handler runs, and what it left behind decides    *)
(* whether the middleware reports the failure itself.  The handler and the *)
(* goroutines it starts use their hubs as module Hub says; the response is *)
(* abstracted to its class.                                                *)
(***************************************************************************)
EXTENDS Hub

CONSTANTS
  Handler,     \* the goroutine that serves the request
  Frameworks   \* "fiber", "echo" or both

ASSUME RequestAssumption ==
  /\ Handler \in Goroutines
  /\ Frameworks \subseteq {"fiber", "echo"}

VARIABLES
  framework,   \* which middleware serves the request
  options,     \* its Options: a subset of {"repanic", "disabled"}
  phase,       \* how far the middleware has come
  response,    \* the class of the response's status: "ok" or "5xx"
  err,         \* what the handler returned: "none", "4xx" or "5xx"
  marked,      \* fiber's Locals(capturedKey)
  reports,     \* the middleware's own events, in order
  transaction, \* "open", or the status class it finished with
  finishes,    \* history: calls of transaction.Finish
  panicked,    \* history: the handler has panicked
  events,      \* history: what captures have handed to the client: by whom, and
               \* whether they went by the request's own scope
  vouched      \* history: the application has called Hub.MarkCaptured

middlewareVars == <<framework, options, phase, response, err, marked, reports,
                    transaction, finishes, panicked>>
vars == <<hubVars, middlewareVars, events, vouched>>

Init ==
  /\ HubInit
  /\ framework \in Frameworks
  /\ options \in SUBSET {"repanic", "disabled"}
  /\ phase = "handler"
  /\ response = "ok"
  /\ err = "none"
  /\ marked = FALSE
  /\ reports = <<>>
  /\ transaction = "open"
  /\ finishes = 0
  /\ panicked = FALSE
  /\ events = {}
  /\ vouched = FALSE

-----------------------------------------------------------------------------
\* The handler's own steps; a call of the hub keeps it until the call returns.
Serving == phase = "handler" /\ draft[Handler] = NoDraft

\* What a goroutine may do with hubs: the handler while it serves, the others from
\* then on, for as long as they like.
MayRun(g) == g = Handler => phase = "handler"

UseHub(g) ==
  /\ MayRun(g)
  /\ ObtainHub(g) \/ HubCall(g)
  /\ UNCHANGED <<middlewareVars, events, vouched>>

\* Hub.MarkCaptured.
VouchForEvent(g) ==
  /\ MayRun(g)
  /\ Vouch(g)
  /\ vouched' = TRUE
  /\ UNCHANGED <<middlewareVars, events>>

\* The rest of a capture call ...
ContinueCapture(g) ==
  /\ BuildEvent(g)
  /\ UNCHANGED <<middlewareVars, events, vouched>>

\* ... up to CaptureEventAsync.
EndCapture(g) ==
  /\ Deliver(g)
  /\ events' = events \cup {[by |-> g, onBase |-> draft[g].scope = Base]}
  /\ UNCHANGED <<middlewareVars, vouched>>

\* The package's own CaptureException and CaptureMessage, which take the framework's
\* context: the event goes to the client past every scope, and nothing is marked.
CaptureDirect ==
  /\ Serving
  /\ events' = events \cup {[by |-> Handler, onBase |-> FALSE]}
  /\ UNCHANGED <<hubVars, middlewareVars, vouched>>

\* The handler returns e; it has written a response, and in fiber it may have called
\* bikeeperfiber.MarkCaptured(c), neither of which a hub hears of.
Return(e) ==
  /\ Serving
  /\ open[Handler] = <<>>
  /\ phase' = "returned"
  /\ err' = e
  /\ response' \in {"ok", "5xx"}
  /\ marked' \in {FALSE, framework = "fiber"}
  /\ UNCHANGED <<hubVars, framework, options, reports, transaction, finishes,
                 panicked, events, vouched>>

Panic ==
  /\ Serving
  /\ phase' = "panicking"
  /\ panicked' = TRUE
  /\ UNCHANGED <<hubVars, framework, options, response, err, marked, reports,
                 transaction, finishes, events, vouched>>

\* The deferred ends of the WithScope calls that the panic goes through.
Unwind ==
  /\ phase = "panicking"
  /\ EndWithScope(Handler)
  /\ UNCHANGED <<middlewareVars, events, vouched>>

-----------------------------------------------------------------------------
Finish(status) ==
  /\ transaction' = IF transaction = "open" THEN status ELSE transaction
  /\ finishes' = finishes + 1

\* Mutant of FinishTransaction: the status is that of the error.
FinishWithError ==
  /\ phase = "returned"
  /\ Finish(err)
  /\ phase' = "check"
  /\ UNCHANGED <<hubVars, framework, options, response, err, marked, reports,
                 panicked, events, vouched>>

\* After the handler: SetHTTPStatus of the response as it is now, before the
\* framework's error handler has written that of an error, and Finish.
FinishTransaction ==
  /\ phase = "returned"
  /\ Finish(response)
  /\ phase' = "check"
  /\ UNCHANGED <<hubVars, framework, options, response, err, marked, reports,
                 panicked, events, vouched>>

\* hub.HasCaptured(), on the middleware's own hub.
HasCaptured == captured[current[Stored]]

\* Only fiber looks at the response when the handler returned no error.
Failed ==
  \/ err = "5xx"
  \/ framework = "fiber" /\ err = "none" /\ response = "5xx"

\* Mutant of ReportDue: HasCaptured is not asked.
ReportDueUnlessMarked ==
  "disabled" \notin options /\ ~marked /\ Failed

\* Mutant of ReportDue: a 5xx that the handler wrote itself is overlooked.
ReportDueOnError ==
  "disabled" \notin options /\ ~(marked \/ HasCaptured) /\ err = "5xx"

\* Whether the middleware will capture the failure itself.
ReportDue ==
  "disabled" \notin options /\ ~(marked \/ HasCaptured) /\ Failed

CheckCaptured ==
  /\ phase = "check"
  /\ phase' = IF ReportDue THEN "report" ELSE "over"
  /\ UNCHANGED <<hubVars, framework, options, response, err, marked, reports,
                 transaction, finishes, panicked, events, vouched>>

\* captureHTTPEvent.
Report ==
  /\ phase = "report"
  /\ reports' = Append(reports, "error")
  /\ phase' = "over"
  /\ UNCHANGED <<hubVars, framework, options, response, err, marked,
                 transaction, finishes, panicked, events, vouched>>

\* Mutant of ReportPanic: the framework reports a panic that is repeated.
ReportPanicUnlessRepeated ==
  /\ phase = "panicking"
  /\ open[Handler] = <<>>
  /\ reports' = IF "repanic" \in options THEN reports ELSE Append(reports, "fatal")
  /\ phase' = "recovered"
  /\ UNCHANGED <<hubVars, framework, options, response, err, marked,
                 transaction, finishes, panicked, events, vouched>>

\* recover(): capturePanicEvent, whatever has been captured before.
ReportPanic ==
  /\ phase = "panicking"
  /\ open[Handler] = <<>>
  /\ reports' = Append(reports, "fatal")
  /\ phase' = "recovered"
  /\ UNCHANGED <<hubVars, framework, options, response, err, marked,
                 transaction, finishes, panicked, events, vouched>>

\* The rest of the recovery: the status is set and the transaction finished, then
\* the panic goes on outward, or the middleware answers in its place.
EndRecovery ==
  /\ phase = "recovered"
  /\ Finish("5xx")
  /\ IF "repanic" \in options
     THEN phase' = "repanicked" /\ UNCHANGED <<response, err>>
     ELSE /\ phase' = "over"
          /\ err' = "5xx"
          /\ response' = IF framework = "fiber" THEN "5xx" ELSE response
  /\ UNCHANGED <<hubVars, framework, options, marked, reports, panicked, events,
                 vouched>>

-----------------------------------------------------------------------------
Next ==
  \/ \E g \in Goroutines :
       UseHub(g) \/ VouchForEvent(g) \/ ContinueCapture(g) \/ EndCapture(g)
  \/ CaptureDirect \/ (\E e \in {"none", "4xx", "5xx"} : Return(e)) \/ Panic \/ Unwind
  \/ FinishTransaction \/ CheckCaptured \/ Report
  \/ ReportPanic \/ EndRecovery

Spec == Init /\ [][Next]_vars

\* Code that has begun goes on; when the handler ends, and what it and the other
\* goroutines call meanwhile, is the application's affair.
Middleware ==
  \/ Unwind \/ FinishTransaction \/ CheckCaptured \/ Report
  \/ ReportPanic \/ EndRecovery
FairSpec ==
  /\ Spec
  /\ WF_vars(Middleware)
  /\ \A g \in Goroutines : WF_vars(ContinueCapture(g) \/ EndCapture(g))
=============================================================================
