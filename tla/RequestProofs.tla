---------------------------- MODULE RequestProofs ----------------------------
(***************************************************************************)
(* Proofs about Request, for any number of goroutines and scopes and for   *)
(* both frameworks.  Every step of a request is a step of its hubs or      *)
(* leaves them alone, so what HubProofs shows of hubs holds here.          *)
(***************************************************************************)
EXTENDS RequestProperties, HubProofs

\* The goroutine g has handed over an event, made through the request's own scope.
OnBase(g) == [by |-> g, onBase |-> TRUE]
Told(kind) == kind \in {reports[i] : i \in DOMAIN reports}

\* The handler is in no capture once it has ended, and its callbacks have ended
\* before the middleware goes on.
HandlerIsDone ==
  /\ phase # "handler" => draft[Handler] = NoDraft
  /\ phase \notin {"handler", "panicking"} => open[Handler] = <<>>

\* An event made through the request's scope has left its mark there first.
MarkedFirst ==
  /\ \A g \in Goroutines : draft[g].marked /\ draft[g].scope = Base => captured[Base]
  /\ \A e \in events : e.onBase => captured[Base]

\* The middleware reports a failure only where the handler has not.
NotTwice == phase = "report" \/ Told("error") => OnBase(Handler) \notin events

\* What the middleware leaves behind, where the handler panicked and where it did not.
PanicIsSettled ==
  /\ reports = <<"fatal">>
  /\ transaction = "5xx"
  /\ phase = "over" =>
       "repanic" \notin options /\ err = "5xx" /\ (framework = "fiber" => response = "5xx")
ReturnIsSettled == reports = <<>> \/ reports = <<"error">>

\* What the middleware has done by the line that it has reached.
Progress ==
  /\ phase \in {"handler", "returned", "panicking", "recovered"} =>
       finishes = 0 /\ transaction = "open"
  /\ phase \in {"check", "report", "over", "repanicked"} =>
       finishes = 1 /\ transaction # "open"
  /\ phase \notin {"recovered", "over", "repanicked"} => reports = <<>>
  /\ phase = "recovered" => reports = <<"fatal">>
  /\ phase \in {"handler", "returned", "check", "report"} => ~panicked
  /\ phase \in {"panicking", "recovered", "repanicked"} => panicked
  /\ phase = "repanicked" => "repanic" \in options
  /\ phase \in {"over", "repanicked"} => IF panicked THEN PanicIsSettled ELSE ReturnIsSettled

RequestInv ==
  Inv /\ RequestTypeOK /\ HandlerIsDone /\ MarkedFirst /\ NotTwice /\ Progress

LEMMA StepIsHubStep == [Next]_vars => [HubNext]_hubVars
  <1> SUFFICES ASSUME [Next]_vars PROVE [HubNext]_hubVars
    OBVIOUS
  <1>1. CASE UNCHANGED vars
    BY <1>1 DEF vars
  <1>2. ASSUME NEW g \in Goroutines,
               UseHub(g) \/ VouchForEvent(g) \/ ContinueCapture(g) \/ EndCapture(g)
        PROVE  HubNext
    BY <1>2 DEF UseHub, VouchForEvent, ContinueCapture, EndCapture, HubNext
  <1>3. CASE Unwind
    BY <1>3, RequestAssumption DEF Unwind, HubNext, HubCall
  <1>4. CASE CaptureDirect \/ (\E e \in {"none", "4xx", "5xx"} : Return(e)) \/ Panic
    BY <1>4 DEF CaptureDirect, Return, Panic
  <1>5. CASE FinishTransaction \/ CheckCaptured \/ Report \/ ReportPanic \/ EndRecovery
    BY <1>5 DEF FinishTransaction, CheckCaptured, Report, ReportPanic, EndRecovery
  <1> QED
    BY <1>1, <1>2, <1>3, <1>4, <1>5 DEF Next

\* A request does with hubs what module Hub allows, so each theorem about HubSpec is
\* one about requests (bikeeperfiber.go:115-135, bikeeperecho.go:77-97).
THEOREM RequestIsHub == Spec => HubSpec
  <1>1. Init => HubInit
    BY DEF Init
  <1>2. [Next]_vars => [HubNext]_hubVars
    BY StepIsHubStep
  <1> QED
    BY <1>1, <1>2, PTL DEF Spec, HubSpec

LEMMA RequestInit == Init => RequestInv
  <1> SUFFICES ASSUME Init PROVE RequestInv
    OBVIOUS
  <1>1. Inv
    BY TypeInit DEF Init
  <1>2. RequestTypeOK
    <2>1. marked \in BOOLEAN /\ vouched \in BOOLEAN
      BY DEF Init
    <2>2. reports \in Seq({"error", "fatal"}) /\ finishes \in Nat
      BY DEF Init
    <2> QED
      BY <2>1, <2>2 DEF Init, RequestTypeOK
  <1>3. HandlerIsDone /\ MarkedFirst /\ NotTwice /\ Progress
    BY RequestAssumption
       DEF Init, HubInit, NoDraft, HandlerIsDone, MarkedFirst, NotTwice, Told, Progress
  <1> QED
    BY <1>1, <1>2, <1>3 DEF RequestInv

-----------------------------------------------------------------------------
(***************************************************************************)
(* The steps of hubs.                                                      *)
(***************************************************************************)

\* What a call of a hub leaves alone: the marks, and other goroutines' captures and
\* callbacks.
LEMMA HubCallFrame ==
  ASSUME Inv, NEW g \in Goroutines, ObtainHub(g) \/ HubCall(g)
  PROVE  /\ captured' = captured
         /\ \A t \in Goroutines : t # g => draft'[t] = draft[t] /\ open'[t] = open[t]
         /\ draft'[g].marked => draft[g].marked /\ draft'[g] = draft[g]
  <1> USE DEF scopeVars
  <1>1. /\ draft \in [Goroutines -> Drafts]
        /\ open \in [Goroutines -> Seq([original : Scopes, clone : Scopes])]
    BY DEF Inv, TypeOK
  <1>2. CASE ObtainHub(g)
    BY <1>2 DEF ObtainHub, GetHub, ShareHub, CloneHub, Allocate
  <1>3. CASE WithScope(g)
    BY <1>1, <1>3 DEF WithScope, Allocate
  <1>4. CASE EndWithScope(g)
    BY <1>1, <1>4 DEF EndWithScope
  <1>5. CASE \E k \in Kinds : Annotate(g, k)
    BY <1>5 DEF Annotate
  <1>6. ASSUME NEW s, StartDraft(g, s)
        PROVE  /\ captured' = captured
               /\ \A t \in Goroutines : t # g => draft'[t] = draft[t] /\ open'[t] = open[t]
               /\ draft'[g].marked => draft[g].marked /\ draft'[g] = draft[g]
    BY <1>1, <1>6 DEF StartDraft, NoDraft
  <1> QED
    BY <1>2, <1>3, <1>4, <1>5, <1>6 DEF HubCall, Capture, CaptureWithContext

LEMMA UseHubStep ==
  ASSUME RequestInv, NEW g \in Goroutines, UseHub(g)
  PROVE  HandlerIsDone' /\ MarkedFirst' /\ NotTwice' /\ Progress'
  <1>1. /\ captured' = captured
        /\ \A t \in Goroutines : t # g => draft'[t] = draft[t] /\ open'[t] = open[t]
        /\ draft'[g].marked => draft[g].marked /\ draft'[g] = draft[g]
    BY HubCallFrame DEF RequestInv, UseHub
  <1>2. UNCHANGED <<middlewareVars, events, vouched>> /\ MayRun(g)
    BY DEF UseHub
  <1>3. HandlerIsDone'
    BY <1>1, <1>2, RequestAssumption
       DEF RequestInv, HandlerIsDone, MayRun, middlewareVars
  <1>4. MarkedFirst'
    BY <1>1, <1>2 DEF RequestInv, MarkedFirst
  <1>5. NotTwice' /\ Progress'
    BY <1>2 DEF RequestInv, NotTwice, Told, OnBase, Progress, PanicIsSettled, ReturnIsSettled,
           middlewareVars
  <1> QED
    BY <1>3, <1>4, <1>5

\* A mark, by the application or by a capture; a read changes no mark.
LEMMA MarkingStep ==
  ASSUME RequestInv, NEW g \in Goroutines, VouchForEvent(g) \/ ContinueCapture(g)
  PROVE  HandlerIsDone' /\ MarkedFirst' /\ NotTwice' /\ Progress'
  <1>1. draft \in [Goroutines -> Drafts] /\ captured \in [Scopes -> BOOLEAN]
        /\ Base \in Scopes
    <2>1. draft \in [Goroutines -> Drafts] /\ captured \in [Scopes -> BOOLEAN]
      BY DEF RequestInv, Inv, TypeOK
    <2>2. Base \in Scopes
      BY HubAssumption DEF Base, Scopes
    <2> QED
      BY <2>1, <2>2
  <1>2. UNCHANGED <<middlewareVars, events, open>>
    BY DEF VouchForEvent, Vouch, ContinueCapture, BuildEvent, ReadNotes, MarkCaptured
  <1>3. /\ captured[Base] => captured'[Base]
        /\ \A t \in Goroutines : t # g => draft'[t] = draft[t]
        /\ draft'[g].marked /\ draft'[g].scope = Base => captured'[Base]
        /\ draft[g] = NoDraft => draft'[g] = NoDraft
    <2>1. draft[g] \in Drafts
      BY <1>1
    <2>2. MarkedFirst
      BY DEF RequestInv
    <2>3. CASE Vouch(g)
      BY <1>1, <2>2, <2>3 DEF Vouch, MarkedFirst
    <2>4. CASE ReadNotes(g)
      <3>1. PICK k \in draft[g].todo :
              /\ draft' = [draft EXCEPT ![g].got[k] = note[draft[g].scope][k],
                                        ![g].todo = @ \ {k}]
              /\ captured' = captured
        BY <2>4 DEF ReadNotes, scopeVars
      <3>2. /\ \A t \in Goroutines : t # g => draft'[t] = draft[t]
            /\ draft'[g].marked = draft[g].marked /\ draft'[g].scope = draft[g].scope
        BY <1>1, <2>1, <3>1 DEF Drafts
      <3>3. draft[g] # NoDraft
        BY <3>1 DEF NoDraft
      <3> QED
        BY <2>2, <3>1, <3>2, <3>3 DEF MarkedFirst
    <2>5. CASE MarkCaptured(g)
      <3>1. /\ draft' = [draft EXCEPT ![g].marked = TRUE]
            /\ captured' = [captured EXCEPT ![draft[g].scope] = TRUE]
            /\ draft[g].scope # 0
        BY <2>5 DEF MarkCaptured
      <3>2. /\ \A t \in Goroutines : t # g => draft'[t] = draft[t]
            /\ draft'[g].scope = draft[g].scope
        BY <1>1, <2>1, <3>1 DEF Drafts
      <3>3. draft[g] # NoDraft
        BY <3>1 DEF NoDraft
      <3> QED
        BY <1>1, <3>1, <3>2, <3>3
    <2> QED
      BY <2>3, <2>4, <2>5 DEF VouchForEvent, ContinueCapture, BuildEvent
  <1>4. HandlerIsDone'
    BY <1>2, <1>3, RequestAssumption DEF RequestInv, HandlerIsDone, middlewareVars
  <1>5. MarkedFirst'
    BY <1>2, <1>3 DEF RequestInv, MarkedFirst
  <1>6. NotTwice' /\ Progress'
    BY <1>2 DEF RequestInv, NotTwice, Told, OnBase, Progress, PanicIsSettled, ReturnIsSettled,
           middlewareVars
  <1> QED
    BY <1>4, <1>5, <1>6

\* The handler hands an event over only while it serves.
LEMMA EndCaptureStep ==
  ASSUME RequestInv, NEW g \in Goroutines, EndCapture(g)
  PROVE  HandlerIsDone' /\ MarkedFirst' /\ NotTwice' /\ Progress'
  <1>1. /\ draft[g].marked /\ draft' = [draft EXCEPT ![g] = NoDraft]
        /\ events' = events \cup {[by |-> g, onBase |-> draft[g].scope = Base]}
        /\ UNCHANGED <<middlewareVars, captured, open>>
    BY DEF EndCapture, Deliver, scopeVars
  <1>2. draft \in [Goroutines -> Drafts]
    BY DEF RequestInv, Inv, TypeOK
  <1>3. HandlerIsDone'
    BY <1>1, <1>2, RequestAssumption DEF RequestInv, HandlerIsDone, middlewareVars
  <1>4. MarkedFirst'
    <2>1. draft'[g] = NoDraft /\ ~NoDraft.marked
          /\ \A t \in Goroutines : t # g => draft'[t] = draft[t]
      BY <1>1, <1>2 DEF NoDraft
    <2>2. MarkedFirst
      BY DEF RequestInv
    <2>3. \A e \in events' : e.onBase => captured[Base]
      <3>1. CASE draft[g].scope = Base
        BY <1>1, <2>2, <3>1 DEF MarkedFirst
      <3>2. CASE draft[g].scope # Base
        <4>1. (draft[g].scope = Base) = FALSE
          BY <3>2
        <4>2. events' = events \cup {[by |-> g, onBase |-> FALSE]}
          BY <1>1, <4>1
        <4> QED
          BY <2>2, <4>2 DEF MarkedFirst
      <3> QED
        BY <3>1, <3>2
    <2> QED
      BY <1>1, <2>1, <2>2, <2>3 DEF MarkedFirst
  <1>5. phase # "handler" => g # Handler
    BY <1>1 DEF RequestInv, HandlerIsDone, NoDraft
  <1>6. phase = "report" \/ Told("error") => phase # "handler"
    BY DEF RequestInv, Progress, Told
  <1>7. NotTwice'
    BY <1>1, <1>5, <1>6 DEF RequestInv, NotTwice, Told, OnBase, middlewareVars
  <1>8. Progress'
    BY <1>1 DEF RequestInv, Progress, PanicIsSettled, ReturnIsSettled, middlewareVars
  <1> QED
    BY <1>3, <1>4, <1>7, <1>8

-----------------------------------------------------------------------------
(***************************************************************************)
(* The steps of the middleware.                                            *)
(***************************************************************************)

\* Nothing was captured through the request's scope if it bears no mark.
LEMMA UnmarkedIsUntold ==
  ASSUME RequestInv, ~HasCaptured
  PROVE  OnBase(Handler) \notin events
  <1>1. current[Stored] = Base
    BY DEF RequestInv, Inv, Heap
  <1> QED
    BY <1>1 DEF RequestInv, MarkedFirst, HasCaptured, OnBase

LEMMA HandlerStep ==
  ASSUME RequestInv,
         CaptureDirect \/ (\E e \in {"none", "4xx", "5xx"} : Return(e)) \/ Panic \/ Unwind
  PROVE  RequestTypeOK' /\ HandlerIsDone' /\ MarkedFirst' /\ NotTwice' /\ Progress'
  <1> USE RequestAssumption
  <1>1. CASE CaptureDirect
    <2>1. /\ phase = "handler" /\ UNCHANGED <<hubVars, middlewareVars, vouched>>
          /\ events' = events \cup {[by |-> Handler, onBase |-> FALSE]}
      BY <1>1 DEF CaptureDirect, Serving
    <2>2. RequestTypeOK'
      <3>1. [by |-> Handler, onBase |-> FALSE] \in [by : Goroutines, onBase : BOOLEAN]
        OBVIOUS
      <3>2. events' \subseteq [by : Goroutines, onBase : BOOLEAN]
        BY <2>1, <3>1 DEF RequestInv, RequestTypeOK
      <3> QED
        BY <2>1, <3>2 DEF RequestInv, RequestTypeOK, middlewareVars
    <2>3. HandlerIsDone' /\ MarkedFirst' /\ Progress'
      BY <2>1 DEF RequestInv, HandlerIsDone, MarkedFirst, Progress, middlewareVars, hubVars,
                  scopeVars
    <2>4. NotTwice'
      BY <2>1 DEF RequestInv, NotTwice, Told, OnBase, middlewareVars
    <2> QED
      BY <2>2, <2>3, <2>4
  <1>2. ASSUME NEW e \in {"none", "4xx", "5xx"}, Return(e)
        PROVE  RequestTypeOK' /\ HandlerIsDone' /\ MarkedFirst' /\ NotTwice' /\ Progress'
    <2>1. RequestTypeOK'
      BY <1>2 DEF Return, RequestInv, RequestTypeOK
    <2>2. HandlerIsDone' /\ MarkedFirst' /\ Progress'
      BY <1>2 DEF Return, Serving, RequestInv, HandlerIsDone, MarkedFirst, Progress, hubVars,
                  scopeVars
    <2>3. NotTwice'
      BY <1>2 DEF Return, Serving, RequestInv, NotTwice, Told, OnBase
    <2> QED
      BY <2>1, <2>2, <2>3
  <1>3. CASE Panic
    <2>1. RequestTypeOK'
      BY <1>3 DEF Panic, RequestInv, RequestTypeOK
    <2>2. HandlerIsDone' /\ MarkedFirst' /\ Progress'
      BY <1>3 DEF Panic, Serving, RequestInv, HandlerIsDone, MarkedFirst, Progress, hubVars,
                  scopeVars
    <2>3. NotTwice'
      BY <1>3 DEF Panic, RequestInv, NotTwice, Told, OnBase
    <2> QED
      BY <2>1, <2>2, <2>3
  <1>4. CASE Unwind
    <2>1. /\ phase = "panicking" /\ UNCHANGED <<middlewareVars, events, vouched>>
          /\ UNCHANGED <<captured, draft>>
      BY <1>4 DEF Unwind, EndWithScope, scopeVars
    <2>2. RequestTypeOK' /\ HandlerIsDone' /\ MarkedFirst' /\ Progress' /\ NotTwice'
      BY <2>1 DEF RequestInv, RequestTypeOK, HandlerIsDone, MarkedFirst, Progress, NotTwice,
                  Told, OnBase, middlewareVars
    <2> QED
      BY <2>2
  <1> QED
    BY <1>1, <1>2, <1>3, <1>4

LEMMA MiddlewareStep ==
  ASSUME RequestInv,
         FinishTransaction \/ CheckCaptured \/ Report \/ ReportPanic \/ EndRecovery
  PROVE  RequestTypeOK' /\ HandlerIsDone' /\ MarkedFirst' /\ NotTwice' /\ Progress'
  <1> USE DEF RequestInv
  <1>1. CASE FinishTransaction
    BY <1>1 DEF FinishTransaction, Finish, RequestTypeOK, HandlerIsDone, MarkedFirst,
                NotTwice, Told, Progress, OnBase, hubVars, scopeVars
  <1>2. CASE CheckCaptured
    <2>1. phase' = "report" => OnBase(Handler) \notin events
      BY <1>2, UnmarkedIsUntold DEF CheckCaptured, ReportDue
    <2> QED
      BY <1>2, <2>1
         DEF CheckCaptured, RequestTypeOK, HandlerIsDone, MarkedFirst, NotTwice, Told,
             Progress, PanicIsSettled, ReturnIsSettled, OnBase, hubVars, scopeVars
  <1>3. CASE Report
    <2>1. reports' = <<"error">>
      BY <1>3 DEF Report, Progress
    <2> QED
      BY <1>3, <2>1
         DEF Report, RequestTypeOK, HandlerIsDone, MarkedFirst, NotTwice, Told,
             Progress, PanicIsSettled, ReturnIsSettled, OnBase, hubVars, scopeVars
  <1>4. CASE ReportPanic
    <2>1. reports' = <<"fatal">>
      BY <1>4 DEF ReportPanic, Progress
    <2>2. ~Told("error")'
      BY <2>1 DEF Told
    <2>3. phase' = "recovered"
      BY <1>4 DEF ReportPanic
    <2> QED
      BY <1>4, <2>1, <2>2, <2>3
         DEF ReportPanic, RequestTypeOK, HandlerIsDone, MarkedFirst, NotTwice,
             Progress, PanicIsSettled, ReturnIsSettled, OnBase, hubVars, scopeVars
  <1>5. CASE EndRecovery
    <2>1. reports = <<"fatal">> /\ reports' = reports /\ finishes' = 1 /\ transaction' = "5xx"
          /\ phase' \in {"over", "repanicked"}
      BY <1>5 DEF EndRecovery, Finish, Progress
    <2>2. ~Told("error")'
      BY <2>1 DEF Told
    <2>3. RequestTypeOK'
      BY <1>5, <2>1 DEF EndRecovery, RequestTypeOK
    <2> QED
      BY <1>5, <2>1, <2>2, <2>3
         DEF EndRecovery, HandlerIsDone, MarkedFirst, NotTwice,
             Progress, PanicIsSettled, ReturnIsSettled, OnBase, hubVars, scopeVars
  <1> QED
    BY <1>1, <1>2, <1>3, <1>4, <1>5

LEMMA RequestStep == RequestInv /\ [Next]_vars => RequestInv'
  <1> SUFFICES ASSUME RequestInv, [Next]_vars PROVE RequestInv'
    OBVIOUS
  <1>1. Inv'
    BY StepIsHubStep, Step DEF RequestInv
  <1>2. CASE UNCHANGED vars
    BY <1>1, <1>2
       DEF vars, hubVars, scopeVars, middlewareVars, RequestInv, RequestTypeOK,
           HandlerIsDone, MarkedFirst, NotTwice, Told, Progress, PanicIsSettled,
           ReturnIsSettled, OnBase
  <1>3. ASSUME NEW g \in Goroutines,
               UseHub(g) \/ VouchForEvent(g) \/ ContinueCapture(g) \/ EndCapture(g)
        PROVE  RequestInv'
    <2>0. RequestTypeOK
      BY DEF RequestInv
    <2>1. RequestTypeOK'
      <3>1. UNCHANGED middlewareVars
        BY <1>3 DEF UseHub, VouchForEvent, ContinueCapture, EndCapture
      <3>2. vouched' = vouched \/ vouched' = TRUE
        BY <1>3 DEF UseHub, VouchForEvent, ContinueCapture, EndCapture
      <3>3. events' = events \/ events' = events \cup {[by |-> g, onBase |-> draft[g].scope = Base]}
        BY <1>3 DEF UseHub, VouchForEvent, ContinueCapture, EndCapture
      <3>4. events' \subseteq [by : Goroutines, onBase : BOOLEAN]
        <4>1. [by |-> g, onBase |-> draft[g].scope = Base] \in [by : Goroutines, onBase : BOOLEAN]
          BY Zenon
        <4> QED
          BY <2>0, <3>3, <4>1 DEF RequestTypeOK
      <3>5. vouched' \in BOOLEAN
        BY <2>0, <3>2 DEF RequestTypeOK
      <3> QED
        BY <2>0, <3>1, <3>4, <3>5 DEF RequestTypeOK, middlewareVars
    <2> QED
      BY <1>1, <1>3, <2>1, UseHubStep, MarkingStep, EndCaptureStep DEF RequestInv
  <1>4. CASE CaptureDirect \/ (\E e \in {"none", "4xx", "5xx"} : Return(e)) \/ Panic
             \/ Unwind
    BY <1>1, <1>4, HandlerStep DEF RequestInv
  <1>5. CASE FinishTransaction \/ CheckCaptured \/ Report \/ ReportPanic \/ EndRecovery
    BY <1>1, <1>5, MiddlewareStep DEF RequestInv
  <1> QED
    BY <1>2, <1>3, <1>4, <1>5 DEF Next

\* The invariant holds in every state of every request.
THEOREM RequestInvHolds == Spec => []RequestInv
  <1> QED
    BY RequestInit, RequestStep, PTL DEF Spec

\* Every variable of the middleware keeps its type.
THEOREM RequestTypeCorrect == Spec => []RequestTypeOK
  <1>1. RequestInv => RequestTypeOK
    BY DEF RequestInv
  <1> QED
    BY <1>1, RequestInvHolds, PTL

\* However many goroutines the handler leaves behind and whichever hubs they share,
\* the middleware reports no failure that the handler has captured through the
\* request's scope (bikeeperfiber.go:175-182, bikeeperecho.go:128-132).
THEOREM NoFailureTwice == Spec => []NoDuplicateReport
  <1>1. RequestInv => NoDuplicateReport
    BY DEF RequestInv, NotTwice, Told, OnBase, NoDuplicateReport
  <1> QED
    BY <1>1, RequestInvHolds, PTL

\* On every path through the middleware the transaction is finished once and the
\* handler's callbacks have ended; a panic has been reported, once and as such, traced
\* as a failure, and then repeated or answered as the options say
\* (bikeeperfiber.go:145-173, bikeeperecho.go:106-126).
THEOREM PathsAreSettled == Spec => []EveryPathIsSettled
  <1>1. RequestInv => EveryPathIsSettled
    <2> SUFFICES ASSUME RequestInv, MiddlewareOver
                 PROVE  /\ finishes = 1 /\ open[Handler] = <<>>
                        /\ panicked =>
                             /\ PanicIsSettled
                             /\ phase = "repanicked" <=> "repanic" \in options
                        /\ ~panicked => phase = "over" /\ ReturnIsSettled
      BY DEF EveryPathIsSettled, PanicIsSettled, ReturnIsSettled
    <2>1. phase \in {"over", "repanicked"}
      BY DEF MiddlewareOver
    <2>2. Progress /\ HandlerIsDone
      BY DEF RequestInv
    <2>3. finishes = 1 /\ open[Handler] = <<>>
      BY <2>1, <2>2 DEF Progress, HandlerIsDone
    <2>4. CASE panicked
      BY <2>1, <2>2, <2>3, <2>4 DEF Progress, PanicIsSettled
    <2>5. CASE ~panicked
      BY <2>1, <2>2, <2>3, <2>5 DEF Progress
    <2> QED
      BY <2>4, <2>5
  <1> QED
    BY <1>1, RequestInvHolds, PTL

\* Where no goroutine is handed another's hub, a request's events hold what was set
\* through their hubs (span.go:375-376).
THEOREM RequestEventsAreEnriched ==
  ASSUME "share" \notin Ways
  PROVE  Spec => []CaptureIsEnriched
  <1>1. HubSpec => []CaptureIsEnriched
    BY CapturesAreEnriched
  <1> QED
    BY <1>1, RequestIsHub, PTL

-----------------------------------------------------------------------------
(***************************************************************************)
(* A failure is passed over for a reason alone.                            *)
(***************************************************************************)

\* A mark on the request's scope is the application's, or that of an event.
Voiced ==
  vouched \/ (\E e \in events : e.onBase) \/ \E g \in Goroutines : UnderWay(g)

Excused ==
  (phase = "over" /\ Failed /\ reports = <<>>)
    => "disabled" \in options \/ marked \/ captured[Base]

Silence == (captured[Base] => Voiced) /\ Excused

\* Whoever has marked the request's scope, it stays marked.
LEMMA MarksStay ==
  ASSUME RequestInv, [Next]_vars
  PROVE  captured[Base] => captured'[Base]
  <1>1. captured \in [Scopes -> BOOLEAN] /\ Base \in Scopes
    <2>1. captured \in [Scopes -> BOOLEAN]
      BY DEF RequestInv, Inv, TypeOK
    <2>2. Base \in Scopes
      BY HubAssumption DEF Base, Scopes
    <2> QED
      BY <2>1, <2>2
  <1>2. CASE UNCHANGED captured
    BY <1>2
  <1>3. ASSUME NEW g \in Goroutines, UseHub(g) PROVE captured' = captured
    BY <1>3, HubCallFrame DEF RequestInv, UseHub
  <1>4. ASSUME NEW s, captured' = [captured EXCEPT ![s] = TRUE]
        PROVE  captured[Base] => captured'[Base]
    BY <1>1, <1>4
  <1>5. ASSUME NEW g \in Goroutines, VouchForEvent(g) \/ ContinueCapture(g)
        PROVE  captured[Base] => captured'[Base]
    BY <1>2, <1>4, <1>5
       DEF VouchForEvent, Vouch, ContinueCapture, BuildEvent, ReadNotes, MarkCaptured,
           scopeVars
  <1>6. ASSUME NEW g \in Goroutines, EndCapture(g) PROVE UNCHANGED captured
    BY <1>6 DEF EndCapture, Deliver, scopeVars
  <1>7. CASE \/ CaptureDirect \/ (\E e \in {"none", "4xx", "5xx"} : Return(e)) \/ Panic
             \/ FinishTransaction \/ CheckCaptured \/ Report \/ ReportPanic
             \/ EndRecovery \/ UNCHANGED vars
    BY <1>2, <1>7
       DEF CaptureDirect, Return, Panic, FinishTransaction, CheckCaptured, Report,
           ReportPanic, EndRecovery, vars, hubVars, scopeVars
  <1>8. CASE Unwind
    BY <1>2, <1>8 DEF Unwind, EndWithScope, scopeVars
  <1> QED
    BY <1>2, <1>3, <1>5, <1>6, <1>7, <1>8 DEF Next

LEMMA VoicedStep ==
  ASSUME RequestInv, captured[Base] => Voiced, [Next]_vars
  PROVE  (captured[Base] => Voiced)'
  <1>0. /\ draft \in [Goroutines -> Drafts] /\ captured \in [Scopes -> BOOLEAN]
        /\ Base \in Scopes
    <2>1. draft \in [Goroutines -> Drafts] /\ captured \in [Scopes -> BOOLEAN]
      BY DEF RequestInv, Inv, TypeOK
    <2>2. Base \in Scopes
      BY HubAssumption DEF Base, Scopes
    <2> QED
      BY <2>1, <2>2
  <1>A. ASSUME UNCHANGED captured, vouched => vouched', events \subseteq events',
               \A g \in Goroutines : UnderWay(g) => Voiced'
        PROVE  (captured[Base] => Voiced)'
    BY <1>A DEF Voiced
  <1>1. ASSUME NEW g \in Goroutines, UseHub(g) PROVE (captured[Base] => Voiced)'
    <2>1. /\ captured' = captured /\ UNCHANGED <<events, vouched>>
          /\ \A t \in Goroutines : t # g => draft'[t] = draft[t]
      BY <1>1, HubCallFrame DEF RequestInv, UseHub
    <2>2. draft[g] = NoDraft \/ draft' = draft
      BY <1>1
         DEF UseHub, ObtainHub, GetHub, ShareHub, CloneHub, HubCall, WithScope,
             EndWithScope, Annotate, Capture, CaptureWithContext, Idle
    <2>3. \A t \in Goroutines : UnderWay(t) => draft'[t] = draft[t]
      BY <2>1, <2>2 DEF UnderWay, NoDraft
    <2>4. \A t \in Goroutines : UnderWay(t) => UnderWay(t)'
      BY <2>3 DEF UnderWay
    <2> QED
      BY <1>A, <2>1, <2>4 DEF Voiced
  <1>2. ASSUME NEW g \in Goroutines, VouchForEvent(g)
        PROVE  (captured[Base] => Voiced)'
    BY <1>2 DEF VouchForEvent, Voiced
  <1>3. ASSUME NEW g \in Goroutines, ReadNotes(g), UNCHANGED <<events, vouched>>
        PROVE  (captured[Base] => Voiced)'
    <2>1. PICK k \in draft[g].todo :
            /\ draft' = [draft EXCEPT ![g].got[k] = note[draft[g].scope][k],
                                      ![g].todo = @ \ {k}]
            /\ captured' = captured
      BY <1>3 DEF ReadNotes, scopeVars
    <2>2. draft[g] \in Drafts
      BY <1>0
    <2>3. /\ \A t \in Goroutines : t # g => draft'[t] = draft[t]
          /\ draft'[g].marked = draft[g].marked /\ draft'[g].scope = draft[g].scope
      BY <1>0, <2>1, <2>2 DEF Drafts
    <2>4. \A t \in Goroutines : UnderWay(t) => UnderWay(t)'
      BY <2>3 DEF UnderWay
    <2> QED
      BY <1>3, <1>A, <2>1, <2>4 DEF Voiced
  <1>4. ASSUME NEW g \in Goroutines, MarkCaptured(g), UNCHANGED <<events, vouched>>
        PROVE  (captured[Base] => Voiced)'
    <2>1. /\ draft' = [draft EXCEPT ![g].marked = TRUE]
          /\ captured' = [captured EXCEPT ![draft[g].scope] = TRUE]
      BY <1>4 DEF MarkCaptured
    <2>2. draft[g] \in Drafts
      BY <1>0
    <2>3. /\ \A t \in Goroutines : t # g => draft'[t] = draft[t]
          /\ draft'[g].marked /\ draft'[g].scope = draft[g].scope
      BY <1>0, <2>1, <2>2 DEF Drafts
    <2>4. \A t \in Goroutines : UnderWay(t) => UnderWay(t)'
      BY <2>3 DEF UnderWay
    <2>5. CASE draft[g].scope = Base
      <3>1. UnderWay(g)'
        BY <2>3, <2>5 DEF UnderWay
      <3> QED
        BY <3>1 DEF Voiced
    <2>6. CASE draft[g].scope # Base
      <3>1. captured'[Base] = captured[Base]
        BY <1>0, <2>1, <2>6
      <3>2. Voiced => Voiced'
        BY <1>4, <2>4 DEF Voiced
      <3> QED
        BY <3>1, <3>2
    <2> QED
      BY <2>5, <2>6
  <1>5. ASSUME NEW g \in Goroutines, EndCapture(g)
        PROVE  (captured[Base] => Voiced)'
    <2>1. /\ draft' = [draft EXCEPT ![g] = NoDraft]
          /\ events' = events \cup {[by |-> g, onBase |-> draft[g].scope = Base]}
          /\ UNCHANGED <<captured, vouched>>
      BY <1>5 DEF EndCapture, Deliver, scopeVars
    <2>2. \A t \in Goroutines : t # g /\ UnderWay(t) => UnderWay(t)'
      BY <1>0, <2>1 DEF UnderWay
    <2>3. ASSUME UnderWay(g) PROVE Voiced'
      <3>1. (draft[g].scope = Base) = TRUE
        BY <2>3 DEF UnderWay
      <3>2. [by |-> g, onBase |-> TRUE] \in events'
        BY <2>1, <3>1
      <3> QED
        BY <3>2 DEF Voiced
    <2>4. \A t \in Goroutines : UnderWay(t) => Voiced'
      BY <2>2, <2>3 DEF Voiced
    <2>5. events \subseteq events'
      BY <2>1
    <2> QED
      BY <1>A, <2>1, <2>4, <2>5
  <1>6. ASSUME UNCHANGED <<captured, draft, vouched>>, events \subseteq events'
        PROVE  (captured[Base] => Voiced)'
    BY <1>6, <1>A DEF UnderWay, Voiced
  <1>7. CASE \/ CaptureDirect \/ (\E e \in {"none", "4xx", "5xx"} : Return(e)) \/ Panic
             \/ Unwind \/ UNCHANGED vars
    BY <1>6, <1>7
       DEF CaptureDirect, Return, Panic, Unwind, EndWithScope, vars, hubVars, scopeVars
  <1>8. CASE FinishTransaction \/ CheckCaptured \/ Report \/ ReportPanic \/ EndRecovery
    BY <1>6, <1>8
       DEF FinishTransaction, CheckCaptured, Report, ReportPanic, EndRecovery, hubVars,
           scopeVars
  <1> QED
    BY <1>1, <1>2, <1>3, <1>4, <1>5, <1>7, <1>8
       DEF Next, ContinueCapture, BuildEvent

LEMMA SilenceStep ==
  ASSUME RequestInv, Silence, [Next]_vars
  PROVE  Silence'
  <1>0. captured[Base] => captured'[Base]
    BY MarksStay
  <1>1. (captured[Base] => Voiced)'
    BY VoicedStep DEF Silence
  <1>2. ASSUME UNCHANGED middlewareVars PROVE Excused'
    BY <1>0, <1>2 DEF Silence, Excused, Failed, middlewareVars
  <1>3. ASSUME CheckCaptured PROVE Excused'
    <2>1. current[Stored] = Base
      BY DEF RequestInv, Inv, Heap
    <2>2. /\ UNCHANGED <<framework, options, response, err, marked, captured>>
          /\ phase' = IF ReportDue THEN "report" ELSE "over"
      BY <1>3 DEF CheckCaptured, hubVars, scopeVars
    <2> QED
      BY <2>1, <2>2 DEF Excused, ReportDue, HasCaptured, Failed
  <1>4. ASSUME Report PROVE Excused'
    <2>1. reports = <<>> /\ reports' = Append(reports, "error")
      BY <1>4 DEF Report, RequestInv, Progress
    <2>2. reports' # <<>>
      BY <2>1
    <2> QED
      BY <2>2 DEF Excused
  <1>5. ASSUME EndRecovery PROVE Excused'
    <2>1. reports' = <<"fatal">>
      BY <1>5 DEF EndRecovery, RequestInv, Progress
    <2>2. reports' # <<>>
      BY <2>1
    <2> QED
      BY <2>2 DEF Excused
  <1>6. ASSUME \/ FinishTransaction \/ (\E e \in {"none", "4xx", "5xx"} : Return(e))
               \/ Panic \/ ReportPanic
        PROVE  Excused'
    <2>1. phase' # "over"
      BY <1>6 DEF FinishTransaction, Return, Panic, ReportPanic
    <2> QED
      BY <2>1 DEF Excused
  <1>7. ASSUME CaptureDirect \/ Unwind \/ UNCHANGED vars PROVE Excused'
    BY <1>2, <1>7 DEF CaptureDirect, Unwind, vars
  <1>8. ASSUME NEW g \in Goroutines,
               UseHub(g) \/ VouchForEvent(g) \/ ContinueCapture(g) \/ EndCapture(g)
        PROVE  Excused'
    BY <1>2, <1>8 DEF UseHub, VouchForEvent, ContinueCapture, EndCapture
  <1>9. Excused'
    BY <1>3, <1>4, <1>5, <1>6, <1>7, <1>8 DEF Next
  <1> QED
    BY <1>1, <1>9 DEF Silence

\* A failure that the middleware does not report is one that it was told to pass over,
\* that the application vouched for, or that an event made through the request's scope
\* tells of, sent or about to be (span.go:173-181, bikeeperfiber.go:175-182,
\* bikeeperecho.go:128-132).
THEOREM NoFailureIsLost == Spec => []SilenceHasACause
  <1>1. Init => Silence
    <2>1. Init => ~captured[Base]
      BY HubAssumption DEF Init, HubInit, Base, Scopes
    <2>2. Init => phase # "over"
      BY DEF Init
    <2> QED
      BY <2>1, <2>2 DEF Silence, Excused
  <1>2. RequestInv /\ Silence /\ [Next]_vars => Silence'
    BY SilenceStep
  <1>3. RequestInv /\ Silence => SilenceHasACause
    BY DEF Silence, Excused, Voiced, SilenceHasACause
  <1> QED
    BY <1>1, <1>2, <1>3, RequestInvHolds, PTL DEF Spec
=============================================================================
