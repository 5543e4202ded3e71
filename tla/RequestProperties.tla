------------------------- MODULE RequestProperties -------------------------
(***************************************************************************)
(* What the middleware must satisfy, whatever the handler does.            *)
(***************************************************************************)
EXTENDS Request

\* Every variable holds a value of its type.
RequestTypeOK ==
  /\ events \subseteq [by : Goroutines, onBase : BOOLEAN]
  /\ vouched \in BOOLEAN
  /\ framework \in Frameworks
  /\ options \subseteq {"repanic", "disabled"}
  /\ phase \in {"handler", "returned", "check", "report", "panicking",
                "recovered", "over", "repanicked"}
  /\ response \in {"ok", "5xx"}
  /\ err \in {"none", "4xx", "5xx"}
  /\ marked \in BOOLEAN
  /\ reports \in Seq({"error", "fatal"})
  /\ transaction \in {"open", "ok", "5xx"}
  /\ finishes \in Nat
  /\ panicked \in BOOLEAN

-----------------------------------------------------------------------------
\* The middleware stays silent about a failure that was captured through the
\* request's scope before the handler returned (bikeeperfiber.go:175-182,
\* bikeeperecho.go:128-132).
NoDuplicateReport ==
  "error" \in {reports[i] : i \in DOMAIN reports} =>
    [by |-> Handler, onBase |-> TRUE] \notin events

MiddlewareOver == phase \in {"over", "repanicked"}

\* However the handler ends, the middleware leaves a finished transaction behind and
\* no callback's scope on the handler's hub.  A panic has been reported as such, once
\* and whatever else was captured, and traced as a failure; then it has gone on
\* outward, if the options ask for that, or it has been answered in the handler's
\* place.  Without a panic the middleware returns, with one report at most
\* (bikeeperfiber.go:145-173, bikeeperecho.go:106-126).
EveryPathIsSettled ==
  MiddlewareOver =>
    /\ finishes = 1
    /\ open[Handler] = <<>>
    /\ panicked =>
         /\ reports = <<"fatal">> /\ transaction = "5xx"
         /\ phase = "repanicked" <=> "repanic" \in options
         /\ phase = "over" => err = "5xx" /\ (framework = "fiber" => response = "5xx")
    /\ ~panicked => phase = "over" /\ reports \in {<<>>, <<"error">>}

\* A capture through the request's scope has left its mark and is on its way to the
\* client.
UnderWay(g) == draft[g].marked /\ draft[g].scope = Base

\* The middleware passes over a failure in silence for one of these reasons alone: it
\* has been told to, the application has said that it reported it, or an event made
\* through the request's scope has gone out or is on its way (span.go:173-181,
\* bikeeperfiber.go:175-182, bikeeperecho.go:128-132).
SilenceHasACause ==
  (phase = "over" /\ Failed /\ reports = <<>>)
    => \/ "disabled" \in options \/ marked \/ vouched
       \/ \E e \in events : e.onBase
       \/ \E g \in Goroutines : UnderWay(g)

\* A failure the middleware is silent about has a voice: the application has
\* said that it reported it, or an event captured through the request's scope
\* goes out, even if the capture is still under way when the middleware looks
\* (span.go:173-181, bikeeperfiber.go:180-182).
SilenceIsJustified ==
  (phase = "over" /\ Failed /\ reports = <<>>)
    ~> ("disabled" \in options \/ marked \/ vouched
        \/ \E e \in events : e.onBase)
=============================================================================
