# Verification of the Bikeeper Go SDK

TLA+ models of the SDK, their checks with TLC, and proofs that TLAPS checks.
Everything is translated from the Go source; a comment or a test of the repository
serves as a statement of what the code ought to do, never as a description of what
it does. `PROJECT.json` maps every definition to the lines it stands for.

To check a run, `tlc -workers 2 -config <run>.cfg <module>`; to check the proofs,
`tlapm <M>.tla` for `SendQueueProofs`, `TraceProofs`, `InstrumentProofs`, `HubProofs`,
`RequestProofs`, `PayloadProofs`, `ZapCoreProofs` and `OriginProofs`.

1. [The system](#1-the-system)
2. [The modules and the code](#2-the-modules-and-the-code)
3. [The runs](#3-the-runs)
4. [The theorems](#4-the-theorems)
5. [What the code does not do](#5-what-the-code-does-not-do)
6. [Abstractions, and what is left out](#6-abstractions-and-what-is-left-out)
7. [Plan](#7-plan)

## 1. The system

The SDK watches an application and must never harm it. The application's goroutines
capture errors, messages, log records and traces; all of that goes through one
`Client` to one server.

```
 middleware (fiber, echo)        integrations (pgx, redis, zap), logger, jobs
   |  hub and transaction in the request's context       |
   v                                                     v
 Hub / Scope  --- annotates and snapshots --->  Event   Span / transactionState
   |                                             |        |  payload on the root's Finish
   +---------------------------------------------+--------+
                                                 v
                       Client: enrich, BeforeSend (Scrubber), queue
                                                 v
                       sender pool --> transport (HTTP)
```

| component | state | operations | what is hard | what makes it correct |
|---|---|---|---|---|
| Send queue (`client.go`) | the channel and its pool, made on first use; `closed`; the `pending` wait group; `dropped`; `closeMu` | capture, enqueue, send, `Flush`, `Close`, `Dropped` | captures, senders, flushes and closes in any order; full queue; timeouts; panics of callbacks and of the transport; callbacks that capture | no panic, no hang, every slot given back, every loss counted, a `Flush` that returns in time has seen everything, a `Close` that returns has left nothing behind |
| Spans and transactions (`span.go`, `transaction.go`) | one `transactionState` for a tree of spans, with the mutex of all of them | `StartTransaction`, `StartSpan`, setters, `Finish` | spans that are annotated and finished on other goroutines while the root builds its report; repeated `Finish` | one report per sampled trace, exact, final, and a tree but for what was still open |
| Jobs (`job.go`) | none of their own | `StartJob`, `FinishJob` | three sections, between which the application may finish the span | as above |
| Hubs and scopes (`span.go`) | a hub is a pointer to a scope; scopes hold tags, breadcrumbs, user, extra, fingerprint and the mark of a capture | `GetHubFromContext`, `Clone`, `WithScope`, setters, captures, `HasCaptured` | the pointer is swapped for the length of a callback, and a capture reads the scope section by section | nothing leaks from a callback or a clone into the request, the pointer is put back, an event carries what was set |
| Middleware (`fiber`, `echo`) | per request: a hub, a transaction, a captured mark | the handler that `New` returns | errors, panics and captures on every path, and goroutines that outlive the handler | one report or none per failure, never silence without a cause, a finished transaction |
| Event contents (`client.go`, `span.go`, `event.go`, `log.go`) | the client's tags; the event under way | `enrichEvent`, `applyScopeData`, `SetTag`, `RemoveTag` | six sources of tags and the host, some of which may give a key twice; one shared HTTP request | the most specific source has the last word, and of its own tags the one it gave last |
| Scrubber (`scrub.go`) | none | `NewScrubber`'s function, as `BeforeSend` | writes to what other events hold | nothing sensitive of an event goes out |
| Transport (`transport.go`) | none | `Send`, `SendLog`, `SendTransaction` | may fail or panic | (as seen by the queue) |
| Logger (`logger.go`, `log.go`) | a copy of the tags in each builder | `With...`, `Emit` | two ways out, one of them past `BeforeSend` | (as Event contents) |
| Stack traces (`stacktrace.go`) | none | capture, classification of frames, source lines, grouping hashes | nine ways to capture, each with functions of its own to leave out; first and last lines of a file | the caller comes first, and one failure is one issue, by whichever way it is reported, unless the application has grouped it by hand |
| Browser detection (`fiber`) | none | `parseUserAgent` with what it calls, from two places | the order of the tests, of the brands, and two copies of one switch | the events of a request that name a browser name the same one, and the one that sent it if it is one the code can tell |
| Tracers (`pgx/tracer.go`, `pgx/chain.go`, `redis/hook.go`) | what a call's context holds | the callbacks before and after a call | several tracers in a chain, some without a callback; calls side by side and within one another; calls that miss, fail or never end | each call ends its own span, and a report tells its outcome |
| Zap core (`zap/bikeeperzap.go`) | per core: a slice of fields and a context | `With`, `Check`, `Write` | cores derived from one another share what Go's slices share; three contexts compete | a logger never changes, an event has its logger's fields and nearest context, its title names the error |

The hazards of the code, each at the line where it bites and with the properties
that would notice it, are listed in `PROJECT.json`.

## 2. The modules and the code

| module | stands for | composition |
|---|---|---|
| `Delivery` | what the asynchronous client promises, with no queue, lock or pool | abstract specification |
| `SendQueue` | `client.go:213-234, 340-524` | implements `Delivery` |
| `SendQueueProperties`, `SendQueueProofs`, `MCSendQueue` | its properties, proofs, instances | |
| `Trace` | `span.go:652-963`, `transaction.go`, `job.go` | |
| `TraceProperties`, `TraceProofs`, `MCTrace` | | |
| `Hub` | `span.go:22-646`, `client.go:236-300` | |
| `HubProperties`, `HubProofs`, `MCHub` | | |
| `Request` | `fiber/bikeeperfiber.go` and `echo/bikeeperecho.go`, `New` | extends `Hub`: the handler and its goroutines take `Hub`'s steps inside a request |
| `RequestProperties`, `RequestProofs`, `MCRequest` | | the proofs rest on those of `Hub` |
| `Payload` | `client.go:185-234, 340-429, 526-692`, `scrub.go`, `span.go:183-268`, `transport.go` | |
| `PayloadProperties`, `PayloadProofs`, `MCPayload` | | |
| `Instrument` | `pgx/tracer.go`, `pgx/chain.go`, `redis/hook.go` | extends `Trace`: the tracers, and the application beside them, take `Trace`'s steps |
| `InstrumentProperties`, `InstrumentProofs`, `MCInstrument` | | the proofs rest on those of `Trace` |
| `Logging` | what the zap core promises, with no slices and no goroutines | abstract specification |
| `ZapCore` | `zap/bikeeperzap.go` | implements `Logging` |
| `ZapCoreProperties`, `ZapCoreProofs`, `MCZapCore` | | |
| `Selection` | the loops that keep some of what they go through | operators |
| `Stacktrace` | `stacktrace.go:119-375` | operators, on `Selection` |
| `Browser` | `fiber/bikeeperfiber.go:435-583` | operators, on `Selection` |
| `Origin` | the ways to capture, `stacktrace.go:79-182`, `client.go:236-300`, `fiber/bikeeperfiber.go:339-471` | uses `Stacktrace` and `Browser` |
| `OriginProperties`, `OriginProofs`, `MCOrigin` | | |

**SendQueue.** One payload is one capture call. `call[p]` is the line that call has
reached, `fate[p]` what became of what it carries. A step is one access to state
that other goroutines see: the read lock with the closed check and `ensureWorkers`
(`Enqueue`), `pending.Add` (`AddPending`), the two cases of the `select` (`Offer`,
`Refuse`, the latter with `pending.Done`), the atomic count and the start of
`OnError` (`Drop`), the deferred `RUnlock` (`EndEnqueue`). `ReadLocked` says which
calls hold `closeMu`; `Announced` models Go's rule that a waiting writer keeps new
readers out, on which the re-entrancy hang rests. A waiter of the wait group is
released by the last `Done` and looks at the counter again when it runs (`Woken`),
which is how `sync.WaitGroup` detects reuse. The channel's buffer is `tasks`;
`Capacity` and `Concurrency` settle the options as `ensureWorkers` does, so a queue
size of zero stands for the default. A transport that panics ends the process,
because `runTask` recovers nothing. `OnError` may capture (`CaptureInOnError`) on
the goroutine and with the locks of whoever called it.

**Trace.** Each section under `transactionState.mu` is one action; `StartSpan` is
two, since it builds the span before it takes the lock. The payload is computed
inside `Finish`, handed over by `Send` after the unlock. Time is the number of
starts and finishes so far. `FinishJob` is split at its sections.

**Hub.** The scopes are a heap in order of allocation, scope 1 being the request's.
A note records who set it and on which scope, so that a leak shows. Of each kind a scope
keeps a sequence with `Room` for so many: one fingerprint, one user, one value of a key,
`MaxBreadcrumbs` breadcrumbs; where it is full the oldest gives way. A capture is a
draft: it takes the pointer of the scope, then reads the fingerprint and the other
kinds in a section each (`ReadNotes`, in the code's order), sets the mark and is
delivered. `WithScope` pushes what it must put back; `EndWithScope` is its deferred
end and is also taken while a panic unwinds.

**Request.** `phase` is the line the middleware has reached; the two frameworks
differ in `Failed` (only fiber looks at the response when there was no error), in
fiber's `Locals` mark, and in who writes the response after a recovered panic. In the
`disabled` option automatic capture is off. The handler may end in every way: any
class of error, a response it wrote itself, or a panic inside nested callbacks. It captures
through its hub, section by section, or with the functions of the middleware's package
(`CaptureDirect`), which touch no scope and so leave no mark.
`panicked` remembers that it has panicked, for `EveryPathIsSettled`.

**Payload.** An item goes through building, enrichment, `BeforeSend`, the queue and
a sender. Tags are a sequence with their sources, because the last of two tags with
one key wins. What a source contributes is a sequence of keys in which a key may come
more than once (`Logger.WithTag` appends, the variadic tags of a capture are not looked
through, a span may have a tag that the browser's are called by), and `nth` is a tag's
place in it; only the client's own tags, which `SetTag` overwrites, have a key once.
`OptionKeys` are the environment and the release. The header map of a request is one object that several items hold;
`Access` lets the runtime notice, or not, that it is written while it is in use.

**Instrument.** A call is a query, a batch, a redis command or a pipeline. `line[c]` is
where it has got to; `at[c]` is the member of the chain whose turn it is, upwards before
the call and downwards after it, as in `chain.go`. The context that a tracer returns is
`left[c]`: by member, the call whose start left the value that is there now, so that
finding the value of an outer call shows. A call made within another (`BeginWithin`)
inherits that context. `finish` is three sections, status, data and end, as `Trace` has
them, and the application may finish its transaction between any two. A call may also
never come to its end (`Abandon`).

**ZapCore.** A slice is an array and a length; `StartWrite` says what Go's `append`
does: it writes behind the slice where the array has room and copies otherwise. `Write`
is two steps, because what it appended may be in an array that other goroutines see.
The carriers that `Ctx` makes are apart from the fields: no encoder shows them.
`Logging` is the same without arrays: loggers are values, and an entry is one event.

**Origin.** `CallsNext` is the call graph of the capture functions and `AddedSkip` what
each adds to the number of frames to leave out; a step goes one function down, so that
the stack and the skip grow side by side, and `Build` cuts the one by the other. What a
frame is comes down to its place (`Stacktrace`), and a hash to the sequence of what is
hashed. `known` is what the middleware put into the scope when the request came in.
A capture of the client finds the hub in its context or finds none (`HubOf`), one of a
hub has it, one of the middleware's package never looks at it. Accordingly the event is
filled from the scope, by `EnrichWithHTTPContext`, which parses once more, or with
nothing at all (`EventClient`), and `customFingerprint`, which the application may set
and take back at any time (`SetFingerprint`), stands for the computed one or is passed
over (`EventFingerprint`).

## 3. The runs

Passing runs. Every property has a mutant, a plausible bug in one mapped
definition, under which TLC finds it violated.

| run | what is asked | bounds |
|---|---|---|
| `queue_safety` | do counters, channel, pool and `Flush` stay right with two overlapping Closes, does everyone who waits wait for somebody who can go on, so that every `Close` returns, and does the queue implement `Delivery`? | 3 captures, one of each kind (the transport lacks one); 2 senders; a channel of 1; every verdict of `BeforeSend` and every end of a send, panics included |
| `queue_reentrant` | do captures return, are accepted payloads attempted and does `Flush`'s goroutine end, under fairness, when `OnError` captures and a `Close` is under way, but for the one deadlock of section 5 (`CaughtByClose`)? | 3 captures, one sender, a channel of 1, one `Close` with its `Flush`; every send fails, so that every place that calls `OnError` does |
| `trace_safety` | is a trace reported once, exactly and finally, and does each of its spans lead up to the root? | 3 spans, one of which may be a root and is annotated; every sampling rate |
| `hub_scopes` | do scopes stay apart, does every callback put the scope back, does an event carry what was set? | 2 goroutines, each with a hub of its own (from the context or a clone); 3 scopes; one kind, of which a scope keeps 2. Hubs that goroutines share are in `request` and in the theorems |
| `request` | is a captured failure reported no second time, is a panic reported, once, and then repeated or answered, does every path leave a finished transaction, and is there no silence without a cause? | a handler and a background goroutine that shares its hub, clones it or has its own; 3 scopes; both frameworks; all options |
| `payload_contents` | is nothing sensitive sent with an event, and does the last tag of the most specific source win? | 2 items, one of them with tags of every source; 4 keys, one of them sensitive, one the host's, one the options' and one the browser's; up to 3 tags of one source, with a key given twice |
| `instrument` | has every traced call one span of its own, ended by that call with that call's outcome, and does each member of a chain find what it left? | 2 calls, one of any kind and one query, side by side or one within the other; a chain of a tracer without batch callbacks and ours; 3 spans of which one may be the application's root |
| `zap_core` | does the core implement `Logging`, and is a logged error in the title, once? | 2 goroutines, 3 cores, 6 arguments (none, one and two fields, a key twice, errors and a nil one, carriers with and without contexts); one entry captured, while others are being written |
| `event_origin` | is the caller's frame first, is one failure one issue, are the source lines those of the frame, and do the events that name a browser name the right one? | 2 events by any of nine ways, with and without a hub at hand, from 5 stacks; a fingerprint that is set and taken back at any time; 12 requests, of browsers that the code can tell, of two that it cannot and of none; 7 frames are taken in place of 64, so that one stack is cut off |

Why the bounds are enough to be interesting. Three captures against a channel of
one fill it while a sender holds a task and a third capture is refused; two Closes
give both the Close that shuts the client and the one that finds it shut. Three
spans give a chain, two siblings, and a span that registers or finishes while its
root does. Three scopes give two nested callbacks, a callback in a clone, and a
callback beside a clone. The kinds of notes do not touch one another, so that one is
enough, and of two places in it one note may be left while the other gives way; a kind
that is replaced is the case of one place. Two items are enough for two events to share a request. In
`trace_safety` `Roots` and `Annotated` are single spans: a second root shares nothing
with the first, and notes on one span cannot be told from notes on another. Two calls
are enough for one to find what the other left, and for two to end at once. Three cores
are a logger with two derived from it, or a chain of three, and two goroutines write
to one array only through such a pair. Two events are what `OneFailureIsOneIssue`
compares. The theorems below hold without any of these bounds.

`instrument` has a VIEW: two states that differ only in the times at which spans
started and ended are one to TLC. No guard reads a time except to ask whether a span
has finished, which the view keeps, and no property of the run compares times
(`WaterfallFits` and `ReportIsExact`, which do, are checked in `trace_safety`, and
`InstrumentIsTrace` carries them over), so the steps and the verdicts of two such
states are the same.

`queue_safety` has TLC check for deadlock, in two ways. `NobodyWaitsInVain` asks it of
every state, where something is under way but one goroutine is stuck as much as where
all are: who waits waits for one who can go on. TLC's own check does so where nothing
goes on: the only state without a further step
that `Next` allows is one where nothing is under way (`AtRest`) or the process has
ended. No step is ever undone (`NoStepIsUndone`), so a run of the
model cannot go round in circles: it ends at rest or in a crash, and every `Close`
that was called has returned, with no fairness assumed beyond that steps go on. The
other runs say `CHECK_DEADLOCK FALSE` because the system stops once every call has been
made.

Fairness. `SendQueue`'s `FairSpec` gives weak fairness to each goroutine that has
something to do: Go's scheduler is preemptive and fair, a send ends because it has a
timeout, a timer fires. What the application chooses to call is never fair. `Trace`
and `Request` are likewise fair only to code that has begun: the end of `StartSpan`,
`Finish` and `FinishJob`, the middleware after its handler, a capture under way.
When a handler returns is the application's affair.
The other specifications state no fairness: nothing but safety is asked of them.

Runs that find a violation (section 5): `flush_panic`, `header_map`, `own_code`.

## 4. The theorems

TLAPS proves, for every value of the constants that the modules' named assumptions
allow:

| module | theorem | for |
|---|---|---|
| `SendQueueProofs` | `TypeCorrect`, `PendingIsExact`, `SendsOnOpenChannel`, `PoolsAreTold`, `CloseDrains`, `LossIsCounted`, `FlushIsComplete`, `Implementation`, `NoStepIsUndone`, and, where no `OnError` captures in a client that is being closed, `NobodyIsStuck`, `NoDeadlock` | any finite set of captures, any flushes and closes, any queue size and pool |
| `TraceProofs` | `TypeCorrect`, `FinishReportsOnce`, `ReportHoldsTheFinished`, `WaterfallIsBounded`, `FinishedForGood` | any set of spans, roots and annotations |
| `InstrumentProofs` | `CallsTypeCorrect`, `InstrumentIsTrace`, `OwnStateIsFound`, `SpanOfCall`, `OutcomeIsTold` | any calls, within one another or not, and any chain with at most one tracer of ours |
| `HubProofs` | `TypeCorrect`, `RequestScopeStaysClean`, and, where no goroutine is handed another's hub, `ScopesAreRestored` and `CapturesAreEnriched` | any goroutines, kinds and number of scopes |
| `RequestProofs` | `RequestIsHub`, `RequestTypeCorrect`, `NoFailureTwice`, `NoFailureIsLost`, `PathsAreSettled` | the same, shared hubs included, both frameworks and all options |
| `PayloadProofs` | `TypeCorrect`, `EventsScrubbed`, `PrecedenceHolds` | any items, any finite set of keys, any sensitive and host keys |
| `ZapCoreProofs` | `TypeCorrect`, `Implementation`, `ErrorIsNamed` | any fields, contexts, levels and messages, any number of goroutines and cores |
| `OriginProofs` | `CallerComesFirst`, `OneFailure`, `ContextIsTheFrames`, `OneClient`, `TypeCorrect` | any stacks, however deep, any number of frames taken of them, files of any length; any headers at all, and a fingerprint set by hand at any time |

*SendQueue.* The inductive invariant is `Shape /\ Lifecycle /\ Bookkeeping /\
Counting /\ Waiting`. `Lifecycle` is what `closeMu` guards: while a capture may
still offer, the client is open and the pool exists; a sender leaves only a closed,
empty channel; a Close that joined has seen the pool end. It alone gives
`NoSendOnClosedChannel` and `NoOrphanPool` (a closed client's pool has been told to
stop; a run would see it broken as `StoppedMeansDrained`). `Bookkeeping` ties `fate` to the
channel's contents, to the senders' jobs and to the place of the call, without
which the cardinality argument of `Counting` (the wait group equals the number of
outstanding payloads, `Dropped()` the number of dropped ones) would not go through: an
addition is of a payload that was not outstanding, a `Done` of one that was.
`Waiting` relates a waiter's state to the payloads its flush owes: a waiter that
was released saw zero, so nothing that was owed is unsettled. The refinement maps
fates to outcomes, the first Close to return to `Stop`, and every other step to a
stutter.

`NobodyIsStuck` is freedom from deadlock: ENABLED is out of the prover's reach, so
`CaptureGoesOn`, `WorkerGoesOn` and `CloseGoesOn` spell out the guards of the steps that
a goroutine may take. Two more invariants are needed. `Parked` says that a waiter is
parked only while the counter is above zero; by `Counting` some payload is then
outstanding, and by `Bookkeeping` and `Lifecycle` whoever has it in hand goes on.
`Nesting` says that the captures which `OnError` makes inside one another are in no
circle: every set of captures has one whose callback is in none of the set (the latest
to begin), so among those under way one waits for no callback. The theorem assumes
`QuietCallbacks`: `OnError` captures nothing, or nothing closes the client. Without it the
property fails, as section 5 tells. `NoDeadlock` draws the conclusion: where nobody goes
on, all is done.

`NoStepIsUndone` is the other half of "every call returns". A rank is given to each place
of a capture, a sender, a flush and a close, and to what has become of a payload; every
step raises a rank and lowers none. The senders' loop needs the care: back at `receive` a
sender is where it was, but the payload it held is out of its hands (`InHand`), and
`Holding` says that nobody else held it. Ranks are bounded, so a client with so many calls
takes so many steps at most, and by `NoDeadlock` it stops only where all have returned.
That last conclusion sums over all goroutines, which is induction, and is not a theorem
here; the liveness properties of `queue_reentrant` are TLC's.

*Trace.* `Tree` (children are exactly the published descendants), `Timing` (starts and
finishes are distinct events of one clock), `Sampling` (an unsampled trace never
reports) and `Reporting` (what a report says of a span is what the span was when its
root finished). `ReportIsExact` compares ends, so it needs `Timing`: a span that
ends after its root does has a later end. `Below` (a span hangs below one of its own
trace that started before it) and `Placing` (a payload names the parent and the offset
that the construction of the span fixed) give the second half of `WaterfallFits`: from
parent to parent a report leads to its root or to a span that was still open. Starts are
events of one clock here; two that a real clock cannot tell apart keep their order.

*Hub.* `Heap` says which scopes are in use and that a new one is none of them, so
that nothing is written to the request's scope through another. `Nested` adds, where
hubs are not shared, that the outermost callback under way will put back the scope
that the hub was made with; the callbacks inside it do not matter, since each of
them ends before it.

`Enriched`, for `CapturesAreEnriched`, follows the chain of scopes of a goroutine:
`Chained` says that each open callback's scope is where the one inside it began,
`Annotated` that on the innermost scope every note that the goroutine made at it or
outside it survives (`Survives`: it is there, or later notes have taken all the room),
and `ReadSoFar` that the draft has got what the kinds it has read already held. A scope
that is not the request's is written to by its own goroutine alone (`Separate`, `Apart`),
so what comes later there is its own. On the request's scope another goroutine may
replace a value or push out a breadcrumb, and `Later` allows
no more: what is read in place of an own note was made on the same scope or further in,
and by the goroutine itself unless on the request's scope.

*Request.* Every step of a request is a step of its hubs or leaves them alone
(`RequestIsHub`), which brings every theorem of `HubProofs` along. `MarkedFirst` says
that the mark on the request's scope precedes any event made through it;
`HandlerIsDone` that by the time the middleware asks for the mark the handler is in no
capture and in no callback. So a report that is made (`NotTwice`) met no mark, and no
event of the handler's. `Progress` counts what each phase has finished and reported, and `PanicIsSettled` says
that from the moment of its recovery a panic has its one report, whatever the options.
The converse of `MarkedFirst` is `Voiced`: a mark on the request's scope has an event that
has gone out or a capture that is about to make one. A mark is never taken back
(`MarksStay`), and neither is an event, so `Excused`, which says why a middleware that has
gone past its report without one was silent, lasts. That is `NoFailureIsLost`, the safety
half of `SilenceIsJustified`; that the capture under way does end is the half for TLC.

*Payload.* `Filed` describes a list of tags by its sources: a tag for each place in what
each source has given, sources in the order of their rank, and the tags of one source in
the order of their places. It is preserved by joining lists of
ascending rank (`Joined`) and by what the scrubber does (`Relisted`). `Complete` adds
what the host may contribute. The last tag with a key is then of the highest
source that has it, and of the last place where that source has it (`LastTag`). `Scrubbed` is the scrubber's part: tags from its first
loop on, headers from its end on; `redacted` headers are never made raw again, which is
why the events that share a request do not matter.

*Instrument.* `CallInv` (`Placed`: where a call stands in its chain and whether it has
its span; `Remembered`: what each member before that place has left) does not speak
of `Trace`'s state at all. With it every step is a step of `Trace` or leaves the spans
alone: `InstrumentIsTrace`. `OwnInv` then ties a call's span to the call: no other call
has it (`Apart`), nobody else writes to it, and its status and data are those of the
line the call has reached (`Settled`). `Told` carries that into the reports.

*ZapCore.* A core's slice always fills its array (`Fills`, in `Heap`), since `With`
makes the array to measure. So an `append` of at least one field never fits, and
copies; one of no fields writes nothing. Hence what a `Write` holds (`Writing`) stays
what it was, and the refinement maps `With` to `With`, `Capture` to `Log`, and the
start of a `Write` to a stutter.

*Origin.* On the way down the stack and the skip grow by different amounts: a panic's
deferred closure and `gopanic` are on the stack before anything is left out, and
`captureStacktrace` leaves out `runtime.Callers` before it is called. `Ahead` is that
difference at each function. `Under`, the invariant, says that the stack is a prefix of
exactly `skip + Ahead(at)` frames before what the caller had; at `Callers` the
difference is zero, so the cut takes away the prefix and no more (`Cut`). An event is
then made of its caller's stack alone (`Told`), which gives `CallSiteFirst` on the seven ways
on which the caller is the application. Through the logger and zap the caller is a
function of the SDK (section 5). Where
nothing stands between the application and the SDK that stack is the application's,
so that the fingerprints agree (`DirectIsOneIssue`).

`OneFailure` needs more, the fingerprint of in-app frames where the logger, zap or a
panic stand between. `AboveTheApp` says that none of those frames is in-app,
`SelectConcat` that what is kept of two joined sequences is what is kept of each, joined;
so whatever stands above the application's stack adds nothing to its in-app frames, and
the name of a message is that of the same frame. An event that the application has
grouped by hand has the fingerprint that was set, as has every other that goes through
the scope meanwhile. The lemmas on `Select` go by induction
over a length. The library's induction theorems take an operator as a parameter, but
the minimum of a non-empty set of numbers (`WFMin`, of `WellFoundedInduction`) does not:
a set that has 0 and the successor of each of its members is all of `Nat`
(`SetInduction`), and a recursive function on `Nat` exists by the same argument
(`LoopExists`). `SelectSeq` of the standard modules is defined by a recursion of its own,
so `Selection` has a `Select` of its own, in the form that a loop of the code has.

`ContextIsTheFrames` rests on `SourceAssumption`: the lines of one function are in one
file of so many lines, which is what a frame is told by. `OneClient` assumes nothing of the
headers. That two events of a request agree follows from the two places that parse them:
`ClientInv` says that what an event names is what the same function makes of the same
headers, by whichever of the two it was filled. That they name the sender is claimed of
a sender that the code has words for (`Recognised`): with client hints that have its own
brand, at whatever place, with any number of others beside it but none of another known
browser; or without them, told by the words that its User-Agent has and those that it
lacks. Section 5 lists browsers that are not among these.
It is proved that the brand taken is one
of the best (`BestBrand`, `ParsedBrand`), and for each of the tables that the first word
found is the browser's own (`BrowserIsTold`, `SystemIsTold`).

Every invariant that a passing run checks is thus a theorem. Only model-checked:
liveness (`CaptureReturns`, `AcceptedIsSettled`, `FlushLeaksNoGoroutine`, `ReportIsSent`,
`SilenceIsJustified`), which is out of this prover's reach, as is anything about ENABLED,
TLC's own deadlock check among it.

## 5. What the code does not do

Each of these is a run that TLC ends with a counterexample; `PROJECT.json` quotes
the line that promises otherwise.

| run | what happens |
|---|---|
| `flush_panic` | The last `Done` releases the waiter of a `Flush`; a capture adds to the group before the waiter runs; the waiter panics on a goroutine that nothing recovers. |
| `header_map` | Two events of one request share a header map; scrubbing one races with scrubbing or marshalling the other. |
| `own_code` | A frame of `sort` or `net/http` counts as the application's own, is hashed into the fingerprint and may name a message; a frame of a package below a directory like `pkg/models` does not. |

Found with these models as well, at odds with a comment or a test, and no run of their
own at present:

- `OnError` captures while the capture that was refused still holds `closeMu` for
  reading (`client.go:470`), and a `Close` on another goroutine has asked for the lock.
  Go admits no new reader then, so neither goes on, nor does any later capture; a sender whose
  `OnError` captures meanwhile is caught as well, and the queue is sent no further.
  The liveness properties name this one state as their exception (`CaughtByClose`):
  "monitoring must never become the thing that takes the application down"
  (`client.go:439-440`).
- A `Close` whose `Flush` has timed out closes the channel and waits for the pool, which
  still sends the whole backlog (`client.go:398`): "Close must return within a
  reasonable time (FlushTimeout + margin)" (`client_test.go:73`).
- Two overlapping `WithScope` on one hub leave it at a callback's scope for good
  (`span.go:398`), while "Mutations made inside fn are scoped to that callback only"
  (`span.go:373-374`) and the hub may be shared (`span.go:378-379`). `ScopesAreRestored`
  assumes that hubs are not shared.
- A handler that captures inside `WithScope` and returns its error has it reported
  twice, since the mark went to the callback's scope (`span.go:128`).
- The first frame of a logger's event is `LogEntry.Emit` and that of a zap entry
  `Core.Write`, with zap's own frames below it, since neither adds to the skip. So
  "internal bikeeper frames are excluded from the top" (`stacktrace.go:174-177`) is true
  of seven of the nine ways, and `CallSiteFirst` is stated for these.
- `SetFingerprint` is for "every event captured through this scope"
  (`span.go:475-477`); `bikeeperfiber.CaptureException`, `CaptureMessage` and the report
  of a panic have the request's hub within reach and do not ask it. With a fingerprint
  set, a failure that is captured through the hub and by one of these is two issues.
  `OneFailureIsOneIssue` keeps the two sorts of events apart.

Met while modelling, and without a run because no line of the repository says
otherwise, or because reading is enough:

- The second of two Closes returns at once (`client.go:397`), while the first is
  still draining.
- A transport that panics ends the process: `runTask` defers `Done` and recovers
  nothing (`client.go:514-524`).
- `BeforeSend` runs on the goroutine that captures (`client.go:405`), not on a sender.
- A report has no place for the root's `Data`: the status code that `SetHTTPStatus`
  stores there and the error of `FinishJob` are never sent
  (`transaction.go:88-99`).
- A span that finishes below one that has not is reported with a parent that the
  report does not hold (`transaction.go:101`). `WaterfallFits` says that this is the one
  way in which a parent can be missing.
- The transaction's status is read before the framework's error handler has written
  the response (`fiber/bikeeperfiber.go:172`, `echo/bikeeperecho.go:125`): a handler
  that returns an error is traced with the status of a success.
- `Client.Capture` and log records do not pass through `BeforeSend`
  (`client.go:345`).
- The captures of the middleware's package mark no scope: a handler that reports its
  error with `bikeeperfiber.CaptureException` and returns it is reported again, unless
  it calls `bikeeperfiber.MarkCaptured`. Echo's package has no such function.
- Any earlier capture on a request, a warning as well, silences the report of a later
  and unrelated failure (`fiber/bikeeperfiber.go:181`).
- A span that is started after its root has been reported is registered with it all
  the same (`span.go:836`): a context that a background goroutine keeps grows for ever.
- `NewEvent` keeps the slice of tags that its caller passed (`event.go:162`).
- Of two bikeeper tracers in one chain both ends find the span of the second, since they
  use one key of the context, and that of the first stays open. `InstrumentAssumption`
  leaves that out.
- Where `next` panics below the redis hook, or rows are never closed, no end is asked
  for and the span stays open (`Abandon`): no report has it.
- With a hub in the context and no transaction, every query is a transaction of its own
  (`StartRootSpan`), though a comment speaks of "a hub that owns a transaction"
  (`pgx/tracer.go:120-122`).
- An entry of `Fatal` is put in the queue, then zap ends the process; `Core.Sync` does
  nothing (`zap/bikeeperzap.go:203`), so the entry is lost unless the pool is fast.
- The two copies of the switch that shortens a browser's name agree today
  (`OneClientPerRequest`); nothing but their text makes them.
- A capture of the client whose context holds no hub, as zap's of an entry without a
  context, names no browser (`client.go:282-288`).
- Without client hints some browsers are misnamed (`fiber/bikeeperfiber.go:550-564`):
  Chrome and Firefox for iOS (`CriOS/`, `FxiOS/`) have no name, Edge for iOS (`EdgiOS/`)
  is Safari; Edge for Android (`EdgA/`), Samsung Internet and Brave are Chrome; and an
  iPad that asks for desktop sites is a Mac. They are not `Recognised`; `event_origin`
  has two of them, whose events agree all the same.

## 6. Abstractions, and what is left out

- A value is what set it: a note is a goroutine and a scope, a tag a key and a
  source. The keys of tags and extras are each a kind of note, and `MaxBreadcrumbs` stands
  for 100. That `SetFingerprint` with no parts takes a fingerprint back is in `Origin`, and
  not in `Hub`.
- What two goroutines do to one hub with `WithScope` at the same time (`span.go:378-379`)
  is in the model, in `request` and in the theorems that allow shared hubs; that the scope
  is put back is then false (section 5) and no property claims it. Nor does one claim
  that a capture inside a callback silences the middleware.
- Callbacks of the application return, and none blocks for ever. `BeforeSend` and the
  function of `WithScope` may panic as well. A panic of `OnError` is left out: on a
  goroutine that captures it goes through the deferred `RUnlock` into the application, the
  same steps as a return, and on a sender it ends the process as a transport's panic does.
- `sync.WaitGroup` panics when a released waiter finds the counter above zero. The
  narrower window in which `Add` itself notices a waiter at zero is left out; it
  would be one more way to the same panic.
- The sections in which `Clone` copies a scope, and in between reads the pointer again, are
  one step.
- `bikeeperfiber.CaptureException(c, ...)` builds its event by hand and touches no
  scope: `Payload.BuildByHand`, `Request.CaptureDirect`.
- In echo nothing sets an HTTP context on the scope, nor looks at the browser.
- pgx's and go-redis's part is external: they call the start callbacks, pass on the
  context, and call the end callbacks or do not. The application has no way to a span
  that a tracer started. The chain's prepare, connect and copy callbacks, which ours has
  none of, are left out.
- The cores of a zap logger write only what `Check` lets through; levels beyond zap's own
  are left out, and how a value is formatted. A field is one key and one value: those that
  nest (`zap.Namespace`, `zap.Inline`) are left out, so that an error below a namespace,
  which has neither of the two keys, is outside `TitleNamesTheError`.
- A frame's function, module and file are its place and a name. A User-Agent is the words
  it holds, each with the version behind it, and a version is its first number.
- `captureHTTPEvent`, the report of an error status, is not among the ways of `Origin`: it
  takes no stack and fills its event with the same `enrichWithHTTPContext`.
- Identifiers, wording, wire formats and status codes of the server.

Not modelled: `transport.go` beyond the result of a send is plain I/O; construction of
the client reads its options once; `pgx/logger.go` rewrites the wording of a message
and has no state.

## 7. Plan

Done, in this order:

1. `SendQueue` and `Delivery`: the queue, its properties, the refinement; proofs.
2. `Trace`: spans, transactions and jobs; proofs.
3. `Hub`: hubs and scopes; proofs.
4. `Request`: the middleware on top of `Hub`; proofs.
5. `Payload`: contents, scrubbing and the shared header map; proofs.
6. `Instrument`: the pgx tracer with its chain and the redis hook, on top of `Trace`;
   proofs.
7. `ZapCore` and `Logging`: the zap core, the refinement; proofs.
8. `Stacktrace`, `Browser` and `Origin`: what an event says of where it comes from;
   proofs.

Left, in order of importance:

1. The composition of `Request` with `SendQueue`, for the mark that is set before the
   queue has accepted the event.
2. A request as its application sees it (a failure has a voice, exactly one through the
   request's own scope), as an abstract specification that `Request` implements.

The number of runs is kept small on purpose: a new module gets one run for safety
and liveness together, and shares it where modules compose.
