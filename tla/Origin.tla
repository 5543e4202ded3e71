------------------------------- MODULE Origin -------------------------------
(***************************************************************************)
(* Where an event says that it comes from: the place in the code, and the  *)
(* browser of the request it was captured on.                              *)
(*                                                                         *)
(* Every way to capture goes down a few functions of the SDK to            *)
(* captureStacktrace, and each of them adds to the count of frames to      *)
(* leave out, so that the first frame is that of the caller.  A step is    *)
(* one of these calls.  The request is one of the Fiber middleware; that   *)
(* of Echo looks at neither header, and its own captures take no stack, as *)
(* does the capture of an error status (captureHTTPEvent), which is not    *)
(* among the ways here.                                                    *)
(***************************************************************************)
EXTENDS Stacktrace, Browser, FiniteSets

CONSTANTS
  Stacks,      \* bound: the application's call stacks, innermost frame first
  Errors,      \* the types of the errors it captures or panics with; "runtime" are
               \* those of the runtime
  Headers,     \* bound: what requests send: [brands, agent], and who sends it,
               \* [name, version, os]
  Fingerprints,\* bound: what the application may set as the scope's fingerprint
  Depth,       \* how many program counters captureStacktrace asks for, 64
  MaxEvents    \* bound: events of a run

CallerFrames == UNION {{stack[i] : i \in DOMAIN stack} : stack \in Stacks}

ASSUME OriginAssumption ==
  /\ Depth \in Nat \ {0}
  /\ Stacks \subseteq Seq(CallerFrames)
  /\ \A stack \in Stacks : \A i \in DOMAIN stack : stack[i].place \in Places
  /\ "none" \notin Errors

\* A line of a function is in one file, of so many lines; a frame whose line the
\* runtime does not know has no file.
ASSUME SourceAssumption ==
  \A stack \in Stacks : \A i \in DOMAIN stack :
    /\ stack[i].line \in Nat /\ stack[i].lines \in Nat
    /\ stack[i].line = 0 => stack[i].lines = 0
    /\ \A j \in DOMAIN stack :
         /\ stack[i].module = stack[j].module
         /\ stack[i].function = stack[j].function
         /\ stack[i].line = stack[j].line
         => stack[i].lines = stack[j].lines

ASSUME HeaderAssumption ==
  \A h \in Headers :
    /\ h.brands \in Seq([name : STRING, version : STRING])
    /\ \A word \in DOMAIN h.agent : h.agent[word] \in STRING

VARIABLES
  headers,  \* of the request
  known,    \* what New has put into the scope about its browser
  customFingerprint,  \* of the scope, empty while none is set
  call,     \* the capture under way: its functions so far, or NoCall
  events    \* the events captured

vars == <<headers, known, customFingerprint, call, events>>

NoCall == [path |-> "none"]

Frame(function, place) ==
  [module |-> place, function |-> function, place |-> place, line |-> 1, lines |-> 0]

\* What each function of a capture calls next, down to runtime.Callers.  The public
\* ones are those of Client, of Hub, and of the middleware's package.
CallsNext ==
  [ClientException |-> "buildExceptionEvent",
   ClientMessage |-> "buildMessageEvent",
   HubException |-> "captureException",
   HubMessage |-> "captureMessage",
   FiberException |-> "BuildExceptionValue",
   FiberMessage |-> "BuildMessageExceptionValue",
   capturePanicEvent |-> "BuildPanicExceptionValue",
   captureException |-> "buildExceptionEvent",
   captureMessage |-> "buildMessageEvent",
   BuildExceptionValue |-> "buildExceptionValue",
   BuildMessageExceptionValue |-> "captureStacktrace",
   BuildPanicExceptionValue |-> "buildPanicExceptionValue",
   buildPanicExceptionValue |-> "buildExceptionValue",
   buildExceptionEvent |-> "buildExceptionValue",
   buildMessageEvent |-> "captureStacktrace",
   buildExceptionValue |-> "captureStacktrace",
   captureStacktrace |-> "Callers"]

\* Mutant of AddedSkip: the frames of a panic are forgotten.
AddedSkipEvenly(function) == IF function = "captureStacktrace" THEN 2 ELSE 1

\* Mutant of AddedSkip: every function leaves out its caller as well.
AddedSkipTwice(function) ==
  IF function \in {"captureStacktrace", "capturePanicEvent"} THEN 3 ELSE 2

\* What a function adds to the skip it was given; the public ones begin at 0.
\* capturePanicEvent leaves out itself, the deferred closure and gopanic.
AddedSkip(function) ==
  CASE function = "captureStacktrace" -> 2
    [] function = "capturePanicEvent" -> 3
    [] OTHER -> 1

\* How an event comes about: the public function; whether it is given an error, and
\* then whether by a panic; from where it knows the request, a context that may hold a
\* hub, a hub, or Fiber's own context; and the frames between the application and that
\* function.
Path(entry, error, panic, from, between) ==
  [entry |-> entry, error |-> error, panic |-> panic, from |-> from, between |-> between]

Panicking == <<Frame("New.func", "sdk"), Frame("gopanic", "bare")>>

Paths ==
  {Path("ClientException", TRUE, FALSE, "context", <<>>),
   Path("HubException", TRUE, FALSE, "hub", <<>>),
   Path("FiberException", TRUE, FALSE, "fiber", <<>>),
   Path("capturePanicEvent", TRUE, TRUE, "fiber", Panicking),
   Path("ClientMessage", FALSE, FALSE, "context", <<>>),
   Path("HubMessage", FALSE, FALSE, "hub", <<>>),
   Path("FiberMessage", FALSE, FALSE, "fiber", <<>>),
   Path("ClientMessage", FALSE, FALSE, "context", <<Frame("LogEntry.Emit", "sdk")>>),
   Path("ClientMessage", FALSE, FALSE, "context",
        <<Frame("Core.Write", "sdk"), Frame("CheckedEntry.Write", "dep"),
          Frame("Logger.Error", "dep")>>)}

\* Whether the request's hub is at hand.
HubOf == [context |-> BOOLEAN, hub |-> {TRUE}, fiber |-> {FALSE}]

\* A runtime error (an index out of range, a nil pointer) panics in frames of the
\* runtime's own.
Raised(path, error) ==
  IF path.panic /\ error = "runtime"
  THEN <<Frame("panicmem", "runtime"), Frame("sigpanic", "bare")>> ELSE <<>>

-----------------------------------------------------------------------------
\* Mutant of Snapshot: the brand's long name is kept.
SnapshotAsSent(h) == ParseUserAgent(h.brands, h.agent)

\* New: what goes into the scope with SetHTTPContext.
Snapshot(h) ==
  LET parsed == ParseUserAgent(h.brands, h.agent)
  IN [parsed EXCEPT !.name = ShortName(parsed.name)]

\* enrichWithHTTPContext.
EnrichWithHTTPContext(h) ==
  LET parsed == ParseUserAgent(h.brands, h.agent)
  IN [parsed EXCEPT !.name = ShortName(parsed.name)]

NoClient == [name |-> "", version |-> "", os |-> ""]

\* The client of an event: from the scope if its hub is at hand (applyHTTPContext).
EventClient(path, hub) ==
  CASE path.from = "fiber" -> EnrichWithHTTPContext(headers)
    [] path.from # "fiber" /\ hub -> known
    [] OTHER -> NoClient

\* The type of the error, or for a message the name of its caller.
EventType(path, error, frames) ==
  IF path.error THEN error ELSE CallerFunctionName(frames)

\* Without a stack there is none.
ComputedFingerprint(type, frames) ==
  IF frames = <<>> THEN <<>>
  ELSE <<ComputeAllFramesGroupingHash(type, frames), ComputeGroupingHash(type, frames)>>

\* The scope's fingerprint, where it has one, in place of what was computed.
EventFingerprint(hub, type, frames) ==
  IF hub /\ customFingerprint # <<>> THEN customFingerprint
  ELSE ComputedFingerprint(type, frames)

Init ==
  /\ headers \in Headers
  /\ known = Snapshot(headers)
  /\ customFingerprint = <<>>
  /\ call = NoCall
  /\ events = {}

\* The application sets a fingerprint, or with no parts takes it back, at any time.
SetFingerprint(parts) ==
  /\ customFingerprint' = parts
  /\ UNCHANGED <<headers, known, call, events>>

\* A public function is called, in the application or in what is between.
Begin(path, hub, error, stack) ==
  /\ call = NoCall
  /\ path.error <=> error # "none"
  /\ call' = [path |-> path, hub |-> hub, error |-> error, app |-> stack,
              at |-> path.entry, skip |-> 0,
              stack |-> <<Frame(path.entry, "sdk")>> \o path.between
                          \o Raised(path, error) \o stack]
  /\ UNCHANGED <<headers, known, customFingerprint, events>>

Descend ==
  /\ call # NoCall
  /\ call.at # "Callers"
  /\ call' = [call EXCEPT !.at = CallsNext[@], !.skip = @ + AddedSkip(call.at),
                          !.stack = <<Frame(CallsNext[call.at], "sdk")>> \o @]
  /\ UNCHANGED <<headers, known, customFingerprint, events>>

\* runtime.Callers, and then back up.  An event remembers what the scope's fingerprint
\* was, for the properties.
Build ==
  /\ call # NoCall
  /\ call.at = "Callers"
  /\ LET last == IF call.skip + Depth < Len(call.stack) THEN call.skip + Depth
                                                      ELSE Len(call.stack)
         frames == CaptureStacktrace(SubSeq(call.stack, call.skip + 1, last))
         type == EventType(call.path, call.error, frames)
     IN events' = events \cup
          {[path |-> call.path, hub |-> call.hub, app |-> call.app, error |-> call.error,
            frames |-> frames, type |-> type, custom |-> customFingerprint,
            fingerprint |-> EventFingerprint(call.hub, type, frames),
            client |-> EventClient(call.path, call.hub)]}
  /\ call' = NoCall
  /\ UNCHANGED <<headers, known, customFingerprint>>

Next ==
  \/ \E parts \in Fingerprints \cup {<<>>} : SetFingerprint(parts)
  \/ /\ Cardinality(events) < MaxEvents
     /\ \E path \in Paths, error \in Errors \cup {"none"}, stack \in Stacks :
          \E hub \in HubOf[path.from] : Begin(path, hub, error, stack)
  \/ Descend
  \/ Build

Spec == Init /\ [][Next]_vars
=============================================================================
