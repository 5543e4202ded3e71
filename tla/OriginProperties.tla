-------------------------- MODULE OriginProperties --------------------------
(***************************************************************************)
(* What the origin of an event must satisfy.                               *)
(***************************************************************************)
EXTENDS Origin

\* What events say of the clients of requests.
Clients == {Snapshot(h) : h \in Headers} \cup {NoClient}

\* Every variable holds a value of its type; no more is left out than there is.
TypeOK ==
  /\ headers \in Headers
  /\ known \in Clients
  /\ customFingerprint \in Fingerprints \cup {<<>>}
  /\ call # NoCall =>
       /\ call.path \in Paths
       /\ call.skip \in 0 .. Len(call.stack)
       /\ call.at \in DOMAIN CallsNext \cup {"Callers"}
  /\ \A e \in events : e.client \in Clients /\ Len(e.frames) <= Depth

FirstOf(stack) == SubSeq(stack, 1, IF Len(stack) < Depth THEN Len(stack) ELSE Depth)
Shown(stack) ==
  LET first == FirstOf(stack)
  IN Select(first, {i \in DOMAIN first : first[i].place # "bare"})

\* The application calls the capturing function itself, or panics; a logger's event
\* comes from a function of the SDK that the application has called.
Called(e) == e.path.panic \/ e.path.between = <<>>

\* Where the application calls a capturing function itself, and where it panics, the
\* place where the event says that it was captured is the application's: none of the
\* SDK's functions on any of these seven ways is in the trace, and no frame of the
\* caller's is missing from its top; for a panic, the caller is who panicked
\* (client.go:248, 262, bikeeperfiber.go:345-347, 385, 411, stacktrace.go:174-177).
CallSiteFirst ==
  \A e \in events : Called(e) =>
    LET shown == Shown(Raised(e.path, e.error) \o e.app) IN
    /\ DOMAIN e.frames = DOMAIN shown
    /\ \A i \in DOMAIN shown :
         /\ e.frames[i].module = shown[i].module
         /\ e.frames[i].function = shown[i].function
         /\ e.frames[i].line = shown[i].line

\* Whole: nothing of the application's stack is cut off.
Whole(e) == Len(e.path.between \o Raised(e.path, e.error) \o e.app) <= Depth
Direct(e) == Called(e) /\ Raised(e.path, e.error) = <<>>

\* Grouped: by a fingerprint that the application has set, instead of by the stack.
Grouped(e) == e.hub /\ e.custom # <<>>

\* One failure at one place is one issue, by whichever way it is reported: the
\* fingerprint of the application's frames is the same from the client, the hub, the
\* middleware's package, a panic and a log, and that of all frames is if nothing
\* stands between (span.go:99-101, stacktrace.go:138-140).  Where a fingerprint is set
\* that holds of those that do not go through the scope, and those that do are one
\* issue of their own, whatever they report (span.go:475-477).
OneFailureIsOneIssue ==
  \A d, e \in events :
    /\ d.app = e.app /\ d.error = e.error /\ ~Grouped(d) /\ ~Grouped(e) =>
         /\ Whole(d) /\ Whole(e) /\ d.fingerprint # <<>> /\ e.fingerprint # <<>> =>
              d.fingerprint[2] = e.fingerprint[2]
         /\ Direct(d) /\ Direct(e) => d.fingerprint = e.fingerprint
    /\ Grouped(d) /\ Grouped(e) /\ d.custom = e.custom => d.fingerprint = e.fingerprint

\* The lines shown around a frame are those within four of its own that the file
\* has, the frame's marked and no other; a file that has not got the line, because
\* it is another version or is missing, shows none (stacktrace.go:229-266).
ContextShowsTheLine ==
  \A e \in events : \A i \in DOMAIN e.frames : e.frames[i].inApp =>
    LET f == e.frames[i]
        lines == {c.line : c \in f.context}
        source == {g \in {e.app[k] : k \in DOMAIN e.app} :
                     /\ g.module = f.module
                     /\ g.function = f.function
                     /\ g.line = f.line}
    IN \A g \in source :
         /\ lines = IF g.line <= g.lines
                    THEN {l \in 1 .. g.lines : l - g.line \in -4 .. 4} ELSE {}
         /\ \A c \in f.context : c.current <=> c.line = f.line

\* The brands by which a browser can be told, and its own.
KnownBrands == {"Google_Chrome", "Microsoft_Edge", "Opera", "OPR", "Brave"}
OwnBrands ==
  {[name |-> "Chrome", brand |-> "Google_Chrome"], [name |-> "Edge", brand |-> "Microsoft_Edge"],
   [name |-> "Opera", brand |-> "Opera"], [name |-> "Brave", brand |-> "Brave"]}

\* The words of the User-Agents of browsers and systems that the code can tell, and for
\* a browser the word before its version.
BrowserAgents ==
  {[name |-> "Chrome", words |-> {"Chrome/", "Safari/"}, word |-> "Chrome/"],
   [name |-> "Edge", words |-> {"Chrome/", "Safari/", "Edg/"}, word |-> "Edg/"],
   [name |-> "Opera", words |-> {"Chrome/", "Safari/", "OPR/"}, word |-> "OPR/"],
   [name |-> "Safari", words |-> {"Version/", "Safari/"}, word |-> "Version/"],
   [name |-> "Firefox", words |-> {"Firefox/"}, word |-> "Firefox/"]}
SystemAgents ==
  {[os |-> "iOS", words |-> {"iPhone", "Mac_OS_X"}],
   [os |-> "iOS", words |-> {"iPad", "Mac_OS_X"}],
   [os |-> "Android", words |-> {"Linux", "Android"}],
   [os |-> "macOS", words |-> {"Macintosh", "Mac_OS_X"}],
   [os |-> "Windows", words |-> {"Windows_NT"}],
   [os |-> "Chrome_OS", words |-> {"CrOS"}],
   [os |-> "Linux", words |-> {"Linux"}],
   [os |-> "", words |-> {}]}

\* A browser's client hints have its own brand, wherever it stands, and the brand of
\* no other; without hints it is told by the words of its agent, as its system is.
Hinted(h) ==
  \E own \in OwnBrands :
    /\ h.name = own.name
    /\ \E i \in DOMAIN h.brands :
         h.brands[i].name = own.brand /\ h.brands[i].version # "none"
    /\ \A i \in DOMAIN h.brands :
         h.brands[i].name \in KnownBrands =>
           h.brands[i].name = own.brand /\ h.brands[i].version \in {h.version, "none"}
Unhinted(h) ==
  /\ \A i \in DOMAIN h.brands : h.brands[i].name \in {"Not", "Chromium"}
  /\ \E a \in BrowserAgents :
       /\ a.words = DOMAIN h.agent \cap
                      {"Firefox/", "Edg/", "OPR/", "Chrome/", "Version/", "Safari/"}
       /\ h.name = a.name /\ h.version = h.agent[a.word]
Recognised(h) ==
  /\ Hinted(h) \/ Unhinted(h)
  /\ \E s \in SystemAgents :
       /\ h.os = s.os
       /\ s.words = DOMAIN h.agent \cap
                      {"iPhone", "iPad", "Android", "Macintosh", "Mac_OS_X",
                       "Windows_NT", "CrOS", "Linux"}

\* Whatever the request has sent, all its events that go through its hub or through the
\* middleware name one browser, version and system, though the two read the headers
\* each with a switch of its own; and if the sender is one that the code can tell, they
\* name it, in whichever order it sends its brands (bikeeperfiber.go:105-110, 422-424,
\* 435-440, 487-488).
OneClientPerRequest ==
  LET told == {e \in events : e.hub \/ e.path.from = "fiber"}
      sender == [name |-> headers.name, version |-> headers.version, os |-> headers.os]
  IN /\ \A d, e \in told : d.client = e.client
     /\ Recognised(headers) => \A e \in told : e.client = sender

-----------------------------------------------------------------------------
(***************************************************************************)
(* What the repository's comments say and the code does not do.            *)
(***************************************************************************)

\* "InApp is true for frames that belong to the application's own code (not the Go
\* runtime, standard library, or third-party dependencies)" (stacktrace.go:40-41).
InAppIsOwnCode ==
  \A e \in events : \A i \in DOMAIN e.frames :
    \A g \in {e.app[k] : k \in DOMAIN e.app} :
      g.function = e.frames[i].function /\ g.line = e.frames[i].line =>
        (e.frames[i].inApp <=> g.place \in {"app", "pkgmod"})
=============================================================================
