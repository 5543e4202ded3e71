------------------------------ MODULE Payload ------------------------------
(***************************************************************************)
(* What becomes of an event's contents between the capture call and the    *)
(* wire: tags merged from the request's scope, the active span, the call,  *)
(* the client and the host, BeforeSend set to ScrubSensitive, the queue,   *)
(* and a sender that marshals the event (client.go:185-234, 341-429,       *)
(* 526-692, scrub.go, span.go:205-259, transport.go).                      *)
(*                                                                         *)
(* Tags are copied from hand to hand; the HTTP request that a hub snapshot *)
(* holds is not.  Its header map belongs to every event captured on the    *)
(* request, while ScrubSensitive writes to it and a sender reads it.       *)
(***************************************************************************)
EXTENDS Integers, Sequences, FiniteSets, SequencesExt

CONSTANTS
  Items,      \* events and log records of a run
  Keys,       \* tag keys
  Lists,      \* bound: by item and source, the lists of keys it may contribute
  ClientKeys, \* bound: the keys that Client.SetTag is given
  OptionKeys, \* environment and release, those of them that Options have
  Sensitive,  \* those of them that NewScrubber redacts
  HostKeys    \* those that appendServerMetaTags knows

ASSUME PayloadAssumption ==
  /\ IsFiniteSet(Keys)
  /\ Lists \in [Items -> [{"scope", "span", "browser", "call"} -> SUBSET Seq(Keys)]]
  /\ ClientKeys \subseteq Keys
  /\ OptionKeys \in Seq(Keys)
  /\ Sensitive \subseteq Keys
  /\ HostKeys \subseteq Keys

VARIABLES
  step,     \* how far an item has come
  kind,     \* "event", "capture" (Client.Capture) or "log"
  tags,     \* an item's Tags
  request,  \* its HTTPRequest: the hub's, one of its own, or none
  headers,  \* by request: whether a sensitive header is "raw" or "redacted"
  global,   \* Client.globalTags: its keys, in order
  given,    \* history: what each source contributed to an item
  crashed   \* the Go runtime has ended the process

vars == <<step, kind, tags, request, headers, global, given, crashed>>

Kinds == {"event", "capture", "log"}

\* Where a tag comes from, the more specific the later.
Sources == <<"options", "client", "scope", "span", "browser", "call">>
HubRequest == "hub"
Requests == Items \cup {HubRequest}

\* The tags of a list of keys, which may have a key more than once; a tag remembers
\* its place in its source and whether its value has been replaced.
TagsOf(keys, source) ==
  [n \in DOMAIN keys |->
     [key |-> keys[n], from |-> source, nth |-> n, redacted |-> FALSE]]

Has(list, key) == \E i \in DOMAIN list : list[i].key = key

NothingGiven == [s \in Range(Sources) |-> <<>>]

Init ==
  /\ step = [i \in Items |-> "new"]
  /\ kind = [i \in Items |-> "event"]
  /\ tags = [i \in Items |-> <<>>]
  /\ request = [i \in Items |-> "none"]
  /\ headers = [r \in Requests |-> "raw"]
  /\ global = <<>>
  /\ given = [i \in Items |-> NothingGiven]
  /\ crashed = FALSE

-----------------------------------------------------------------------------
\* Mutant of SetTag: the key is not looked for.
SetTagAgain(key) ==
  /\ global' = Append(global, key)
  /\ UNCHANGED <<step, kind, tags, request, headers, given, crashed>>

\* SetTag of the client: a key that is there has its value overwritten in place.
SetTag(key) ==
  /\ key \notin Range(global)
  /\ global' = Append(global, key)
  /\ UNCHANGED <<step, kind, tags, request, headers, given, crashed>>

\* RemoveTag: nothing if there is no such key.
RemoveTag(key) ==
  /\ \E n \in DOMAIN global : global[n] = key /\ global' = RemoveAt(global, n)
  /\ UNCHANGED <<step, kind, tags, request, headers, given, crashed>>

Goes(i, from, to) == step[i] = from /\ step' = [step EXCEPT ![i] = to]

\* CaptureException and CaptureMessage of the hub and of the client, with a hub in
\* the context or without: attachSpanContext, applyHTTPContext (whose tags name the
\* browser and its system), applyScopeData.
BuildInContext(i, scope, span, browser, call, r) ==
  /\ Goes(i, "new", "built")
  /\ r = "none" => browser = <<>>
  /\ kind' = [kind EXCEPT ![i] = "event"]
  /\ tags' = [tags EXCEPT ![i] =
                TagsOf(scope, "scope") \o TagsOf(span, "span")
                  \o TagsOf(browser, "browser") \o TagsOf(call, "call")]
  /\ given' = [given EXCEPT ![i].scope = scope, ![i].span = span,
                            ![i].browser = browser, ![i].call = call]
  /\ request' = [request EXCEPT ![i] = r]
  /\ UNCHANGED <<headers, global, crashed>>

\* An event that the middleware or the application has put together, with a request
\* of its own or none, for CaptureEventAsync or Capture; and the record of a
\* LogEntry.Emit with EnableLogging, which has no request.
BuildByHand(i, k, call, r) ==
  /\ Goes(i, "new", "built")
  /\ kind' = [kind EXCEPT ![i] = k]
  /\ tags' = [tags EXCEPT ![i] = TagsOf(call, "call")]
  /\ given' = [given EXCEPT ![i].call = call]
  /\ request' = [request EXCEPT ![i] = r]
  /\ UNCHANGED <<headers, global, crashed>>

\* appendServerMetaTags skips the keys that are already present.
HostTags(list) == TagsOf(SetToSeq({k \in HostKeys : ~Has(list, k)}), "host")

AfterEnrich(i) ==
  CASE kind[i] = "event" -> "enriched"
    [] kind[i] = "capture" -> "sending"
    [] kind[i] = "log" -> "queued"

\* A log record has fields of its own for them.
FromOptions(i) == IF kind[i] = "log" THEN <<>> ELSE OptionKeys

\* Mutant of Enrich: the client's tags come last.
EnrichLast(i) ==
  /\ Goes(i, "built", AfterEnrich(i))
  /\ tags' = [tags EXCEPT ![i] =
                LET merged == TagsOf(FromOptions(i), "options") \o @
                                \o TagsOf(global, "client") IN
                merged \o IF kind[i] = "log" THEN <<>> ELSE HostTags(merged)]
  /\ given' = [given EXCEPT ![i].client = global, ![i].options = FromOptions(i)]
  /\ UNCHANGED <<kind, request, headers, global, crashed>>

\* enrichEvent and newLogRecord: what the options say and the client's tags, read
\* under its mutex, go first; an event is given the host's as well.
Enrich(i) ==
  /\ Goes(i, "built", AfterEnrich(i))
  /\ tags' = [tags EXCEPT ![i] =
                LET merged == TagsOf(FromOptions(i), "options")
                                \o TagsOf(global, "client") \o @ IN
                merged \o IF kind[i] = "log" THEN <<>> ELSE HostTags(merged)]
  /\ given' = [given EXCEPT ![i].client = global, ![i].options = FromOptions(i)]
  /\ UNCHANGED <<kind, request, headers, global, crashed>>

-----------------------------------------------------------------------------
\* Items that are writing to a request's header map, and those that iterate it.
Writers(r) == {i \in Items : step[i] = "scrubbing" /\ request[i] = r}
Readers(r) == {i \in Items : step[i] = "marshalling" /\ request[i] = r}

\* A map that is written while another goroutine uses it: the runtime may notice,
\* which nothing can recover from, or not.
Access(r, clash) == crashed' \in {FALSE, r # "none" /\ clash}

\* Mutant of ScrubTags: only the first match is redacted.
ScrubFirstTag(i) ==
  /\ Goes(i, "enriched", "scrubbing")
  /\ LET found == {n \in DOMAIN tags[i] : tags[i][n].key \in Sensitive} IN
     tags' = [tags EXCEPT ![i] =
       [n \in DOMAIN @ |->
          [tags[i][n] EXCEPT !.redacted = n \in found /\ \A m \in found : n <= m]]]
  /\ Access(request[i], Writers(request[i]) \cup Readers(request[i]) # {})
  /\ UNCHANGED <<kind, request, headers, global, given>>

\* The scrubber's loop over the tags, and the start of its loop over the headers.
ScrubTags(i) ==
  /\ Goes(i, "enriched", "scrubbing")
  /\ tags' = [tags EXCEPT ![i] =
       [n \in DOMAIN @ |->
          [tags[i][n] EXCEPT !.redacted = tags[i][n].key \in Sensitive]]]
  /\ Access(request[i], Writers(request[i]) \cup Readers(request[i]) # {})
  /\ UNCHANGED <<kind, request, headers, global, given>>

\* The end of the loop over the headers; the event is queued.
ScrubHeaders(i) ==
  /\ Goes(i, "scrubbing", "queued")
  /\ headers' = IF request[i] = "none" THEN headers
                ELSE [headers EXCEPT ![request[i]] = "redacted"]
  /\ UNCHANGED <<kind, tags, request, global, given, crashed>>

\* The queue is full: the item is dropped.
Drop(i) ==
  /\ Goes(i, "queued", "dropped")
  /\ UNCHANGED <<kind, tags, request, headers, global, given, crashed>>

\* A sender, or Client.Capture itself, marshals the item.
Marshal(i) ==
  /\ Goes(i, IF kind[i] = "capture" THEN "sending" ELSE "queued", "marshalling")
  /\ Access(request[i], Writers(request[i]) # {})
  /\ UNCHANGED <<kind, tags, request, headers, global, given>>

EndMarshal(i) ==
  /\ Goes(i, "marshalling", "sent")
  /\ UNCHANGED <<kind, tags, request, headers, global, given, crashed>>

-----------------------------------------------------------------------------
Handle(i) ==
  \/ \E scope \in Lists[i].scope, span \in Lists[i].span, browser \in Lists[i].browser,
        call \in Lists[i].call, r \in {HubRequest, "none"} :
       BuildInContext(i, scope, span, browser, call, r)
  \/ \E k \in Kinds, call \in Lists[i].call, r \in {i, "none"} :
       (k = "log" => r = "none") /\ BuildByHand(i, k, call, r)
  \/ Enrich(i)
  \/ ScrubTags(i) \/ ScrubHeaders(i)
  \/ Drop(i) \/ Marshal(i) \/ EndMarshal(i)

Next ==
  /\ ~crashed
  /\ \/ \E key \in ClientKeys : SetTag(key) \/ RemoveTag(key)
     \/ \E i \in Items : Handle(i)

Spec == Init /\ [][Next]_vars
=============================================================================
