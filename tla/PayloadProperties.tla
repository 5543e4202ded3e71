------------------------- MODULE PayloadProperties -------------------------
(***************************************************************************)
(* What must hold of the contents of events and log records.               *)
(***************************************************************************)
EXTENDS Payload

Tag == [key : Keys, from : Range(Sources) \cup {"host"}, nth : Nat \ {0},
        redacted : BOOLEAN]

\* Every variable holds a value of its type, and the client's own tags have a key
\* once (client.go:535-541).
TypeOK ==
  /\ step \in [Items -> {"new", "built", "enriched", "scrubbing", "queued", "sending",
                       "marshalling", "sent", "dropped"}]
  /\ kind \in [Items -> Kinds]
  /\ tags \in [Items -> Seq(Tag)]
  /\ request \in [Items -> Requests \cup {"none"}]
  /\ headers \in [Requests -> {"raw", "redacted"}]
  /\ global \in Seq(Keys)
  /\ \A m, n \in DOMAIN global : global[m] = global[n] => m = n
  /\ given \in [Items -> [Range(Sources) -> Seq(Keys)]]
  /\ crashed \in BOOLEAN

OnItsWay(i) == step[i] \in {"queued", "marshalling", "sent"}

\* Nothing that BeforeSend is there to withhold reaches the queue or a sender with
\* an event, wherever the tag came from and whoever else holds the request: what
\* enrichEvent adds is there before the scrubber looks, and nothing is added after
\* it (client.go:354-359, 402-429, scrub.go:80-97).
EventsAreScrubbed ==
  \A i \in Items :
    kind[i] = "event" /\ OnItsWay(i) =>
      /\ \A n \in DOMAIN tags[i] : tags[i][n].key \in Sensitive => tags[i][n].redacted
      /\ request[i] # "none" => headers[request[i]] = "redacted"

\* The last tag with a key, which is the one that counts.
Winner(list, key) == list[Max({n \in DOMAIN list : list[n].key = key})]
Places(keys, key) == {n \in DOMAIN keys : keys[n] = key}

\* Of the tags with one key the last in the event is that of the most specific source
\* that has the key, and where that source has it several times, the one it gave last;
\* the host's tags never come after another: "per-event tags take precedence", and
\* "each call appends without replacing" (client.go:528, 598-608, 683-691,
\* span.go:261-264, logger.go:37-44).
MostSpecificTagWins ==
  \A i \in Items : step[i] \notin {"new", "built"} =>
    \A key \in Keys :
      LET having == {n \in DOMAIN Sources : Places(given[i][Sources[n]], key) # {}} IN
      /\ having # {} =>
           LET source == Sources[Max(having)] IN
           /\ Winner(tags[i], key).from = source
           /\ Winner(tags[i], key).nth = Max(Places(given[i][source], key))
      /\ having = {} /\ key \in HostKeys /\ kind[i] # "log" =>
           Winner(tags[i], key).from = "host"

-----------------------------------------------------------------------------
\* "these are read-only after middleware sets them, so sharing the pointer is safe"
\* (span.go:300-301): no goroutine writes to a request's headers while another one
\* uses them.
SharingTheRequestIsSafe ==
  \A r \in Requests :
    \A w \in Writers(r) : Writers(r) \cup Readers(r) = {w}
=============================================================================
