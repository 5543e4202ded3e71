------------------------- MODULE ZapCoreProperties -------------------------
(***************************************************************************)
(* What the zap core must satisfy.                                         *)
(***************************************************************************)
EXTENDS ZapCore, FiniteSets

Slices == [array : Nat, len : Nat, own : Seq(Fields)]
Events == [message : Seq(Texts), tags : SUBSET Fields,
           context : Contexts \cup {NoContext},
           level : {"debug", "info", "warning", "error", "fatal"}]

\* Every variable holds a value of its type, and a core's slice lies in its array.
TypeOK ==
  /\ client \in BOOLEAN
  /\ arrays \in Seq(Seq(Fields \cup {Unused}))
  /\ cores \in Seq([slice : Slices, context : Contexts \cup {NoContext}])
  /\ \A c \in DOMAIN cores :
       /\ cores[c].slice.array \in DOMAIN arrays
       /\ cores[c].slice.len <= Len(arrays[cores[c].slice.array])
  /\ \A g \in Goroutines :
       entry[g] # NoEntry => entry[g].core \in DOMAIN cores /\ entry[g].slice \in Slices
  /\ events \in Seq(Events)

-----------------------------------------------------------------------------
\* The logger that a core is, and the event without its message.
LoggerOf(core) == [fields |-> View(core.slice), context |-> core.context]
Bare(e) == [tags |-> e.tags, context |-> e.context, level |-> e.level]

Promise == INSTANCE Logging WITH
  loggers <- [c \in DOMAIN cores |-> LoggerOf(cores[c])],
  events <- [i \in DOMAIN events |-> Bare(events[i])]

\* The core keeps what Logging promises: a logger never changes, whoever derives
\* from it or writes through it at the same time, and an event has the fields and
\* the context of its own logger and call (bikeeperzap.go:150-151, 185-187).
KeepsPromise == Promise!Spec

\* An error that a field holds, of the entry or of its logger, is in the title of the
\* event, and once, whether the call site has put it there itself or not; fields below a
\* zap.Namespace are not among those modelled (bikeeperzap.go:246-252).
TitleNamesTheError ==
  \A i \in DOMAIN events :
    LET e == events[i]
        logged == {t \in e.tags : t.key \in {"error", "err"} /\ t.value # "nil"}
        chief == {t \in logged : t.key = "error" \/ ~\E u \in logged : u.key = "error"}
    IN \A t \in chief :
         Cardinality({j \in DOMAIN e.message : e.message[j] = t.value}) = 1
=============================================================================
