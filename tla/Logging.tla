------------------------------ MODULE Logging ------------------------------
(***************************************************************************)
(* What the zap core promises (zap/bikeeperzap.go): a logger is the fields *)
(* and the context it was derived with, and never changes; an entry at or  *)
(* above the minimum becomes one event, with the fields of its logger and  *)
(* its own, of which the last with a key counts, and with the context that *)
(* was given nearest to the call.  Slices and goroutines are left out.     *)
(*                                                                         *)
(* ZapCore implements this specification.                                  *)
(***************************************************************************)
EXTENDS Integers, Sequences

CONSTANTS
  Fields,      \* what a call may be given: records [key, value]
  Contexts,    \* the contexts of the application
  NoContext,   \* Go's nil, and context.Background
  Levels,      \* zapcore.Level: -1, debug, to 5, fatal
  Minimum,     \* NewCore's min
  Inputs       \* the arguments that calls are given: [fields, carriers], each a sequence

VARIABLES
  loggers,     \* the loggers derived so far; the first is NewCore's
  events       \* the events captured so far

vars == <<loggers, events>>

\* The last of the contexts that the carriers hold, or else the given one.
Nearest(carriers, otherwise) ==
  LET real == {i \in DOMAIN carriers : carriers[i] # NoContext}
  IN IF real = {} THEN otherwise
     ELSE carriers[CHOOSE i \in real : \A j \in real : j <= i]

Last(fields) ==
  {f \in Fields : \E i \in DOMAIN fields :
     fields[i] = f /\ \A j \in DOMAIN fields : fields[j].key = f.key => j <= i}

Severity(level) ==
  IF level < 0 THEN "debug"
  ELSE IF level = 0 THEN "info"
  ELSE IF level = 1 THEN "warning"
  ELSE IF level < 4 THEN "error" ELSE "fatal"

Init ==
  /\ \E ctx \in Contexts \cup {NoContext} :
       loggers = <<[fields |-> <<>>, context |-> ctx]>>
  /\ events = <<>>

With(l, given) ==
  /\ loggers' = Append(loggers,
       [fields |-> loggers[l].fields \o given.fields,
        context |-> Nearest(given.carriers, loggers[l].context)])
  /\ UNCHANGED events

Log(l, given, level) ==
  /\ level >= Minimum
  /\ events' = Append(events,
       [tags |-> Last(loggers[l].fields \o given.fields),
        context |-> Nearest(given.carriers, loggers[l].context),
        level |-> Severity(level)])
  /\ UNCHANGED loggers

Next ==
  \E l \in DOMAIN loggers, given \in Inputs :
    With(l, given) \/ \E level \in Levels : Log(l, given, level)

Spec == Init /\ [][Next]_vars
=============================================================================
