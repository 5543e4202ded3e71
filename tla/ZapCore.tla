------------------------------ MODULE ZapCore ------------------------------
(***************************************************************************)
(* The zap core (zap/bikeeperzap.go).  A Core keeps the fields of With in  *)
(* a slice; Write appends the fields of its entry to that slice, makes     *)
(* tags of the result, folds a logged error into the message, and captures *)
(* with the context nearest to the call.  Goroutines derive and use        *)
(* loggers at will, and two of them may be in Write of one core.           *)
(*                                                                         *)
(* A slice is an array and a length, as in Go: what append does depends on *)
(* the room behind the slice.                                              *)
(***************************************************************************)
EXTENDS Integers, Sequences

CONSTANTS
  Goroutines,
  Fields,      \* records [key, value]: "nil" stands for "<nil>" and the empty text
  Contexts,
  NoContext,
  Levels,      \* zapcore.Level: those zap names, DebugLevel to FatalLevel
  Minimum,
  Inputs,      \* bound: the arguments that calls are given
  Texts,       \* what values and messages are made of
  Messages,    \* bound: the messages of the entries, none of which repeats a text
  MaxCores,    \* bound
  MaxEntries   \* bound: entries written in a run

\* A carrier made by Ctx is invisible to every encoder, so that its place among the
\* other arguments of a call does not matter.
Arguments == [fields : Seq(Fields), carriers : Seq(Contexts \cup {NoContext})]

ASSUME ZapCoreAssumption ==
  /\ NoContext \notin Contexts
  /\ Levels \subseteq -1 .. 5
  /\ Minimum \in Int
  /\ Inputs \subseteq Arguments
  /\ \A f \in Fields : {"key", "value"} \subseteq DOMAIN f /\ f.value \in Texts
  /\ Messages \subseteq Seq(Texts)
  /\ \A m \in Messages : \A i, j \in DOMAIN m : m[i] = m[j] => i = j

VARIABLES
  client,   \* whether Core.client is set
  arrays,   \* the backing arrays of the cores' slices
  cores,    \* the cores, in the order in which they were made
  entry,    \* by goroutine: the Write it is in, or NoEntry
  events    \* what CaptureMessage has been given

vars == <<client, arrays, cores, entry, events>>

NoEntry == [core |-> 0]
Unused == [key |-> "none", value |-> "nil"]

\* The cells that a slice shows.
View(slice) ==
  IF slice.array = 0 THEN slice.own ELSE SubSeq(arrays[slice.array], 1, slice.len)

SliceOf(array, len) == [array |-> array, len |-> len, own |-> <<>>]

\* NewCore: the fields are a nil slice, here one of an empty array.
Init ==
  /\ client \in BOOLEAN
  /\ arrays = << <<>> >>
  /\ \E ctx \in Contexts \cup {NoContext} :
       cores = <<[slice |-> SliceOf(1, 0), context |-> ctx]>>
  /\ entry = [g \in Goroutines |-> NoEntry]
  /\ events = <<>>

-----------------------------------------------------------------------------
\* extractContext, and what is taken when it finds nothing.
Extract(carriers, otherwise) ==
  IF \A i \in DOMAIN carriers : carriers[i] = NoContext THEN otherwise
  ELSE carriers[CHOOSE i \in DOMAIN carriers :
         carriers[i] # NoContext /\ \A j \in i + 1 .. Len(carriers) : carriers[j] = NoContext]

\* Mutant of With: append in place of make and copy.  Append finds room, or makes an
\* array with some to spare.
WithAppend(c, given) ==
  /\ Len(cores) < MaxCores
  /\ LET slice == cores[c].slice
         len == slice.len + Len(given.fields)
         all == View(slice) \o given.fields
         fits == len <= Len(arrays[slice.array])
     IN /\ arrays' = IF fits
                     THEN [arrays EXCEPT ![slice.array] = all \o SubSeq(@, len + 1, Len(@))]
                     ELSE Append(arrays, Append(all, Unused))
        /\ cores' = Append(cores,
             [slice |-> SliceOf(IF fits THEN slice.array ELSE Len(arrays'), len),
              context |-> Extract(given.carriers, cores[c].context)])
  /\ UNCHANGED <<client, entry, events>>

\* Mutant of With: the carriers are counted.
WithCounted(c, given) ==
  /\ Len(cores) < MaxCores
  /\ arrays' = Append(arrays, View(cores[c].slice) \o given.fields)
  /\ cores' = Append(cores,
       [slice |-> SliceOf(Len(arrays'),
                    cores[c].slice.len + Len(given.fields) + Len(given.carriers)),
        context |-> Extract(given.carriers, cores[c].context)])
  /\ UNCHANGED <<client, entry, events>>

\* Core.With.  The array has as many cells as the slice is long.
With(c, given) ==
  /\ Len(cores) < MaxCores
  /\ arrays' = Append(arrays, View(cores[c].slice) \o given.fields)
  /\ cores' = Append(cores,
       [slice |-> SliceOf(Len(arrays'), cores[c].slice.len + Len(given.fields)),
        context |-> Extract(given.carriers, cores[c].context)])
  /\ UNCHANGED <<client, entry, events>>

-----------------------------------------------------------------------------
Enabled(level) == level >= Minimum

\* The first half of Write, for an entry that Check has let through: append(c.fields,
\* fields...) writes behind the slice when the array has the room, and copies
\* otherwise.  The context is the entry's, or the core's.
StartWrite(g, c, given, level, message) ==
  /\ entry[g] = NoEntry
  /\ client
  /\ Enabled(level)
  /\ LET slice == cores[c].slice
         len == slice.len + Len(given.fields)
         all == View(slice) \o given.fields
         fits == len <= Len(arrays[slice.array])
     IN /\ arrays' = IF fits
                     THEN [arrays EXCEPT ![slice.array] = all \o SubSeq(@, len + 1, Len(@))]
                     ELSE arrays
        /\ entry' = [entry EXCEPT ![g] =
             [core |-> c, given |-> given, level |-> level, message |-> message,
              context |-> Extract(given.carriers, cores[c].context),
              slice |-> IF fits THEN SliceOf(slice.array, len)
                                ELSE [array |-> 0, len |-> len, own |-> all]]]
  /\ UNCHANGED <<client, cores, events>>

\* fieldsToTags: the encoder's map keeps the last value of a key.
FieldsToTags(fields) ==
  {fields[i] : i \in {i \in DOMAIN fields :
     \A j \in i + 1 .. Len(fields) : fields[j].key # fields[i].key}}

\* Mutant of Causes: a nil error hides the other key.
CausesOfFirstKey(tags) ==
  LET keys == {t.key : t \in tags}
      key == IF "error" \in keys THEN "error" ELSE "err"
  IN {t.value : t \in {t \in tags : t.key = key /\ t.value # "nil"}}

\* errorFieldKeys: "error", or else "err".
Causes(tags) ==
  LET under(key) == {t.value : t \in {t \in tags : t.key = key /\ t.value # "nil"}}
  IN IF under("error") # {} THEN under("error") ELSE under("err")

MessageWithError(message, tags) ==
  LET new == {v \in Causes(tags) : \A i \in DOMAIN message : message[i] # v}
  IN IF new = {} THEN message ELSE Append(message, CHOOSE v \in new : TRUE)

\* zapLevelToBikeeper.
ZapLevelToBikeeper ==
  [level \in -1 .. 5 |->
     <<"debug", "info", "warning", "error", "error", "fatal", "fatal">>[level + 2]]

\* The second half of Write, up to CaptureMessage.
Capture(g) ==
  /\ entry[g] # NoEntry
  /\ LET tags == FieldsToTags(View(entry[g].slice)) IN
     events' = Append(events,
       [message |-> MessageWithError(entry[g].message, tags),
        tags |-> tags,
        context |-> entry[g].context,
        level |-> ZapLevelToBikeeper[entry[g].level]])
  /\ entry' = [entry EXCEPT ![g] = NoEntry]
  /\ UNCHANGED <<client, arrays, cores>>

-----------------------------------------------------------------------------
Next ==
  \/ \E c \in DOMAIN cores, given \in Inputs : With(c, given)
  \/ \E g \in Goroutines :
       \/ /\ Len(events) < MaxEntries
          /\ \E c \in DOMAIN cores, given \in Inputs, level \in Levels, message \in Messages :
               StartWrite(g, c, given, level, message)
       \/ Capture(g)

Spec == Init /\ [][Next]_vars
=============================================================================
