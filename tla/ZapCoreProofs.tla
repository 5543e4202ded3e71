--------------------------- MODULE ZapCoreProofs ---------------------------
(***************************************************************************)
(* Proofs about ZapCore, for any fields, contexts, inputs and messages and *)
(* any number of goroutines and cores.                                     *)
(***************************************************************************)
EXTENDS ZapCoreProperties, SequenceTheorems, FiniteSetTheorems, WellFoundedInduction,
        TLAPS

ContextOrNone == Contexts \cup {NoContext}

LEMMA LeastNatural ==
  ASSUME NEW T, T \subseteq Nat, T # {}
  PROVE  \E x \in T : \A y \in T : x <= y
  <1>1. PICK x \in T : \A y \in T : <<y, x>> \notin OpToRel(<, Nat)
    BY NatLessThanWellFounded, WFMin
  <1>2. \A y \in T : x \in Nat /\ y \in Nat
    OBVIOUS
  <1>3. \A y \in T : <<y, x>> \in OpToRel(<, Nat) <=> y < x
    BY <1>2 DEF OpToRel
  <1>4. \A y \in T : ~(y < x)
    BY ONLY <1>1, <1>3, Zenon
  <1>5. \A y \in T : x <= y
    BY ONLY <1>2, <1>4
  <1> QED
    BY <1>5

LEMMA GreatestIndex ==
  ASSUME NEW n \in Nat, NEW T, T \subseteq 1 .. n, T # {}
  PROVE  \E x \in T : \A y \in T : y <= x
  <1> DEFINE D == {n - x : x \in T}
  <1>0. \A x \in T : x \in Int /\ x >= 1 /\ x <= n /\ n - x \in Nat
    OBVIOUS
  <1>1. D \subseteq Nat
    BY <1>0
  <1>2. D # {}
    OBVIOUS
  <1>3. PICK d \in D : \A e \in D : d <= e
    <2> HIDE DEF D
    <2> QED
      BY <1>1, <1>2, LeastNatural
  <1>4. PICK x \in T : d = n - x
    BY <1>3
  <1>5. \A y \in T : n - x <= n - y
    BY <1>3, <1>4
  <1> QED
    BY <1>0, <1>4, <1>5

\* extractContext finds the last context that is not nil, as Logging wants it
\* (bikeeperzap.go:95-121).
LEMMA ExtractIsNearest ==
  ASSUME NEW carriers \in Seq(ContextOrNone), NEW otherwise \in ContextOrNone
  PROVE  /\ Extract(carriers, otherwise) = Promise!Nearest(carriers, otherwise)
         /\ Extract(carriers, otherwise) \in ContextOrNone
  <1> DEFINE real == {i \in DOMAIN carriers : carriers[i] # NoContext}
             LastOne(i) == /\ carriers[i] # NoContext
                           /\ \A j \in i + 1 .. Len(carriers) : carriers[j] = NoContext
  <1>0. Len(carriers) \in Nat /\ DOMAIN carriers = 1 .. Len(carriers)
    OBVIOUS
  <1>1. CASE real = {}
    BY <1>1 DEF Extract, Promise!Nearest
  <1>2. CASE real # {}
    <2>1. PICK m \in real : \A j \in real : j <= m
      BY <1>0, <1>2, GreatestIndex
    <2>2. \A i \in DOMAIN carriers : LastOne(i) <=> i = m
      BY <1>0, <2>1
    <2>3. m = CHOOSE i \in DOMAIN carriers : LastOne(i)
      BY <2>1, <2>2
    <2>4. \A i \in real : (\A j \in real : j <= i) <=> i = m
      BY <1>0, <2>1
    <2>5. m = CHOOSE i \in real : \A j \in real : j <= i
      BY <2>1, <2>4
    <2>6. Extract(carriers, otherwise) = carriers[m]
      BY <1>2, <2>3 DEF Extract
    <2>7. Promise!Nearest(carriers, otherwise) = carriers[m]
      BY <1>2, <2>5 DEF Promise!Nearest
    <2> QED
      BY <2>1, <2>6, <2>7
  <1> QED
    BY <1>1, <1>2

\* What the encoder's map is left with is the last field of each key
\* (bikeeperzap.go:278-297).
LEMMA TagsAreLast ==
  ASSUME NEW fields \in Seq(Fields)
  PROVE  FieldsToTags(fields) = Promise!Last(fields) /\ FieldsToTags(fields) \in SUBSET Fields
  <1>1. Len(fields) \in Nat /\ DOMAIN fields = 1 .. Len(fields)
        /\ \A i \in DOMAIN fields : fields[i] \in Fields
    OBVIOUS
  <1>2. ASSUME NEW f \in FieldsToTags(fields) PROVE f \in Promise!Last(fields)
    <2>1. PICK i \in DOMAIN fields :
            /\ f = fields[i]
            /\ \A j \in i + 1 .. Len(fields) : fields[j].key # fields[i].key
      BY <1>2 DEF FieldsToTags
    <2>2. \A j \in DOMAIN fields : fields[j].key = f.key => j <= i
      BY <1>1, <2>1
    <2> QED
      BY <1>1, <2>1, <2>2 DEF Promise!Last
  <1>3. ASSUME NEW f \in Promise!Last(fields) PROVE f \in FieldsToTags(fields)
    <2>1. PICK i \in DOMAIN fields :
            /\ fields[i] = f
            /\ \A j \in DOMAIN fields : fields[j].key = f.key => j <= i
      BY <1>3 DEF Promise!Last
    <2>2. \A j \in i + 1 .. Len(fields) : fields[j].key # fields[i].key
      BY <1>1, <2>1
    <2> QED
      BY <2>1, <2>2 DEF FieldsToTags
  <1> QED
    BY <1>1, <1>2, <1>3 DEF FieldsToTags

\* The levels of zap have the severities that the table of the comment gives them
\* (bikeeperzap.go:207-231).
LEMMA LevelIsSeverity ==
  ASSUME NEW level \in Levels
  PROVE  /\ ZapLevelToBikeeper[level] = Promise!Severity(level)
         /\ ZapLevelToBikeeper[level] \in {"debug", "info", "warning", "error", "fatal"}
  <1>1. level \in -1 .. 5
    BY ZapCoreAssumption DEF ZapCoreAssumption
  <1>2. \/ level = -1 \/ level = 0 \/ level = 1 \/ level = 2 \/ level = 3
        \/ level = 4 \/ level = 5
    BY <1>1
  <1>3. ZapLevelToBikeeper[level] =
          <<"debug", "info", "warning", "error", "error", "fatal", "fatal">>[level + 2]
    BY <1>1 DEF ZapLevelToBikeeper
  <1> QED
    BY <1>2, <1>3 DEF Promise!Severity

-----------------------------------------------------------------------------
(***************************************************************************)
(* A core's slice fills its array, so that append never finds room behind  *)
(* it: no array is ever written to again.                                  *)
(***************************************************************************)
Fills(slice) == slice.array \in DOMAIN arrays /\ slice.len = Len(arrays[slice.array])

Cores == [slice : Slices, context : ContextOrNone]

Heap ==
  /\ arrays \in Seq(Seq(Fields))
  /\ cores \in Seq(Cores)
  /\ \A c \in DOMAIN cores : Fills(cores[c].slice)

\* A Write under way has its own view of its core's fields and those of its entry.
Writing(w) ==
  /\ w.core \in DOMAIN cores
  /\ w.given \in Inputs
  /\ w.level \in Levels /\ w.level >= Minimum
  /\ w.message \in Messages
  /\ w.slice \in Slices
  /\ w.slice.array = 0 \/ Fills(w.slice)
  /\ w.context = Extract(w.given.carriers, cores[w.core].context)
  /\ View(w.slice) = View(cores[w.core].slice) \o w.given.fields

Writes ==
  /\ entry = [g \in Goroutines |-> entry[g]]
  /\ \A g \in Goroutines : entry[g] # NoEntry => Writing(entry[g])

Inv ==
  /\ client \in BOOLEAN
  /\ Heap
  /\ Writes
  /\ events \in Seq(Events)

LEMMA InputType ==
  ASSUME NEW given \in Inputs
  PROVE  given.fields \in Seq(Fields) /\ given.carriers \in Seq(ContextOrNone)
  BY ZapCoreAssumption DEF ZapCoreAssumption, Arguments, ContextOrNone

\* A slice that fills its array shows all of it.
LEMMA ViewIsArray ==
  ASSUME arrays \in Seq(Seq(Fields)), NEW slice \in Slices, Fills(slice)
  PROVE  /\ View(slice) = arrays[slice.array]
         /\ View(slice) \in Seq(Fields)
  <1>1. slice.array # 0 /\ arrays[slice.array] \in Seq(Fields)
    BY DEF Fills
  <1>2. SubSeq(arrays[slice.array], 1, Len(arrays[slice.array])) = arrays[slice.array]
    BY <1>1, SubSeqFull
  <1> QED
    BY <1>1, <1>2 DEF View, Fills

\* An array that is added leaves what is there as it is.
LEMMA ArraysGrow ==
  ASSUME arrays \in Seq(Seq(Fields)), NEW fields \in Seq(Fields),
         arrays' = Append(arrays, fields),
         NEW slice \in Slices, slice.array = 0 \/ Fills(slice)
  PROVE  /\ View(slice)' = View(slice)
         /\ slice.array # 0 => Fills(slice)'
  <1>1. /\ Len(arrays') = Len(arrays) + 1
        /\ \A i \in 1 .. Len(arrays) : arrays'[i] = arrays[i]
        /\ DOMAIN arrays = 1 .. Len(arrays) /\ DOMAIN arrays' = 1 .. Len(arrays')
        /\ Len(arrays) \in Nat
    OBVIOUS
  <1>2. CASE slice.array = 0
    BY <1>2 DEF View
  <1>3. CASE Fills(slice)
    <2>1. slice.array \in DOMAIN arrays /\ slice.array \in DOMAIN arrays'
          /\ arrays'[slice.array] = arrays[slice.array]
      BY <1>1, <1>3 DEF Fills
    <2> QED
      BY <1>3, <2>1 DEF View, Fills
  <1> QED
    BY <1>2, <1>3

\* The Write of g has the slice, of the fields of its core and of its entry.
Appended(g, c, given, level, message, slice) ==
  /\ slice.array = 0 \/ Fills(slice)
  /\ View(slice) = View(cores[c].slice) \o given.fields
  /\ entry' = [entry EXCEPT ![g] =
       [core |-> c, given |-> given, level |-> level, message |-> message,
        context |-> Extract(given.carriers, cores[c].context), slice |-> slice]]

\* Append to a slice that fills its array: with nothing to add the result is the
\* slice, and otherwise a copy; the array stays as it is either way.
LEMMA AppendCopies ==
  ASSUME Heap, NEW c \in DOMAIN cores, NEW given \in Inputs,
         NEW g \in Goroutines, NEW level \in Levels, NEW message \in Messages,
         StartWrite(g, c, given, level, message)
  PROVE  /\ arrays' = arrays
         /\ \E slice \in Slices : Appended(g, c, given, level, message, slice)
  <1> DEFINE old == cores[c].slice
             len == old.len + Len(given.fields)
             all == View(old) \o given.fields
             fits == len <= Len(arrays[old.array])
  <1>0. cores[c] \in Cores /\ Fills(old)
    BY DEF Heap
  <1>1. old \in Slices /\ old.array \in Nat /\ old.len \in Nat
    BY <1>0 DEF Cores, Slices
  <1>2. View(old) = arrays[old.array] /\ View(old) \in Seq(Fields)
    BY <1>0, <1>1, ViewIsArray DEF Heap
  <1>3. /\ given.fields \in Seq(Fields) /\ Len(given.fields) \in Nat
        /\ len \in Nat /\ all \in Seq(Fields)
    BY <1>1, <1>2, InputType
  <1>4. /\ old.len = Len(arrays[old.array])
        /\ old.array \in DOMAIN arrays
    BY <1>0 DEF Fills
  <1>5. /\ arrays' = IF fits
              THEN [arrays EXCEPT ![old.array] = all \o SubSeq(@, len + 1, Len(@))] ELSE arrays
        /\ entry' = [entry EXCEPT ![g] =
              [core |-> c, given |-> given, level |-> level, message |-> message,
               context |-> Extract(given.carriers, cores[c].context),
               slice |-> IF fits THEN SliceOf(old.array, len)
                                 ELSE [array |-> 0, len |-> len, own |-> all]]]
    BY DEF StartWrite
  <1>6. CASE fits
    <2>0. old.len + Len(given.fields) <= old.len
      BY <1>4, <1>6
    <2>1. Len(given.fields) = 0
      BY <1>1, <1>3, <2>0
    <2>2. given.fields = <<>>
      BY <1>3, <2>1
    <2>3. len = old.len /\ all = View(old)
      BY <1>1, <1>2, <2>1, <2>2
    <2>4. SubSeq(arrays[old.array], len + 1, Len(arrays[old.array])) = <<>>
      BY <1>1, <1>4, <2>3, SubSeqEmpty
    <2>5. arrays' = [arrays EXCEPT ![old.array] = View(old) \o <<>>]
      BY <1>5, <1>6, <2>3, <2>4
    <2>6. arrays' = arrays
      BY <1>2, <1>4, <2>5 DEF Heap
    <2>7. SliceOf(old.array, len) \in Slices
      BY <1>1, <1>3 DEF SliceOf, Slices
    <2>8. Fills(SliceOf(old.array, len))
      BY <1>4, <2>3 DEF SliceOf, Fills
    <2>9. View(SliceOf(old.array, len)) = arrays[old.array]
      BY <2>7, <2>8, ViewIsArray DEF Heap, SliceOf
    <2> QED
      BY <1>2, <1>5, <1>6, <2>3, <2>6, <2>7, <2>8, <2>9 DEF Appended
  <1>7. CASE ~fits
    <2> DEFINE new == [array |-> 0, len |-> len, own |-> all]
    <2>1. new \in Slices
      <3> HIDE DEF len, all
      <3> QED
        BY <1>3 DEF Slices
    <2>2. View(new) = all
      BY DEF View
    <2> QED
      BY <1>5, <1>7, <2>1, <2>2 DEF Appended
  <1> QED
    BY <1>6, <1>7

-----------------------------------------------------------------------------
LEMMA InitInv == Init => Inv
  <1> SUFFICES ASSUME Init PROVE Inv
    OBVIOUS
  <1>1. PICK ctx \in ContextOrNone : cores = <<[slice |-> SliceOf(1, 0), context |-> ctx]>>
    BY DEF Init, ContextOrNone
  <1>2. SliceOf(1, 0) \in Slices
    BY DEF SliceOf, Slices
  <1>3. [slice |-> SliceOf(1, 0), context |-> ctx] \in Cores
    BY <1>2 DEF Cores
  <1>4. arrays = << <<>> >> /\ <<>> \in Seq(Fields)
    BY DEF Init
  <1>5. arrays \in Seq(Seq(Fields)) /\ cores \in Seq(Cores)
    BY <1>1, <1>3, <1>4
  <1>6. \A c \in DOMAIN cores : Fills(cores[c].slice)
    BY <1>1, <1>4 DEF Fills, SliceOf
  <1>7. \A g \in Goroutines : entry[g] = NoEntry
    BY DEF Init
  <1> QED
    BY <1>5, <1>6, <1>7 DEF Init, Inv, Heap, Writes

\* With gives the new core an array of its own, filled, and touches no other.
LEMMA WithStep ==
  ASSUME Inv, NEW c \in DOMAIN cores, NEW given \in Inputs, With(c, given)
  PROVE  /\ Inv'
         /\ \E core \in Cores :
              /\ cores' = Append(cores, core)
              /\ View(core.slice)' = View(cores[c].slice) \o given.fields
              /\ core.context = Extract(given.carriers, cores[c].context)
         /\ \A d \in DOMAIN cores : View(cores[d].slice)' = View(cores[d].slice)
  <1> DEFINE old == cores[c].slice
             fields == View(old) \o given.fields
  <1>1. cores[c] \in Cores /\ Fills(old) /\ arrays \in Seq(Seq(Fields))
    BY DEF Inv, Heap
  <1>2. old \in Slices /\ old.array \in Nat /\ old.len \in Nat /\ cores[c].context \in ContextOrNone
    BY <1>1 DEF Cores, Slices
  <1>3. View(old) = arrays[old.array] /\ View(old) \in Seq(Fields)
    BY <1>1, <1>2, ViewIsArray
  <1>4. given.fields \in Seq(Fields) /\ given.carriers \in Seq(ContextOrNone)
    BY InputType
  <1>5. fields \in Seq(Fields) /\ Len(fields) = old.len + Len(given.fields)
    BY <1>1, <1>3, <1>4 DEF Fills
  <1>a. PICK slice : slice = SliceOf(Len(arrays'), old.len + Len(given.fields))
    OBVIOUS
  <1>b. PICK core : core = [slice |-> slice,
                            context |-> Extract(given.carriers, cores[c].context)]
    OBVIOUS
  <1>6. arrays' = Append(arrays, fields) /\ cores' = Append(cores, core)
        /\ UNCHANGED <<client, entry, events>>
    BY <1>a, <1>b DEF With
  <1> HIDE DEF fields
  <1>7. /\ Len(arrays') = Len(arrays) + 1 /\ Len(arrays) \in Nat
        /\ arrays' \in Seq(Seq(Fields))
        /\ Len(arrays') \in DOMAIN arrays' /\ arrays'[Len(arrays')] = fields
    BY <1>1, <1>5, <1>6
  <1>8. slice \in Slices /\ Fills(slice)'
    BY <1>a, <1>2, <1>4, <1>5, <1>7 DEF SliceOf, Slices, Fills
  <1>9. core \in Cores
    <2>1. Extract(given.carriers, cores[c].context) \in ContextOrNone
      BY <1>2, <1>4, ExtractIsNearest
    <2> QED
      BY <1>b, <1>8, <2>1 DEF Cores
  <1>10. View(slice)' = fields
    <2>1. slice.array # 0 /\ slice.array = Len(arrays') /\ slice.len = Len(fields)
      BY <1>a, <1>5, <1>7 DEF SliceOf
    <2>2. SubSeq(fields, 1, Len(fields)) = fields
      BY <1>5, SubSeqFull
    <2> QED
      BY <1>7, <2>1, <2>2 DEF View
  <1>11. core.slice = slice /\ core.context = Extract(given.carriers, cores[c].context)
    BY <1>b
  <1>12. \A d \in DOMAIN cores : /\ View(cores[d].slice)' = View(cores[d].slice)
                                 /\ Fills(cores[d].slice)'
    <2>1. ASSUME NEW d \in DOMAIN cores
          PROVE  View(cores[d].slice)' = View(cores[d].slice) /\ Fills(cores[d].slice)'
      <3>1. cores[d] \in Cores /\ Fills(cores[d].slice)
        BY DEF Inv, Heap
      <3>2. cores[d].slice \in Slices /\ cores[d].slice.array # 0
        BY <3>1 DEF Cores, Fills
      <3>3. cores'[d] = cores[d]
        BY <1>6 DEF Inv, Heap
      <3> QED
        BY <1>1, <1>5, <1>6, <3>1, <3>2, <3>3, ArraysGrow
    <2> QED
      BY <2>1
  <1>13. cores \in Seq(Cores)
    BY DEF Inv, Heap
  <1>14. /\ cores' \in Seq(Cores)
         /\ \A d \in DOMAIN cores : cores'[d] = cores[d] /\ d \in DOMAIN cores'
         /\ \A d \in DOMAIN cores' : d \in DOMAIN cores \/ cores'[d] = core
    BY <1>6, <1>9, <1>13
  <1>15. Heap'
    <2>1. \A d \in DOMAIN cores' : Fills(cores[d].slice)'
      BY <1>8, <1>11, <1>12, <1>14
    <2> QED
      BY <1>7, <1>14, <2>1 DEF Heap
  <1>16. Writes'
    <2>1. ASSUME NEW g \in Goroutines, entry[g] # NoEntry PROVE Writing(entry[g])'
      <3>1. Writing(entry[g])
        BY <2>1 DEF Inv, Writes
      <3>2. entry[g].slice \in Slices /\ (entry[g].slice.array = 0 \/ Fills(entry[g].slice))
        BY <3>1 DEF Writing
      <3>3. /\ View(entry[g].slice)' = View(entry[g].slice)
            /\ entry[g].slice.array = 0 \/ Fills(entry[g].slice)'
        <4>1. entry'[g] = entry[g]
          BY <1>6
        <4> QED
          BY <1>1, <1>5, <1>6, <3>2, <4>1, ArraysGrow
      <3> QED
        BY <1>6, <1>12, <1>14, <3>1, <3>3 DEF Writing
    <2> QED
      BY <1>6, <2>1 DEF Inv, Writes
  <1> QED
    BY <1>6, <1>9, <1>10, <1>11, <1>12, <1>15, <1>16 DEF Inv, fields

\* What a Write under way has seen stays so while cores and arrays do.
LEMMA WritingStays ==
  ASSUME NEW w, Writing(w), UNCHANGED <<arrays, cores>>
  PROVE  Writing(w)'
  BY DEF Writing, Fills, View

LEMMA HeapStays ==
  ASSUME Heap, UNCHANGED <<arrays, cores>>
  PROVE  Heap'
  BY DEF Heap, Fills

\* The append of a Write copies, and leaves every core and every other Write alone.
LEMMA StartWriteStep ==
  ASSUME Inv, NEW g \in Goroutines, NEW c \in DOMAIN cores, NEW given \in Inputs,
         NEW level \in Levels, NEW message \in Messages,
         StartWrite(g, c, given, level, message)
  PROVE  Inv' /\ UNCHANGED <<arrays, cores, events>>
  <1>0. Heap
    BY DEF Inv
  <1>1. PICK slice \in Slices : Appended(g, c, given, level, message, slice)
    BY <1>0, AppendCopies
  <1>2. UNCHANGED <<arrays, cores, events, client>> /\ level >= Minimum
    BY AppendCopies DEF Inv, StartWrite, Enabled
  <1>3. PICK w : w = [core |-> c, given |-> given, level |-> level, message |-> message,
                      context |-> Extract(given.carriers, cores[c].context),
                      slice |-> slice]
    OBVIOUS
  <1>4. Writing(w)
    BY <1>1, <1>2, <1>3 DEF Writing, Appended
  <1>5. entry' = [entry EXCEPT ![g] = w]
    BY <1>1, <1>3 DEF Appended
  <1>6. ASSUME NEW h \in Goroutines, entry'[h] # NoEntry PROVE Writing(entry'[h])
    BY <1>4, <1>5, <1>6 DEF Inv, Writes
  <1>7. \A h \in Goroutines : entry'[h] # NoEntry => Writing(entry[h])'
    <2> SUFFICES ASSUME NEW h \in Goroutines, entry'[h] # NoEntry PROVE Writing(entry[h])'
      OBVIOUS
    <2>1. PICK x : x = entry'[h]
      OBVIOUS
    <2>2. Writing(x)'
      BY <1>2, <1>6, <2>1, WritingStays
    <2> QED
      BY <2>1, <2>2 DEF Writing
  <1>8. Writes'
    BY <1>5, <1>7 DEF Inv, Writes
  <1> QED
    BY <1>2, <1>8, HeapStays DEF Inv

-----------------------------------------------------------------------------
LEMMA TitleType ==
  ASSUME NEW message \in Messages, NEW tags \in SUBSET Fields
  PROVE  MessageWithError(message, tags) \in Seq(Texts)
  <1> DEFINE new == {v \in Causes(tags) : \A i \in DOMAIN message : message[i] # v}
  <1>1. new \subseteq Texts
    BY ZapCoreAssumption DEF ZapCoreAssumption, Causes
  <1>2. message \in Seq(Texts)
    BY ZapCoreAssumption DEF ZapCoreAssumption
  <1>3. CASE new = {}
    BY <1>2, <1>3 DEF MessageWithError
  <1>4. CASE new # {}
    <2>1. (CHOOSE v \in new : TRUE) \in Texts
      BY <1>1, <1>4
    <2> QED
      BY <1>2, <1>4, <2>1 DEF MessageWithError
  <1> QED
    BY <1>3, <1>4

\* An event has the tags, the context and the level that Logging gives it.
LEMMA CaptureStep ==
  ASSUME Inv, NEW g \in Goroutines, Capture(g)
  PROVE  /\ Inv'
         /\ UNCHANGED <<arrays, cores>>
         /\ Writing(entry[g])
         /\ \E e \in Events :
              /\ events' = Append(events, e)
              /\ e.tags = Promise!Last(View(entry[g].slice))
              /\ e.context = Promise!Nearest(entry[g].given.carriers,
                                             cores[entry[g].core].context)
              /\ e.level = Promise!Severity(entry[g].level)
              /\ e.message = MessageWithError(entry[g].message,
                                              FieldsToTags(View(entry[g].slice)))
  <1> DEFINE w == entry[g]
             tags == FieldsToTags(View(w.slice))
  <1>1. Writing(w)
    BY DEF Inv, Writes, Capture
  <1>2. /\ w.given \in Inputs /\ w.level \in Levels /\ w.message \in Messages
        /\ w.core \in DOMAIN cores
    BY <1>1 DEF Writing
  <1>3. /\ View(cores[w.core].slice) \in Seq(Fields)
        /\ cores[w.core].context \in ContextOrNone
    <2>1. /\ cores[w.core] \in Cores /\ Fills(cores[w.core].slice)
          /\ arrays \in Seq(Seq(Fields))
      BY <1>2 DEF Inv, Heap
    <2> QED
      BY <2>1, ViewIsArray DEF Cores
  <1>4. /\ w.given.fields \in Seq(Fields) /\ w.given.carriers \in Seq(ContextOrNone)
    BY <1>2, InputType
  <1>5. View(w.slice) \in Seq(Fields)
    <2>1. View(w.slice) = View(cores[w.core].slice) \o w.given.fields
      BY <1>1 DEF Writing
    <2> QED
      BY <1>3, <1>4, <2>1
  <1>6. tags = Promise!Last(View(w.slice)) /\ tags \in SUBSET Fields
    BY <1>5, TagsAreLast
  <1>7. /\ w.context = Promise!Nearest(w.given.carriers, cores[w.core].context)
        /\ w.context \in ContextOrNone
    BY <1>1, <1>3, <1>4, ExtractIsNearest DEF Writing
  <1>8. /\ ZapLevelToBikeeper[w.level] = Promise!Severity(w.level)
        /\ ZapLevelToBikeeper[w.level] \in {"debug", "info", "warning", "error", "fatal"}
    BY <1>2, LevelIsSeverity
  <1>9. MessageWithError(w.message, tags) \in Seq(Texts)
    BY <1>2, <1>6, TitleType
  <1>10. PICK e : e = [message |-> MessageWithError(w.message, tags), tags |-> tags,
                       context |-> w.context, level |-> ZapLevelToBikeeper[w.level]]
    OBVIOUS
  <1>11. /\ events' = Append(events, e) /\ entry' = [entry EXCEPT ![g] = NoEntry]
         /\ UNCHANGED <<client, arrays, cores>>
    BY <1>10 DEF Capture
  <1> HIDE DEF tags
  <1>12. e \in Events
    BY <1>6, <1>7, <1>8, <1>9, <1>10 DEF Events, ContextOrNone
  <1>13. \A h \in Goroutines : entry'[h] # NoEntry => Writing(entry[h])'
    <2> SUFFICES ASSUME NEW h \in Goroutines, entry'[h] # NoEntry PROVE Writing(entry[h])'
      OBVIOUS
    <2>1. entry'[h] = entry[h] /\ Writing(entry[h])
      BY <1>11 DEF Inv, Writes
    <2>2. PICK x : x = entry[h]
      OBVIOUS
    <2>3. Writing(x)'
      BY <1>11, <2>1, <2>2, WritingStays
    <2> QED
      BY <2>1, <2>2, <2>3 DEF Writing
  <1>14. Writes'
    BY <1>11, <1>13 DEF Inv, Writes
  <1>15. events' \in Seq(Events)
    BY <1>11, <1>12 DEF Inv
  <1>16. Inv'
    BY <1>11, <1>14, <1>15, HeapStays DEF Inv
  <1> QED
    BY <1>1, <1>6, <1>7, <1>8, <1>10, <1>11, <1>12, <1>16 DEF tags

-----------------------------------------------------------------------------
LEMMA StepInv == Inv /\ [Next]_vars => Inv'
  <1> SUFFICES ASSUME Inv, [Next]_vars PROVE Inv'
    OBVIOUS
  <1>1. CASE UNCHANGED vars
    <2>1. \A g \in Goroutines : entry[g] # NoEntry => Writing(entry[g])'
      BY <1>1 DEF Inv, Writes, Writing, Fills, View, vars
    <2> QED
      BY <1>1, <2>1, HeapStays DEF Inv, Writes, vars
  <1>2. ASSUME NEW c \in DOMAIN cores, NEW given \in Inputs, With(c, given) PROVE Inv'
    BY <1>2, WithStep
  <1>3. ASSUME NEW g \in Goroutines, NEW c \in DOMAIN cores, NEW given \in Inputs,
               NEW level \in Levels, NEW message \in Messages,
               StartWrite(g, c, given, level, message)
        PROVE Inv'
    BY <1>3, StartWriteStep
  <1>4. ASSUME NEW g \in Goroutines, Capture(g) PROVE Inv'
    BY <1>4, CaptureStep
  <1> QED
    BY <1>1, <1>2, <1>3, <1>4 DEF Next

\* No append of a core ever writes to an array that is in use, whatever the
\* interleaving of the goroutines (bikeeperzap.go:150-151, 185).
THEOREM Invariance == Spec => []Inv
  BY InitInv, StepInv, PTL DEF Spec

\* Every core, every Write under way and every event is well formed.
THEOREM TypeCorrect == Spec => []TypeOK
  <1>1. Inv => TypeOK
    <2> SUFFICES ASSUME Inv PROVE TypeOK
      OBVIOUS
    <2>1. arrays \in Seq(Seq(Fields \cup {Unused}))
      <3>1. Fields \subseteq Fields \cup {Unused}
        OBVIOUS
      <3>2. Seq(Fields) \subseteq Seq(Fields \cup {Unused})
        BY <3>1
      <3> QED
        BY <3>2 DEF Inv, Heap
    <2>2. cores \in Seq([slice : Slices, context : Contexts \cup {NoContext}])
      BY DEF Inv, Heap, Cores, ContextOrNone
    <2>3. \A c \in DOMAIN cores :
            /\ cores[c].slice.array \in DOMAIN arrays
            /\ cores[c].slice.len <= Len(arrays[cores[c].slice.array])
      <3> SUFFICES ASSUME NEW c \in DOMAIN cores
                   PROVE /\ cores[c].slice.array \in DOMAIN arrays
                         /\ cores[c].slice.len <= Len(arrays[cores[c].slice.array])
        OBVIOUS
      <3>1. cores[c] \in Cores /\ Fills(cores[c].slice)
        BY DEF Inv, Heap
      <3>2. cores[c].slice.len \in Nat
        BY <3>1 DEF Cores, Slices
      <3> QED
        BY <3>1, <3>2 DEF Fills
    <2>4. \A g \in Goroutines :
            entry[g] # NoEntry => entry[g].core \in DOMAIN cores /\ entry[g].slice \in Slices
      BY DEF Inv, Writes, Writing
    <2> QED
      BY <2>1, <2>2, <2>3, <2>4 DEF Inv, TypeOK
  <1> QED
    BY <1>1, Invariance, PTL

-----------------------------------------------------------------------------
(***************************************************************************)
(* The refinement: With derives a logger, Capture logs, StartWrite is a    *)
(* step that Logging does not see.                                         *)
(***************************************************************************)
Loggers == [c \in DOMAIN cores |-> LoggerOf(cores[c])]
Captured == [i \in DOMAIN events |-> Bare(events[i])]

LEMMA ExtendsFunction ==
  ASSUME NEW S, NEW s \in Seq(S), NEW last,
         NEW n, n = Len(s) + 1,
         NEW f, f = [i \in 1 .. n |-> IF i = n THEN last ELSE s[i]]
  PROVE  f = Append(s, last)
  <1> DEFINE T == S \cup {last}
  <1>1. Len(s) \in Nat /\ n \in Nat /\ \A i \in 1 .. n : i = n \/ s[i] \in S
    OBVIOUS
  <1>2. f \in Seq(T) /\ Len(f) = n
    BY <1>1
  <1>3. s \in Seq(T) /\ last \in T
    OBVIOUS
  <1>4. Append(s, last) \in Seq(T) /\ Len(Append(s, last)) = n
    BY <1>3
  <1>5. \A i \in 1 .. n : f[i] = Append(s, last)[i]
    BY <1>1, <1>3
  <1> QED
    BY <1>2, <1>4, <1>5, SeqEqual

LEMMA StateOfLoggers ==
  ASSUME Heap
  PROVE  /\ Loggers \in Seq([fields : Seq(Fields), context : ContextOrNone])
         /\ Len(Loggers) = Len(cores) /\ DOMAIN Loggers = DOMAIN cores
  <1>1. cores \in Seq(Cores) /\ DOMAIN cores = 1 .. Len(cores) /\ Len(cores) \in Nat
    BY DEF Heap
  <1>2. ASSUME NEW c \in DOMAIN cores
        PROVE  LoggerOf(cores[c]) \in [fields : Seq(Fields), context : ContextOrNone]
    <2>1. cores[c] \in Cores /\ Fills(cores[c].slice) /\ arrays \in Seq(Seq(Fields))
      BY <1>2 DEF Heap
    <2>2. cores[c].slice \in Slices /\ cores[c].context \in ContextOrNone
      BY <2>1 DEF Cores
    <2>3. View(cores[c].slice) \in Seq(Fields)
      BY <2>1, <2>2, ViewIsArray
    <2> QED
      BY <2>2, <2>3 DEF LoggerOf
  <1>3. Loggers = [c \in 1 .. Len(cores) |-> LoggerOf(cores[c])]
    BY <1>1 DEF Loggers
  <1> QED
    BY <1>1, <1>2, <1>3

LEMMA PromiseInit == Init => Promise!Init
  <1> SUFFICES ASSUME Init PROVE Promise!Init
    OBVIOUS
  <1>1. PICK ctx \in Contexts \cup {NoContext} :
          cores = <<[slice |-> SliceOf(1, 0), context |-> ctx]>>
    BY DEF Init
  <1>2. arrays = << <<>> >> /\ events = <<>>
    BY DEF Init
  <1>3. View(SliceOf(1, 0)) = <<>>
    BY <1>2, SubSeqEmpty DEF View, SliceOf
  <1>4. LoggerOf(cores[1]) = [fields |-> <<>>, context |-> ctx]
    BY <1>1, <1>3 DEF LoggerOf
  <1>5. Loggers = <<[fields |-> <<>>, context |-> ctx]>>
    BY <1>1, <1>4 DEF Loggers
  <1>6. Captured = <<>>
    BY <1>2 DEF Captured
  <1> QED
    BY <1>5, <1>6 DEF Promise!Init, Loggers, Captured

\* With derives the logger that Logging derives.
LEMMA WithRefines ==
  ASSUME Inv, NEW c \in DOMAIN cores, NEW given \in Inputs, With(c, given)
  PROVE  Promise!With(c, given)
  <1>1. PICK core \in Cores :
          /\ cores' = Append(cores, core)
          /\ View(core.slice)' = View(cores[c].slice) \o given.fields
          /\ core.context = Extract(given.carriers, cores[c].context)
    BY WithStep
  <1>2. \A d \in DOMAIN cores : View(cores[d].slice)' = View(cores[d].slice)
    BY WithStep
  <1>3. /\ cores \in Seq(Cores) /\ Len(cores) \in Nat
        /\ DOMAIN cores = 1 .. Len(cores)
        /\ cores[c].context \in ContextOrNone
    <2>1. cores \in Seq(Cores)
      BY DEF Inv, Heap
    <2>2. cores[c] \in Cores
      BY <2>1
    <2> QED
      BY <2>1, <2>2 DEF Cores
  <1>4. given.carriers \in Seq(ContextOrNone)
    BY InputType
  <1>5. PICK new : new = [fields |-> View(cores[c].slice) \o given.fields,
                          context |-> Promise!Nearest(given.carriers, cores[c].context)]
    OBVIOUS
  <1>6. PICK k : k = Len(cores) + 1
    OBVIOUS
  <1>7. /\ DOMAIN cores' = 1 .. k /\ cores'[k] = core
        /\ \A d \in 1 .. k : d \in DOMAIN cores \/ d = k
        /\ \A d \in DOMAIN cores : cores'[d] = cores[d] /\ d # k
    BY <1>1, <1>3, <1>6
  <1>8. LoggerOf(cores[k])' = new
    <2>1. core.context = Promise!Nearest(given.carriers, cores[c].context)
      BY <1>1, <1>3, <1>4, ExtractIsNearest
    <2> QED
      BY <1>1, <1>5, <1>7, <2>1 DEF LoggerOf, View
  <1>9. \A d \in DOMAIN cores : LoggerOf(cores[d])' = Loggers[d]
    BY <1>2, <1>7 DEF LoggerOf, Loggers
  <1>10. Loggers' = Append(Loggers, new)
    <2>1. /\ Loggers \in Seq([fields : Seq(Fields), context : ContextOrNone])
          /\ k = Len(Loggers) + 1
      BY <1>6, StateOfLoggers DEF Inv
    <2>2. PICK f, s, n : f = Loggers' /\ s = Loggers /\ n = k
      OBVIOUS
    <2>3. f = [d \in 1 .. k |-> LoggerOf(cores[d])']
      BY <1>7, <2>2 DEF Loggers
    <2>4. f = [i \in 1 .. n |-> IF i = n THEN new ELSE s[i]]
      BY <1>7, <1>8, <1>9, <2>2, <2>3
    <2>5. PICK T : T = [fields : Seq(Fields), context : ContextOrNone]
      OBVIOUS
    <2>6. s \in Seq(T) /\ n = Len(s) + 1
      BY <2>1, <2>2, <2>5
    <2>7. f = Append(s, new)
      BY ONLY <2>4, <2>6, ExtendsFunction
    <2> QED
      BY <2>2, <2>7
  <1>11. Loggers[c] = LoggerOf(cores[c])
    BY DEF Loggers
  <1>12. new = [fields |-> Loggers[c].fields \o given.fields,
                context |-> Promise!Nearest(given.carriers, Loggers[c].context)]
    BY <1>5, <1>11 DEF LoggerOf
  <1>13. Captured' = Captured
    BY DEF With, Captured
  <1> QED
    BY <1>10, <1>12, <1>13 DEF Promise!With, Loggers, Captured

\* Capture logs with the logger, the arguments and the level of its Write.
LEMMA CaptureRefines ==
  ASSUME Inv, NEW g \in Goroutines, Capture(g)
  PROVE  /\ entry[g].core \in DOMAIN cores /\ entry[g].given \in Inputs
         /\ entry[g].level \in Levels
         /\ Promise!Log(entry[g].core, entry[g].given, entry[g].level)
  <1> DEFINE w == entry[g]
             c == w.core
  <1>1. UNCHANGED <<arrays, cores>> /\ Writing(w)
    BY CaptureStep
  <1>2. PICK e \in Events :
          /\ events' = Append(events, e)
          /\ e.tags = Promise!Last(View(w.slice))
          /\ e.context = Promise!Nearest(w.given.carriers, cores[c].context)
          /\ e.level = Promise!Severity(w.level)
    BY CaptureStep
  <1>3. /\ c \in DOMAIN cores /\ w.given \in Inputs /\ w.level \in Levels
        /\ w.level >= Minimum
        /\ View(w.slice) = View(cores[c].slice) \o w.given.fields
    BY <1>1 DEF Writing
  <1>4. Loggers[c] = LoggerOf(cores[c])
    BY <1>3 DEF Loggers
  <1>5. Bare(e) = [tags |-> Promise!Last(Loggers[c].fields \o w.given.fields),
                   context |-> Promise!Nearest(w.given.carriers, Loggers[c].context),
                   level |-> Promise!Severity(w.level)]
    BY <1>2, <1>3, <1>4 DEF LoggerOf, Bare
  <1>6. PICK bare : bare = Bare(e)
    OBVIOUS
  <1>7. /\ events \in Seq(Events) /\ Len(events) \in Nat /\ DOMAIN events = 1 .. Len(events)
        /\ DOMAIN events' = 1 .. Len(events) + 1 /\ events'[Len(events) + 1] = e
        /\ \A i \in DOMAIN events : events'[i] = events[i]
    BY <1>2 DEF Inv
  <1>8. PICK T : T = {Bare(x) : x \in Events}
    OBVIOUS
  <1>9. Captured \in Seq(T) /\ Len(Captured) = Len(events)
    <2>1. Captured = [i \in 1 .. Len(events) |-> Bare(events[i])]
      BY <1>7 DEF Captured
    <2>2. \A i \in 1 .. Len(events) : Bare(events[i]) \in T
      BY <1>7, <1>8
    <2> QED
      BY <1>7, <2>1, <2>2
  <1>10. Captured' = [i \in 1 .. Len(events) + 1 |->
                        IF i = Len(events) + 1 THEN bare ELSE Captured[i]]
    <2>1. Captured' = [i \in 1 .. Len(events) + 1 |-> Bare(events'[i])]
      BY <1>7 DEF Captured
    <2>2. \A i \in 1 .. Len(events) + 1 : i = Len(events) + 1 \/ i \in DOMAIN events
      BY <1>7
    <2>3. \A i \in DOMAIN events : Bare(events'[i]) = Captured[i]
      BY <1>7 DEF Captured
    <2>4. Bare(events'[Len(events) + 1]) = bare /\ Len(events) + 1 \notin DOMAIN events
      BY <1>6, <1>7
    <2> QED
      BY <2>1, <2>2, <2>3, <2>4
  <1>11. Captured' = Append(Captured, bare)
    <2>1. PICK f, s, n : f = Captured' /\ s = Captured /\ n = Len(events) + 1
      OBVIOUS
    <2>2. s \in Seq(T) /\ n = Len(s) + 1
      BY <1>9, <2>1
    <2>3. f = [i \in 1 .. n |-> IF i = n THEN bare ELSE s[i]]
      BY <1>10, <2>1
    <2>4. f = Append(s, bare)
      BY ONLY <2>2, <2>3, ExtendsFunction
    <2> QED
      BY <2>1, <2>4
  <1>12. Loggers' = Loggers
    BY <1>1 DEF Loggers, LoggerOf, View
  <1> QED
    BY <1>3, <1>5, <1>6, <1>11, <1>12 DEF Promise!Log, Loggers, Captured

LEMMA PromiseStep == Inv /\ [Next]_vars => [Promise!Next]_(Promise!vars)
  <1> SUFFICES ASSUME Inv, [Next]_vars PROVE [Promise!Next]_(Promise!vars)
    OBVIOUS
  <1> DEFINE Stutters == Loggers' = Loggers /\ Captured' = Captured
  <1>1. Stutters => [Promise!Next]_(Promise!vars)
    BY DEF Promise!vars, Loggers, Captured
  <1>2. DOMAIN Loggers = DOMAIN cores
    BY DEF Loggers
  <1>3. CASE UNCHANGED vars
    BY <1>1, <1>3 DEF vars, Loggers, Captured, LoggerOf, View
  <1>4. ASSUME NEW c \in DOMAIN cores, NEW given \in Inputs, With(c, given)
        PROVE  [Promise!Next]_(Promise!vars)
    BY <1>2, <1>4, WithRefines DEF Promise!Next, Loggers
  <1>5. ASSUME NEW g \in Goroutines, NEW c \in DOMAIN cores, NEW given \in Inputs,
               NEW level \in Levels, NEW message \in Messages,
               StartWrite(g, c, given, level, message)
        PROVE  [Promise!Next]_(Promise!vars)
    <2>1. UNCHANGED <<arrays, cores, events>>
      BY <1>5, StartWriteStep
    <2> QED
      BY <1>1, <2>1 DEF Loggers, Captured, LoggerOf, View
  <1>6. ASSUME NEW g \in Goroutines, Capture(g)
        PROVE  [Promise!Next]_(Promise!vars)
    BY <1>2, <1>6, CaptureRefines DEF Promise!Next, Loggers
  <1> QED
    BY <1>3, <1>4, <1>5, <1>6 DEF Next

\* The core does what Logging promises: a logger never changes, and an event has the
\* fields and the context of its own logger and call, although cores share arrays and
\* goroutines share cores (bikeeperzap.go:150-151, 185-187).
THEOREM Implementation == Spec => KeepsPromise
  BY PromiseInit, PromiseStep, Invariance, PTL DEF Spec, KeepsPromise, Promise!Spec

-----------------------------------------------------------------------------
\* What TitleNamesTheError says of one event.
Logged(tags) == {t \in tags : t.key \in {"error", "err"} /\ t.value # "nil"}
Chief(tags) ==
  {t \in Logged(tags) : t.key = "error" \/ ~\E u \in Logged(tags) : u.key = "error"}
Titled(e) ==
  \A t \in Chief(e.tags) : Cardinality({j \in DOMAIN e.message : e.message[j] = t.value}) = 1

\* The tags of an entry have one value per key, so that there is one error to name.
LEMMA OneCause ==
  ASSUME NEW fields \in Seq(Fields), NEW t \in Chief(FieldsToTags(fields))
  PROVE  Causes(FieldsToTags(fields)) = {t.value}
  <1> DEFINE tags == FieldsToTags(fields)
             under(key) == {x.value : x \in {x \in tags : x.key = key /\ x.value # "nil"}}
  <1>1. Len(fields) \in Nat /\ DOMAIN fields = 1 .. Len(fields)
    OBVIOUS
  <1>2. \A x, y \in tags : x.key = y.key => x = y
    <2> SUFFICES ASSUME NEW x \in tags, NEW y \in tags, x.key = y.key PROVE x = y
      OBVIOUS
    <2>1. PICK i \in DOMAIN fields :
            x = fields[i] /\ \A k \in i + 1 .. Len(fields) : fields[k].key # fields[i].key
      BY DEF FieldsToTags
    <2>2. PICK j \in DOMAIN fields :
            y = fields[j] /\ \A k \in j + 1 .. Len(fields) : fields[k].key # fields[j].key
      BY DEF FieldsToTags
    <2>3. i = j
      BY <1>1, <2>1, <2>2
    <2> QED
      BY <2>1, <2>2, <2>3
  <1> HIDE DEF tags
  <1>3. /\ t \in tags /\ t.key \in {"error", "err"} /\ t.value # "nil"
        /\ t.key = "error" \/ ~\E u \in Logged(tags) : u.key = "error"
    BY DEF Chief, Logged, tags
  <1>4. under(t.key) = {t.value}
    <2>1. \A x \in tags : x.key = t.key => x = t
      BY <1>2, <1>3
    <2> QED
      BY <1>3, <2>1
  <1>5. t.key # "error" => under("error") = {}
    BY <1>3 DEF Logged
  <1>6. Causes(tags) = IF under("error") # {} THEN under("error") ELSE under("err")
    BY DEF Causes
  <1>7. CASE t.key = "error"
    <2> HIDE DEF under
    <2> QED
      BY <1>4, <1>6, <1>7 DEF tags
  <1>8. CASE t.key = "err"
    <2> HIDE DEF under
    <2> QED
      BY <1>4, <1>5, <1>6, <1>8 DEF tags
  <1> QED
    BY <1>3, <1>7, <1>8

\* A message that has the error is kept, and another gets it at the end.
LEMMA NamedOnce ==
  ASSUME NEW message \in Messages, NEW tags, NEW v, Causes(tags) = {v}
  PROVE  LET title == MessageWithError(message, tags)
         IN Cardinality({j \in DOMAIN title : title[j] = v}) = 1
  <1> DEFINE title == MessageWithError(message, tags)
             new == {x \in Causes(tags) : \A i \in DOMAIN message : message[i] # x}
             places == {j \in DOMAIN title : title[j] = v}
  <1>1. /\ message \in Seq(Texts)
        /\ \A i, j \in DOMAIN message : message[i] = message[j] => i = j
    BY ZapCoreAssumption DEF ZapCoreAssumption
  <1>2. \E j : places = {j}
    <2>1. CASE \E i \in DOMAIN message : message[i] = v
      <3>1. PICK i \in DOMAIN message : message[i] = v
        BY <2>1
      <3>2. new = {}
        BY <3>1
      <3>3. title = message
        BY <3>2 DEF MessageWithError
      <3>4. \A j \in DOMAIN message : message[j] = v <=> j = i
        BY <1>1, <3>1
      <3>5. places = {i}
        <4> HIDE DEF title
        <4> QED
          BY <3>3, <3>4
      <3> QED
        BY <3>5
    <2>2. CASE ~\E i \in DOMAIN message : message[i] = v
      <3>1. new = {v}
        BY <2>2
      <3>2. title = Append(message, v)
        BY <3>1 DEF MessageWithError
      <3>3. /\ DOMAIN title = 1 .. Len(message) + 1 /\ Len(message) \in Nat
            /\ title[Len(message) + 1] = v
            /\ \A j \in DOMAIN message : title[j] = message[j]
            /\ DOMAIN message = 1 .. Len(message)
        <4> HIDE DEF title
        <4> QED
          BY <1>1, <3>2
      <3>4. places = {Len(message) + 1}
        <4> HIDE DEF title
        <4>1. \A j \in DOMAIN title : j \in DOMAIN message \/ j = Len(message) + 1
          BY <3>3
        <4> QED
          BY <2>2, <3>3, <4>1
      <3> QED
        BY <3>4
    <2> QED
      BY <2>1, <2>2
  <1> HIDE DEF places
  <1> QED
    BY <1>2, FS_Singleton DEF places

\* A logged error is in the title of its event, and once (bikeeperzap.go:246-252).
THEOREM ErrorIsNamed == Spec => []TitleNamesTheError
  <1> DEFINE AllTitled == \A i \in DOMAIN events : Titled(events[i])
  <1>1. Init => AllTitled
    BY DEF Init
  <1>2. Inv /\ AllTitled /\ [Next]_vars => AllTitled'
    <2> SUFFICES ASSUME Inv, AllTitled, [Next]_vars PROVE AllTitled'
      OBVIOUS
    <2>1. CASE UNCHANGED events
      BY <2>1
    <2>2. ASSUME NEW g \in Goroutines, Capture(g) PROVE AllTitled'
      <3> DEFINE w == entry[g]
                 tags == FieldsToTags(View(w.slice))
      <3>1. PICK e \in Events : /\ events' = Append(events, e)
                                /\ e.message = MessageWithError(w.message, tags)
                                /\ e.tags = Promise!Last(View(w.slice))
        BY <2>2, CaptureStep
      <3>2. w.message \in Messages /\ View(w.slice) \in Seq(Fields)
        <4>1. Writing(w) /\ arrays \in Seq(Seq(Fields)) /\ cores \in Seq(Cores)
              /\ \A c \in DOMAIN cores : Fills(cores[c].slice)
          BY <2>2, CaptureStep DEF Inv, Heap
        <4>2. /\ cores[w.core] \in Cores /\ Fills(cores[w.core].slice)
              /\ w.given.fields \in Seq(Fields)
          BY <4>1, InputType DEF Writing
        <4>3. View(cores[w.core].slice) \in Seq(Fields)
          BY <4>1, <4>2, ViewIsArray DEF Cores
        <4> QED
          BY <4>1, <4>2, <4>3 DEF Writing
      <3>3. e.tags = tags
        BY <3>1, <3>2, TagsAreLast
      <3>4. Titled(e)
        <4> SUFFICES ASSUME NEW t \in Chief(tags)
                     PROVE Cardinality({j \in DOMAIN e.message : e.message[j] = t.value}) = 1
          BY <3>3 DEF Titled
        <4>1. Causes(tags) = {t.value}
          BY <3>2, OneCause
        <4>2. PICK m, given, v : m = w.message /\ given = tags /\ v = t.value
          BY <3>2
        <4>3. Causes(given) = {v} /\ m \in Messages
          BY <3>2, <4>1, <4>2
        <4>4. PICK title : title = MessageWithError(m, given)
          OBVIOUS
        <4>5. Cardinality({j \in DOMAIN title : title[j] = v}) = 1
          BY ONLY <4>3, <4>4, NamedOnce
        <4>6. e.message = title
          BY <3>1, <4>2, <4>4
        <4> QED
          BY <4>2, <4>5, <4>6
      <3>5. events \in Seq(Events)
        BY DEF Inv
      <3>6. \A i \in DOMAIN events' :
              (i \in DOMAIN events /\ events'[i] = events[i]) \/ events'[i] = e
        BY <3>1, <3>5
      <3> QED
        BY <3>4, <3>6
    <2> QED
      BY <2>1, <2>2 DEF Next, With, StartWrite, vars
  <1>3. AllTitled => TitleNamesTheError
    BY DEF TitleNamesTheError, Titled, Chief, Logged
  <1> HIDE DEF AllTitled
  <1> QED
    BY <1>1, <1>2, <1>3, Invariance, PTL DEF Spec
=============================================================================
