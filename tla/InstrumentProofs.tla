-------------------------- MODULE InstrumentProofs --------------------------
(***************************************************************************)
(* Proofs about Instrument, for any number of calls and spans and any      *)
(* chain with at most one tracer of ours.                                  *)
(***************************************************************************)
EXTENDS InstrumentProperties, TraceProofs

\* It is the turn of our member, and the call has its span.
OurTurn(c) ==
  at[c] \in DOMAIN Members(c) /\ OurMember(c, at[c]) /\ spanOf[c] # NoSpan

\* Where a call stands in its chain, and whether it has a span there.
Placed(c) ==
  /\ line[c] = "idle" => spanOf[c] = NoSpan
  /\ line[c] = "starting" =>
       /\ at[c] \in 1 .. Len(Members(c)) + 1
       /\ spanOf[c] # NoSpan <=>
            Tracing(c) /\ \E i \in DOMAIN Members(c) : i < at[c] /\ OurMember(c, i)
  /\ line[c] = "building" => OurTurn(c) /\ context[c].span # NoSpan
  /\ line[c] = "entering" => kind[c] = "pipeline" /\ Tracing(c)
  /\ line[c] = "returned" => kind[c] = "command" /\ Tracing(c) /\ at[c] = Len(Members(c))
  /\ line[c] = "ending" => at[c] \in 0 .. Len(Members(c))
  /\ line[c] \in {"status", "data", "finish"} => OurTurn(c)
  /\ line[c] \notin {"idle", "starting", "building"} =>
       (spanOf[c] # NoSpan <=> Traced(c))

\* Member i of the chain of c has had its turn before the work.
Passed(c, i) ==
  line[c] # "idle" /\ (line[c] \in {"starting", "building"} => i < at[c])

\* What the members of the chain of pgx will find in the context.
Remembered(c) ==
  ~OfRedis(c) =>
    /\ ~Tracing(c) => \A i \in DOMAIN Chain : Chain[i] = "tracer" => left[c][i] = NoCall
    /\ \A i \in DOMAIN Chain :
         Passed(c, i) /\ Hears(c, i) /\ (OurMember(c, i) => Tracing(c)) => left[c][i] = c

CallInv == CallsTypeOK /\ \A c \in Calls : Placed(c) /\ Remembered(c)

\* The steps of one call.
ActionOf(c) ==
  \/ \E k \in KindsOf[c] : Begin(c, k) \/ \E outer \in Calls : BeginWithin(c, k, outer)
  \/ CallStep(c)
  \/ \E result \in Outcomes \ {"none"} : Return(c, result)
  \/ Abandon(c)

\* What a step leaves of a call that it does not concern.
Same(d) ==
  /\ kind'[d] = kind[d] /\ line'[d] = line[d] /\ context'[d] = context[d]
  /\ at'[d] = at[d] /\ left'[d] = left[d] /\ spanOf'[d] = spanOf[d]
  /\ outcome'[d] = outcome[d]

LEMMA ChainFacts ==
  /\ Len(Chain) \in Nat \ {0} /\ DOMAIN Chain = 1 .. Len(Chain)
  /\ \A i \in DOMAIN Chain : Chain[i] \in {"tracer", "full", "queries"}
  BY InstrumentAssumption DEF InstrumentAssumption

LEMMA MembersFacts ==
  ASSUME NEW c \in Calls
  PROVE  /\ Len(Members(c)) \in 1 .. Len(Chain)
         /\ DOMAIN Members(c) = 1 .. Len(Members(c))
         /\ OfRedis(c) => Members(c) = <<"hook">> /\ Len(Members(c)) = 1
                          /\ Members(c)[1] = "hook"
         /\ ~OfRedis(c) => Members(c) = Chain
         /\ \A i, j \in DOMAIN Members(c) : OurMember(c, i) /\ OurMember(c, j) => i = j
  <1>1. CASE OfRedis(c)
    BY <1>1, ChainFacts DEF Members
  <1>2. CASE ~OfRedis(c)
    <2>1. Members(c) = Chain
      BY <1>2 DEF Members
    <2>2. \A i \in DOMAIN Chain : OurMember(c, i) <=> Chain[i] = "tracer"
      BY <2>1, ChainFacts DEF OurMember
    <2> QED
      BY <1>2, <2>1, <2>2, ChainFacts, InstrumentAssumption DEF InstrumentAssumption
  <1> QED
    BY <1>1, <1>2

LEMMA CallCases ==
  ASSUME [InstrumentNext]_allVars
  PROVE  \/ UNCHANGED callVars
         \/ \E c \in Calls : ActionOf(c)
  BY DEF InstrumentNext, ActionOf, allVars, StartSpan, PublishSpan, UseSpan, RunJob,
         SendReport

LEMMA OthersStay ==
  ASSUME CallsTypeOK, NEW c \in Calls, ActionOf(c), NEW d \in Calls, d # c
  PROVE  Same(d)
  <1> USE DEF Same, CallsTypeOK, Goto
  <1>1. ASSUME NEW k, NEW span, NEW hub, NEW inherited, Enter(c, k, span, hub, inherited)
        PROVE  Same(d)
    BY <1>1 DEF Enter
  <1>2. ASSUME NEW k, Begin(c, k) \/ \E outer \in Calls : BeginWithin(c, k, outer)
        PROVE  Same(d)
    BY <1>1, <1>2 DEF Begin, BeginWithin
  <1>3. ASSUME CallStep(c) PROVE Same(d)
    <2>1. ASSUME \/ StartOther(c) \/ \E s \in Spans : StartRootSpan(c, s) \/ BuildSpan(c, s)
                 \/ RegisterSpan(c) \/ StartsAreOver(c)
          PROVE  Same(d)
      BY <2>1 DEF StartOther, StartRootSpan, BuildSpan, RegisterSpan, StartsAreOver, Leave
    <2>2. ASSUME \/ DescribePipeline(c) \/ DescribeCommand(c) \/ EndOther(c)
                 \/ StartFinish(c) \/ SetFailure(c) \/ SetError(c) \/ EndSpan(c)
                 \/ EndsAreOver(c)
          PROVE  Same(d)
      BY <2>2 DEF DescribePipeline, DescribeCommand, EndOther, StartFinish, SetFailure,
                  SetError, EndSpan, EndsAreOver
    <2> QED
      BY <1>3, <2>1, <2>2 DEF CallStep
  <1>4. ASSUME NEW result, Return(c, result) PROVE Same(d)
    BY <1>4 DEF Return
  <1>5. ASSUME Abandon(c) PROVE Same(d)
    BY <1>5 DEF Abandon
  <1> QED
    BY <1>2, <1>3, <1>4, <1>5 DEF ActionOf

LEMMA SameStays ==
  ASSUME NEW d \in Calls, Same(d), Placed(d), Remembered(d)
  PROVE  Placed(d)' /\ Remembered(d)'
  <1>1. /\ Members(d)' = Members(d) /\ (OfRedis(d)' <=> OfRedis(d))
        /\ (Tracing(d)' <=> Tracing(d))
    BY DEF Same, Members, OfRedis, Tracing
  <1>2. \A i : /\ OurMember(d, i)' <=> OurMember(d, i)
               /\ Hears(d, i)' <=> Hears(d, i)
    BY <1>1 DEF Same, OurMember, Hears
  <1>3. Traced(d)' <=> Traced(d)
    BY <1>1, <1>2 DEF Traced
  <1>4. Placed(d)'
    BY <1>1, <1>2, <1>3 DEF Same, Placed, OurTurn
  <1>5. Remembered(d)'
    BY <1>1, <1>2 DEF Same, Remembered, Passed
  <1> QED
    BY <1>4, <1>5

-----------------------------------------------------------------------------
(***************************************************************************)
(* CallInv is inductive by itself: it does not depend on the spans.        *)
(***************************************************************************)

\* What is left of an action when the call's kind and context stay.
LEMMA SameMembers ==
  ASSUME CallsTypeOK, NEW c \in Calls, kind'[c] = kind[c], context'[c] = context[c]
  PROVE  /\ Members(c)' = Members(c)
         /\ OfRedis(c)' <=> OfRedis(c)
         /\ Tracing(c)' <=> Tracing(c)
         /\ Traced(c)' <=> Traced(c)
         /\ \A i : /\ OurMember(c, i)' <=> OurMember(c, i)
                   /\ Hears(c, i)' <=> Hears(c, i)
  <1>1. /\ Members(c)' = Members(c) /\ (OfRedis(c)' <=> OfRedis(c))
        /\ (Tracing(c)' <=> Tracing(c))
    BY DEF Members, OfRedis, Tracing
  <1>2. \A i : /\ OurMember(c, i)' <=> OurMember(c, i)
               /\ Hears(c, i)' <=> Hears(c, i)
    BY <1>1 DEF OurMember, Hears
  <1> QED
    BY <1>1, <1>2 DEF Traced

LEMMA CallInvInit == InstrumentInit => CallInv
  <1> SUFFICES ASSUME InstrumentInit PROVE CallInv
    OBVIOUS
  <1>1. CallsTypeOK
    <2>1. [span |-> NoSpan, hub |-> "absent"] \in CallContexts
      BY DEF CallContexts
    <2> QED
      BY <2>1, ChainFacts
         DEF InstrumentInit, CallsTypeOK, Kinds, Lines, Outcomes, NothingLeft
  <1>2. ASSUME NEW c \in Calls PROVE Placed(c) /\ Remembered(c)
    <2>1. line[c] = "idle" /\ spanOf[c] = NoSpan /\ left[c] = NothingLeft
      BY DEF InstrumentInit
    <2> QED
      BY <2>1, ChainFacts DEF Placed, Remembered, Passed, NothingLeft
  <1> QED
    BY <1>1, <1>2 DEF CallInv

LEMMA EnterStep ==
  ASSUME CallInv, NEW c \in Calls, NEW k \in KindsOf[c],
         NEW span \in Spans \cup {NoSpan}, NEW hub \in Clients \cup {"absent"},
         NEW inherited \in [1 .. Len(Chain) -> Calls \cup {NoCall}],
         span = NoSpan /\ hub = "absent" =>
           \A i \in DOMAIN Chain : Chain[i] = "tracer" => inherited[i] = NoCall,
         Enter(c, k, span, hub, inherited)
  PROVE  CallsTypeOK' /\ Placed(c)' /\ Remembered(c)'
  <1>1. k \in Kinds
    BY InstrumentAssumption DEF InstrumentAssumption
  <1>2. PICK new : new = [span |-> span, hub |-> hub]
    OBVIOUS
  <1>3. new \in CallContexts
    BY <1>2 DEF CallContexts
  <1>4. /\ line[c] = "idle" /\ kind' = [kind EXCEPT ![c] = k]
        /\ line' = [line EXCEPT ![c] = "starting"]
        /\ context' = [context EXCEPT ![c] = new]
        /\ at' = [at EXCEPT ![c] = 1] /\ left' = [left EXCEPT ![c] = inherited]
        /\ UNCHANGED <<spanOf, outcome>>
    BY <1>2 DEF Enter, Goto
  <1>5. CallsTypeOK'
    <2>1. "starting" \in Lines /\ 1 \in 0 .. Len(Chain) + 1
      BY ChainFacts DEF Lines
    <2> QED
      BY <1>1, <1>3, <1>4, <2>1 DEF CallInv, CallsTypeOK
  <1>6. /\ line'[c] = "starting" /\ at'[c] = 1 /\ left'[c] = inherited
        /\ context'[c] = new /\ spanOf'[c] = NoSpan
    BY <1>4 DEF CallInv, CallsTypeOK, Placed
  <1>7. Len(Members(c)') \in 1 .. Len(Chain) /\ DOMAIN Members(c)' = 1 .. Len(Members(c)')
    <2>1. PICK m : m = Members(c)'
      OBVIOUS
    <2>2. m = <<"hook">> \/ m = Chain
      BY <2>1 DEF Members
    <2>3. Len(m) \in 1 .. Len(Chain) /\ DOMAIN m = 1 .. Len(m)
      BY <2>2, ChainFacts
    <2> QED
      BY <2>1, <2>3
  <1>8. Placed(c)'
    <2>1. 1 \in 1 .. Len(Members(c)') + 1 /\ \A i \in DOMAIN Members(c)' : ~(i < 1)
      BY <1>7
    <2> QED
      BY <1>6, <2>1 DEF Placed
  <1>9. Remembered(c)'
    <2>1. ~Tracing(c)' => span = NoSpan /\ hub = "absent"
      BY <1>2, <1>6 DEF Tracing
    <2>2. \A i \in DOMAIN Chain : ~Passed(c, i)'
      BY <1>6, ChainFacts DEF Passed
    <2> QED
      BY <1>6, <2>1, <2>2 DEF Remembered
  <1> QED
    BY <1>5, <1>8, <1>9

LEMMA BeginStep ==
  ASSUME CallInv, NEW c \in Calls, NEW k \in KindsOf[c],
         Begin(c, k) \/ \E outer \in Calls : BeginWithin(c, k, outer)
  PROVE  CallsTypeOK' /\ Placed(c)' /\ Remembered(c)'
  <1>1. /\ NothingLeft \in [1 .. Len(Chain) -> Calls \cup {NoCall}]
        /\ \A i \in DOMAIN Chain : NothingLeft[i] = NoCall
    BY ChainFacts DEF NothingLeft
  <1>2. ASSUME NEW s \in Spans, Enter(c, k, s, "absent", NothingLeft)
        PROVE  CallsTypeOK' /\ Placed(c)' /\ Remembered(c)'
    BY <1>1, <1>2, EnterStep
  <1>3. ASSUME NEW hub \in Hubs, Enter(c, k, NoSpan, hub, NothingLeft)
        PROVE  CallsTypeOK' /\ Placed(c)' /\ Remembered(c)'
    <2>1. hub \in Clients \cup {"absent"}
      BY InstrumentAssumption DEF InstrumentAssumption
    <2> QED
      BY <1>1, <1>3, <2>1, EnterStep
  <1>4. ASSUME NEW outer \in Calls, BeginWithin(c, k, outer)
        PROVE  CallsTypeOK' /\ Placed(c)' /\ Remembered(c)'
    <2>1. PICK span, hub, inherited :
            span = context[outer].span /\ hub = context[outer].hub /\ inherited = left[outer]
      OBVIOUS
    <2>2. /\ span \in Spans \cup {NoSpan} /\ hub \in Clients \cup {"absent"}
          /\ inherited \in [1 .. Len(Chain) -> Calls \cup {NoCall}]
      BY <2>1 DEF CallInv, CallsTypeOK, CallContexts
    <2>3. ~OfRedis(outer) /\ Enter(c, k, span, hub, inherited)
      BY <1>4, <2>1 DEF BeginWithin
    <2>4. span = NoSpan /\ hub = "absent" =>
            \A i \in DOMAIN Chain : Chain[i] = "tracer" => inherited[i] = NoCall
      BY <2>1, <2>3 DEF CallInv, Remembered, Tracing
    <2> QED
      BY <2>2, <2>3, <2>4, EnterStep
  <1> QED
    BY <1>2, <1>3, <1>4 DEF Begin

\* The members' turns before the call.
LEMMA StartsStep ==
  ASSUME CallInv, NEW c \in Calls,
         \/ StartOther(c) \/ RegisterSpan(c)
         \/ \E s \in Spans : StartRootSpan(c, s) \/ BuildSpan(c, s)
  PROVE  CallsTypeOK' /\ Placed(c)' /\ Remembered(c)'
  <1> DEFINE i == at[c]
  <1>1. /\ CallsTypeOK /\ Placed(c) /\ Remembered(c)
        /\ Len(Members(c)) \in Nat /\ Len(Members(c)) <= Len(Chain) /\ Len(Chain) \in Nat
        /\ DOMAIN Members(c) = 1 .. Len(Members(c)) /\ DOMAIN Chain = 1 .. Len(Chain)
        /\ ~OfRedis(c) => Members(c) = Chain
    BY MembersFacts, ChainFacts DEF CallInv
  <1>2. /\ kind' = kind /\ context' = context /\ outcome' = outcome
        /\ i \in DOMAIN Members(c) /\ i \in Int
        /\ line[c] \in {"starting", "building"}
        /\ line[c] = "building" => OurTurn(c)
    BY <1>1 DEF StartOther, RegisterSpan, StartRootSpan, BuildSpan, IsOurTurn, IsTurn, Placed,
                OurTurn, CallsTypeOK
  <1>3. /\ Members(c)' = Members(c) /\ (OfRedis(c)' <=> OfRedis(c))
        /\ (Tracing(c)' <=> Tracing(c))
        /\ \A j : (OurMember(c, j)' <=> OurMember(c, j)) /\ (Hears(c, j)' <=> Hears(c, j))
    BY <1>1, <1>2, SameMembers
  \* A turn that ends.
  <1>4. ASSUME at' = [at EXCEPT ![c] = @ + 1],
               line' = [line EXCEPT ![c] = "starting"],
               spanOf' \in [Calls -> Spans \cup {NoSpan}],
               spanOf'[c] # NoSpan <=>
                 Tracing(c) /\ \E j \in DOMAIN Members(c) : j < i + 1 /\ OurMember(c, j),
               \/ left' = [left EXCEPT ![c] = [left[c] EXCEPT ![i] = c]]
               \/ left' = left /\ ~(Hears(c, i) /\ (OurMember(c, i) => Tracing(c))),
               left' # left => ~OurMember(c, i) \/ Tracing(c)
        PROVE  CallsTypeOK' /\ Placed(c)' /\ Remembered(c)'
    <2>1. left' \in [Calls -> [1 .. Len(Chain) -> Calls \cup {NoCall}]]
      <3>1. left[c] \in [1 .. Len(Chain) -> Calls \cup {NoCall}]
        BY <1>1 DEF CallsTypeOK
      <3>2. [left[c] EXCEPT ![i] = c] \in [1 .. Len(Chain) -> Calls \cup {NoCall}]
        BY <3>1
      <3> QED
        BY <1>1, <1>4, <3>2 DEF CallsTypeOK
    <2>2. CallsTypeOK'
      <3>1. "starting" \in Lines /\ i + 1 \in 0 .. Len(Chain) + 1
        BY <1>1, <1>2 DEF Lines
      <3> QED
        BY <1>1, <1>2, <1>4, <2>1, <3>1 DEF CallsTypeOK
    <2>3. line'[c] = "starting" /\ at'[c] = i + 1 /\ i + 1 \in 1 .. Len(Members(c)) + 1
      BY <1>1, <1>2, <1>4 DEF CallsTypeOK
    <2>4. Placed(c)'
      BY <1>3, <1>4, <2>3 DEF Placed
    <2>5. Remembered(c)'
      <3> SUFFICES ASSUME ~OfRedis(c)
                   PROVE  /\ ~Tracing(c) => \A j \in DOMAIN Chain :
                               Chain[j] = "tracer" => left'[c][j] = NoCall
                          /\ \A j \in DOMAIN Chain :
                               /\ j < i + 1 /\ Hears(c, j)
                               /\ OurMember(c, j) => Tracing(c)
                               => left'[c][j] = c
        BY <1>3, <2>3 DEF Remembered, Passed
      <3>1. /\ ~Tracing(c) => \A j \in DOMAIN Chain :
                 Chain[j] = "tracer" => left[c][j] = NoCall
            /\ \A j \in DOMAIN Chain :
                 /\ j < i /\ Hears(c, j)
                 /\ OurMember(c, j) => Tracing(c)
                 => left[c][j] = c
        BY <1>1, <1>2 DEF Remembered, Passed
      <3>2. \A j \in DOMAIN Chain : j < i + 1 => j < i \/ j = i
        BY <1>1, <1>2
      <3>3. \A j \in DOMAIN Chain : OurMember(c, j) <=> Chain[j] = "tracer"
        BY <1>1, ChainFacts DEF OurMember
      <3>4. CASE left' = left /\ ~(Hears(c, i) /\ (OurMember(c, i) => Tracing(c)))
        BY <3>1, <3>2, <3>4
      <3>5. CASE left' = [left EXCEPT ![c] = [left[c] EXCEPT ![i] = c]] /\ left' # left
        <4>1. /\ left'[c][i] = c
              /\ \A j \in DOMAIN Chain : j # i => left'[c][j] = left[c][j]
              /\ i \in DOMAIN Chain
          BY <1>1, <1>2, <3>5 DEF CallsTypeOK
        <4>2. ~Tracing(c) => ~OurMember(c, i)
          BY <1>4, <3>5
        <4> QED
          BY <3>1, <3>2, <3>3, <4>1, <4>2
      <3>6. CASE left' = [left EXCEPT ![c] = [left[c] EXCEPT ![i] = c]] /\ left' = left
        <4>1. left[c][i] = c /\ i \in DOMAIN Chain
          BY <1>1, <1>2, <3>6 DEF CallsTypeOK
        <4> QED
          BY <3>1, <3>2, <3>6, <4>1
      <3> QED
        BY <1>4, <3>4, <3>5, <3>6
    <2> QED
      BY <2>2, <2>4, <2>5
  <1> USE DEF Goto, Leave
  <1>5. ASSUME StartOther(c) PROVE CallsTypeOK' /\ Placed(c)' /\ Remembered(c)'
    <2>1. line[c] = "starting" /\ (~OurMember(c, i) \/ ~Tracing(c))
      BY <1>5 DEF StartOther, IsTurn
    <2>2. spanOf'[c] # NoSpan <=>
            Tracing(c) /\ \E j \in DOMAIN Members(c) : j < i + 1 /\ OurMember(c, j)
      <3>1. \A j \in DOMAIN Members(c) : j < i + 1 <=> j < i \/ j = i
        BY <1>1, <1>2
      <3> QED
        BY <1>1, <1>5, <2>1, <3>1 DEF Placed, StartOther
    <2>3. line' = [line EXCEPT ![c] = "starting"]
          /\ spanOf' \in [Calls -> Spans \cup {NoSpan}]
      BY <1>1, <1>5, <2>1 DEF StartOther, CallsTypeOK
    <2>4. \/ left' = [left EXCEPT ![c] = [left[c] EXCEPT ![i] = c]] /\ ~OurMember(c, i)
          \/ left' = left /\ ~(Hears(c, i) /\ (OurMember(c, i) => Tracing(c)))
      BY <1>5, <2>1 DEF StartOther
    <2> QED
      BY <1>4, <1>5, <2>2, <2>3, <2>4 DEF StartOther
  <1>6. ASSUME NEW s \in Spans, StartRootSpan(c, s)
        PROVE  CallsTypeOK' /\ Placed(c)' /\ Remembered(c)'
    <2>1. /\ line[c] = "starting" /\ OurMember(c, i) /\ Tracing(c)
          /\ at' = [at EXCEPT ![c] = @ + 1] /\ line' = line
          /\ spanOf' = [spanOf EXCEPT ![c] = s]
          /\ left' = [left EXCEPT ![c] = [left[c] EXCEPT ![i] = c]]
      BY <1>6 DEF StartRootSpan, IsOurTurn, IsTurn
    <2>2. spanOf' \in [Calls -> Spans \cup {NoSpan}] /\ spanOf'[c] # NoSpan
          /\ line' = [line EXCEPT ![c] = "starting"]
      BY <1>1, <2>1, TraceAssumption DEF CallsTypeOK, TraceAssumption
    <2>3. spanOf'[c] # NoSpan <=>
            Tracing(c) /\ \E j \in DOMAIN Members(c) : j < i + 1 /\ OurMember(c, j)
      BY <1>2, <2>1, <2>2
    <2> QED
      BY <1>4, <2>1, <2>2, <2>3
  <1>7. ASSUME NEW s \in Spans, BuildSpan(c, s)
        PROVE  CallsTypeOK' /\ Placed(c)' /\ Remembered(c)'
    <2>1. /\ line[c] = "starting" /\ OurMember(c, i) /\ context[c].span # NoSpan
          /\ at' = at /\ left' = left /\ line' = [line EXCEPT ![c] = "building"]
          /\ spanOf' = [spanOf EXCEPT ![c] = s]
      BY <1>7 DEF BuildSpan, IsOurTurn, IsTurn
    <2>2. spanOf'[c] = s /\ s # NoSpan /\ line'[c] = "building" /\ "building" \in Lines
      BY <1>1, <2>1, TraceAssumption DEF CallsTypeOK, TraceAssumption, Lines
    <2>3. CallsTypeOK'
      BY <1>1, <1>2, <2>1, <2>2 DEF CallsTypeOK
    <2>4. Placed(c)'
      BY <1>2, <1>3, <2>1, <2>2 DEF Placed, OurTurn
    <2>5. Remembered(c)'
      BY <1>1, <1>3, <2>1, <2>2 DEF Remembered, Passed
    <2> QED
      BY <2>3, <2>4, <2>5
  <1>8. ASSUME RegisterSpan(c) PROVE CallsTypeOK' /\ Placed(c)' /\ Remembered(c)'
    <2>1. /\ line[c] = "building" /\ spanOf' = spanOf
          /\ at' = [at EXCEPT ![c] = @ + 1] /\ line' = [line EXCEPT ![c] = "starting"]
          /\ left' = [left EXCEPT ![c] = [left[c] EXCEPT ![i] = c]]
      BY <1>8 DEF RegisterSpan
    <2>2. OurMember(c, i) /\ spanOf[c] # NoSpan /\ Tracing(c)
      BY <1>1, <2>1 DEF Placed, OurTurn, Tracing
    <2>3. spanOf' \in [Calls -> Spans \cup {NoSpan}]
      BY <1>1, <2>1 DEF CallsTypeOK
    <2> QED
      BY <1>2, <1>4, <2>1, <2>2, <2>3
  <1> QED
    BY <1>5, <1>6, <1>7, <1>8

\* The members' turns are over, or the driver is, and the driver is done.
LEMMA WorkStep ==
  ASSUME CallInv, NEW c \in Calls,
         \/ StartsAreOver(c) \/ DescribePipeline(c) \/ DescribeCommand(c) \/ Abandon(c)
         \/ \E result \in Outcomes \ {"none"} : Return(c, result)
  PROVE  CallsTypeOK' /\ Placed(c)' /\ Remembered(c)'
  <1>1. /\ CallsTypeOK /\ Placed(c) /\ Remembered(c)
        /\ Len(Members(c)) \in Nat /\ Len(Members(c)) <= Len(Chain) /\ Len(Chain) \in Nat
        /\ DOMAIN Members(c) = 1 .. Len(Members(c))
        /\ OfRedis(c) => Len(Members(c)) = 1
        /\ ~OfRedis(c) => Members(c) = Chain
    BY MembersFacts, ChainFacts DEF CallInv
  <1>2. kind' = kind /\ context' = context /\ left' = left /\ spanOf' = spanOf
    BY DEF StartsAreOver, DescribePipeline, DescribeCommand, Abandon, Return
  <1>3. /\ Members(c)' = Members(c) /\ (OfRedis(c)' <=> OfRedis(c))
        /\ (Tracing(c)' <=> Tracing(c)) /\ (Traced(c)' <=> Traced(c))
        /\ \A j : (OurMember(c, j)' <=> OurMember(c, j)) /\ (Hears(c, j)' <=> Hears(c, j))
    BY <1>1, <1>2, SameMembers
  <1>4. /\ line[c] \notin {"idle", "building"}
        /\ line[c] = "starting" => at[c] > Len(Members(c))
        /\ at' = at \/ at' = [at EXCEPT ![c] = Len(Members(c))]
        /\ outcome' \in [Calls -> Outcomes]
        /\ \E to \in {"entering", "running", "returned", "ending", "abandoned"} :
             /\ line' = [line EXCEPT ![c] = to]
             /\ to = "entering" => kind[c] = "pipeline" /\ Tracing(c)
             /\ to = "returned" =>
                  kind[c] = "command" /\ Tracing(c) /\ at'[c] = Len(Members(c))
             /\ to = "ending" => at'[c] \in 0 .. Len(Members(c))
    <2>1. CASE StartsAreOver(c)
      BY <1>1, <2>1 DEF StartsAreOver, Goto, CallsTypeOK
    <2>2. CASE DescribePipeline(c)
      BY <1>1, <2>2 DEF DescribePipeline, Goto, CallsTypeOK
    <2>3. CASE DescribeCommand(c)
      BY <1>1, <2>3 DEF DescribeCommand, Goto, CallsTypeOK, Placed
    <2>4. CASE Abandon(c)
      BY <1>1, <2>4 DEF Abandon, Goto, CallsTypeOK
    <2>5. ASSUME NEW result \in Outcomes, Return(c, result)
          PROVE  /\ line[c] = "running" /\ at' = [at EXCEPT ![c] = Len(Members(c))]
                 /\ outcome' \in [Calls -> Outcomes]
                 /\ \E to \in {"returned", "ending"} :
                      /\ line' = [line EXCEPT ![c] = to]
                      /\ to = "returned" => kind[c] = "command" /\ Tracing(c)
                 /\ at'[c] \in 0 .. Len(Members(c)) /\ at'[c] = Len(Members(c))
      <3>1. line[c] = "running" /\ at' = [at EXCEPT ![c] = Len(Members(c))]
        BY <2>5 DEF Return
      <3>2. outcome' \in [Calls -> Outcomes]
        BY <1>1, <2>5 DEF Return, CallsTypeOK
      <3>3. at'[c] = Len(Members(c))
        BY <1>1, <3>1 DEF CallsTypeOK
      <3>4. line' = [line EXCEPT ![c] =
                       IF kind[c] = "command" /\ Tracing(c) THEN "returned" ELSE "ending"]
        BY <2>5 DEF Return, Goto
      <3>5. at'[c] \in 0 .. Len(Members(c))
        BY <1>1, <3>3
      <3>6. \E to \in {"returned", "ending"} :
              /\ line' = [line EXCEPT ![c] = to]
              /\ to = "returned" => kind[c] = "command" /\ Tracing(c)
        <4>1. CASE kind[c] = "command" /\ Tracing(c)
          BY <3>4, <4>1
        <4>2. CASE ~(kind[c] = "command" /\ Tracing(c))
          BY <3>4, <4>2
        <4> QED
          BY <4>1, <4>2
      <3> QED
        BY <3>1, <3>2, <3>3, <3>5, <3>6
    <2> QED
      BY <2>1, <2>2, <2>3, <2>4, <2>5
  <1>5. PICK to \in {"entering", "running", "returned", "ending", "abandoned"} :
             /\ line' = [line EXCEPT ![c] = to]
             /\ to = "entering" => kind[c] = "pipeline" /\ Tracing(c)
             /\ to = "returned" =>
                  kind[c] = "command" /\ Tracing(c) /\ at'[c] = Len(Members(c))
             /\ to = "ending" => at'[c] \in 0 .. Len(Members(c))
    BY <1>4
  <1>6. line'[c] = to /\ to \in Lines
    BY <1>1, <1>5 DEF CallsTypeOK, Lines
  <1>7. CallsTypeOK'
    <2>1. at' \in [Calls -> 0 .. Len(Chain) + 1]
      <3>1. Len(Members(c)) \in 0 .. Len(Chain) + 1
        BY <1>1
      <3> QED
        BY <1>1, <1>4, <3>1 DEF CallsTypeOK
    <2> QED
      BY <1>1, <1>2, <1>4, <1>5, <1>6, <2>1 DEF CallsTypeOK
  <1>8. spanOf[c] # NoSpan <=> Traced(c)
    <2>1. CASE line[c] = "starting"
      <3>1. \A i \in DOMAIN Members(c) : i < at[c]
        <4>1. at[c] \in Int /\ at[c] > Len(Members(c))
          BY <1>1, <1>4, <2>1 DEF CallsTypeOK
        <4> QED
          BY <1>1, <4>1
      <3> QED
        BY <1>1, <2>1, <3>1 DEF Placed, Traced
    <2>2. CASE line[c] # "starting"
      BY <1>1, <1>4, <2>2 DEF Placed
    <2> QED
      BY <2>1, <2>2
  <1>9. Placed(c)'
    BY <1>2, <1>3, <1>5, <1>6, <1>8 DEF Placed
  <1>10. Remembered(c)'
    <2>1. \A i \in DOMAIN Chain : ~OfRedis(c) => Passed(c, i)
      <3>1. \A i \in DOMAIN Chain : i \in 1 .. Len(Chain)
        BY ChainFacts
      <3>2. at[c] \in Int
        BY <1>1 DEF CallsTypeOK
      <3> QED
        BY <1>1, <1>4, <3>1, <3>2 DEF Passed
    <2> QED
      BY <1>1, <1>2, <1>3, <2>1 DEF Remembered
  <1> QED
    BY <1>7, <1>9, <1>10

\* The way back through the chain.
LEMMA EndsStep ==
  ASSUME CallInv, NEW c \in Calls,
         \/ EndOther(c) \/ StartFinish(c) \/ SetFailure(c) \/ SetError(c) \/ EndSpan(c)
         \/ EndsAreOver(c)
  PROVE  CallsTypeOK' /\ Placed(c)' /\ Remembered(c)'
  <1>1. /\ CallsTypeOK /\ Placed(c) /\ Remembered(c)
        /\ Len(Members(c)) \in Nat /\ Len(Members(c)) <= Len(Chain) /\ Len(Chain) \in Nat
        /\ DOMAIN Members(c) = 1 .. Len(Members(c))
        /\ \A i, j \in DOMAIN Members(c) : OurMember(c, i) /\ OurMember(c, j) => i = j
    BY MembersFacts, ChainFacts DEF CallInv
  <1>2. /\ kind' = kind /\ context' = context /\ left' = left /\ spanOf' = spanOf
        /\ outcome' = outcome
    BY DEF EndOther, StartFinish, SetFailure, SetError, EndSpan, EndsAreOver
  <1>3. /\ Members(c)' = Members(c) /\ (OfRedis(c)' <=> OfRedis(c))
        /\ (Tracing(c)' <=> Tracing(c)) /\ (Traced(c)' <=> Traced(c))
        /\ \A j : (OurMember(c, j)' <=> OurMember(c, j)) /\ (Hears(c, j)' <=> Hears(c, j))
    BY <1>1, <1>2, SameMembers
  <1>4. /\ line[c] \in {"ending", "status", "data", "finish"}
        /\ at[c] \in 0 .. Len(Members(c))
        /\ \/ at' = at
           \/ at[c] > 0 /\ at' = [at EXCEPT ![c] = @ - 1] /\ line'[c] = "ending"
    <2>1. /\ line[c] \in {"ending", "status", "data", "finish"}
          /\ \/ at' = at
             \/ at[c] > 0 /\ at' = [at EXCEPT ![c] = @ - 1] /\ line'[c] = "ending"
      BY <1>1 DEF EndOther, StartFinish, SetFailure, SetError, EndSpan, EndsAreOver,
                  Goto, IsEndTurn, CallsTypeOK, Placed, OurTurn
    <2> QED
      BY <1>1, <2>1 DEF Placed, OurTurn
  <1>5. PICK to \in {"ending", "status", "data", "finish", "over"} :
          /\ line' = [line EXCEPT ![c] = to]
          /\ to \in {"status", "data", "finish"} => at' = at /\ OurTurn(c)
    <2>1. CASE EndOther(c)
      BY <1>1, <2>1 DEF EndOther, IsEndTurn, CallsTypeOK
    <2>2. CASE StartFinish(c)
      <3>1. OurMember(c, at[c]) /\ at[c] \in DOMAIN Members(c) /\ at' = at
        BY <1>1, <1>4, <2>2 DEF StartFinish, IsEndTurn
      <3>2. spanOf[c] # NoSpan
        <4>1. Found(c) # NoSpan
          BY <2>2 DEF StartFinish
        <4>2. CASE OfRedis(c)
          BY <4>1, <4>2 DEF Found
        <4>3. CASE ~OfRedis(c)
          <5>1. left[c][at[c]] # NoCall /\ at[c] \in DOMAIN Chain /\ Chain[at[c]] = "tracer"
            <6>1. Members(c) = Chain
              BY <4>3, MembersFacts
            <6> QED
              BY <3>1, <4>1, <4>3, <6>1, ChainFacts DEF Found, OurMember
          <5>2. Tracing(c)
            BY <1>1, <4>3, <5>1 DEF Remembered
          <5>3. Traced(c)
            BY <3>1, <5>2 DEF Traced
          <5> QED
            BY <1>1, <1>4, <5>3 DEF Placed
        <4> QED
          BY <4>2, <4>3
      <3> QED
        BY <2>2, <3>1, <3>2 DEF StartFinish, Goto, OurTurn
    <2>3. CASE SetFailure(c)
      BY <1>1, <2>3 DEF SetFailure, Goto, Placed
    <2>4. CASE SetError(c)
      BY <1>1, <2>4 DEF SetError, Goto, Placed
    <2>5. CASE EndSpan(c)
      BY <2>5 DEF EndSpan, Goto
    <2>6. CASE EndsAreOver(c)
      BY <2>6 DEF EndsAreOver, Goto
    <2> QED
      BY <2>1, <2>2, <2>3, <2>4, <2>5, <2>6
  <1>6. line'[c] = to /\ to \in Lines
    BY <1>1, <1>5 DEF CallsTypeOK, Lines
  <1>7. at' \in [Calls -> 0 .. Len(Chain) + 1] /\ at'[c] \in 0 .. Len(Members(c))
    <2>1. at[c] > 0 => at[c] - 1 \in 0 .. Len(Members(c))
      BY <1>1, <1>4
    <2>2. at[c] > 0 => at[c] - 1 \in 0 .. Len(Chain) + 1
      BY <1>1, <1>4
    <2> QED
      BY <1>1, <1>4, <2>1, <2>2 DEF CallsTypeOK
  <1>8. CallsTypeOK'
    BY <1>1, <1>2, <1>5, <1>6, <1>7 DEF CallsTypeOK
  <1>9. Placed(c)'
    BY <1>1, <1>2, <1>3, <1>4, <1>5, <1>6, <1>7 DEF Placed, OurTurn
  <1>10. Remembered(c)'
    BY <1>1, <1>2, <1>3, <1>4, <1>6 DEF Remembered, Passed
  <1> QED
    BY <1>8, <1>9, <1>10

LEMMA CallInvStep == CallInv /\ [InstrumentNext]_allVars => CallInv'
  <1> SUFFICES ASSUME CallInv, [InstrumentNext]_allVars PROVE CallInv'
    OBVIOUS
  <1>1. ASSUME UNCHANGED callVars PROVE CallInv'
    <2>1. \A d \in Calls : Same(d)
      BY <1>1 DEF callVars, Same
    <2>2. CallsTypeOK'
      BY <1>1 DEF callVars, CallInv, CallsTypeOK
    <2> QED
      BY <2>1, <2>2, SameStays DEF CallInv
  <1>2. ASSUME NEW c \in Calls, ActionOf(c) PROVE CallInv'
    <2>1. CallsTypeOK' /\ Placed(c)' /\ Remembered(c)'
      BY <1>2, BeginStep, StartsStep, WorkStep, EndsStep DEF ActionOf, CallStep
    <2>2. ASSUME NEW d \in Calls, d # c PROVE Placed(d)' /\ Remembered(d)'
      BY <1>2, <2>2, OthersStay, SameStays DEF CallInv
    <2> QED
      BY <2>1, <2>2 DEF CallInv
  <1> QED
    BY <1>1, <1>2, CallCases

\* Where the calls stand does not depend on what becomes of their spans.
LEMMA CallInvariance == InstrumentSpec => []CallInv
  BY CallInvInit, CallInvStep, PTL DEF InstrumentSpec

\* Every call is of its type, and the walks through the chain stay within it
\* (chain.go:57-96).
THEOREM CallsTypeCorrect == InstrumentSpec => []CallsTypeOK
  <1>1. CallInv => CallsTypeOK
    BY DEF CallInv
  <1> QED
    BY <1>1, CallInvariance, PTL

\* Each tracer of a chain finds what it left itself (chain.go:15-18).
THEOREM OwnStateIsFound == InstrumentSpec => []EndFindsItsStart
  <1>1. CallInv => EndFindsItsStart
    BY DEF CallInv, Remembered, Passed, EndFindsItsStart
  <1> QED
    BY <1>1, CallInvariance, PTL

-----------------------------------------------------------------------------
(***************************************************************************)
(* The integrations are one more user of spans: what they do is a behaviour *)
(* of Trace.                                                               *)
(***************************************************************************)

\* What finish is given is the call's own span.
LEMMA FoundIsOwn ==
  ASSUME CallInv, NEW c \in Calls, line[c] \in {"ending", "status", "data", "finish"},
         at[c] \in DOMAIN Members(c), OurMember(c, at[c])
  PROVE  Found(c) = spanOf[c]
  <1>1. CASE OfRedis(c)
    BY <1>1 DEF Found
  <1>2. CASE ~OfRedis(c)
    <2>1. Members(c) = Chain /\ Chain[at[c]] = "tracer" /\ at[c] \in DOMAIN Chain
      BY <1>2, MembersFacts, ChainFacts DEF OurMember
    <2>2. Hears(c, at[c]) /\ Passed(c, at[c])
      BY <2>1 DEF Hears, Passed
    <2>3. CASE Tracing(c)
      <3>1. left[c][at[c]] = c
        BY <1>2, <2>1, <2>2, <2>3 DEF CallInv, Remembered
      <3> QED
        BY <1>2, <3>1, InstrumentAssumption DEF Found, InstrumentAssumption
    <2>4. CASE ~Tracing(c)
      <3>1. left[c][at[c]] = NoCall
        BY <1>2, <2>1, <2>4 DEF CallInv, Remembered
      <3>2. spanOf[c] = NoSpan
        BY <2>4 DEF CallInv, Placed, Traced
      <3> QED
        BY <1>2, <3>1, <3>2 DEF Found
    <2> QED
      BY <2>3, <2>4
  <1> QED
    BY <1>1, <1>2

LEMMA OwnTurn ==
  ASSUME CallInv, NEW c \in Calls, line[c] \in {"status", "data", "finish"}
  PROVE  /\ Found(c) = spanOf[c] /\ spanOf[c] \in Spans
         /\ at[c] \in DOMAIN Members(c) /\ OurMember(c, at[c])
  <1>1. OurTurn(c)
    BY DEF CallInv, Placed
  <1>2. spanOf[c] \in Spans
    BY <1>1 DEF CallInv, CallsTypeOK, OurTurn
  <1> QED
    BY <1>1, <1>2, FoundIsOwn DEF OurTurn

LEMMA MarksKnown ==
  /\ "error" \in Marks /\ "command" \in Marks /\ "internal_error" \in Statuses
  /\ Annotated = Spans
  BY InstrumentAssumption, TraceAssumption DEF InstrumentAssumption, TraceAssumption

\* The call steps that do something to a span.
LEMMA SpanSteps ==
  ASSUME CallInv, NEW c \in Calls, ActionOf(c)
  PROVE  \/ UNCHANGED vars
         \/ \E s \in Spans :
              \/ StartRootSpan(c, s) /\ \E hub \in Clients : StartTransaction(s, hub)
              \/ BuildSpan(c, s) /\ \E p \in Spans : BuildChild(s, p)
         \/ /\ spanOf[c] \in Spans
            /\ \/ RegisterSpan(c) /\ Register(spanOf[c])
               \/ DescribePipeline(c) /\ SetData(spanOf[c], "command")
               \/ DescribeCommand(c) /\ SetData(spanOf[c], "command")
               \/ SetFailure(c) /\ SetStatus(spanOf[c], "internal_error")
               \/ SetError(c) /\ SetData(spanOf[c], "error")
               \/ EndSpan(c) /\ FinishSpan(spanOf[c])
  <1>1. ASSUME NEW s \in Spans, StartRootSpan(c, s)
        PROVE  \E hub \in Clients : StartTransaction(s, hub)
    <2>1. context[c].hub \in Clients
      <3>1. context[c] \in CallContexts /\ context[c].hub # "absent"
        BY <1>1 DEF StartRootSpan, IsOurTurn, Tracing, CallInv, CallsTypeOK
      <3> QED
        BY <3>1 DEF CallContexts
    <2> QED
      BY <1>1, <2>1 DEF StartRootSpan
  <1>2. ASSUME NEW s \in Spans, BuildSpan(c, s) PROVE \E p \in Spans : BuildChild(s, p)
    <2>1. context[c].span \in Spans
      <3>1. context[c] \in CallContexts /\ context[c].span # NoSpan
        BY <1>2 DEF BuildSpan, CallInv, CallsTypeOK
      <3> QED
        BY <3>1 DEF CallContexts
    <2> QED
      BY <1>2, <2>1 DEF BuildSpan
  <1>3. ASSUME RegisterSpan(c) PROVE spanOf[c] \in Spans /\ Register(spanOf[c])
    BY <1>3 DEF RegisterSpan, CallInv, CallsTypeOK, Placed, OurTurn
  <1>4. ASSUME DescribePipeline(c) \/ DescribeCommand(c)
        PROVE  spanOf[c] \in Spans /\ SetData(spanOf[c], "command")
    <2>1. kind[c] \in {"pipeline", "command"} /\ Tracing(c)
          /\ (spanOf[c] # NoSpan <=> Traced(c)) /\ spanOf[c] \in Spans \cup {NoSpan}
      BY <1>4 DEF DescribePipeline, DescribeCommand, CallInv, CallsTypeOK, Placed
    <2>2. Members(c)[1] = "hook" /\ 1 \in DOMAIN Members(c)
      BY <2>1, MembersFacts DEF OfRedis
    <2>3. Traced(c)
      BY <2>1, <2>2 DEF Traced, OurMember
    <2> QED
      BY <1>4, <2>1, <2>3 DEF DescribePipeline, DescribeCommand
  <1>5. ASSUME SetFailure(c)
        PROVE  spanOf[c] \in Spans /\ SetStatus(spanOf[c], "internal_error")
    BY <1>5, OwnTurn DEF SetFailure
  <1>6. ASSUME SetError(c) PROVE spanOf[c] \in Spans /\ SetData(spanOf[c], "error")
    BY <1>6, OwnTurn DEF SetError
  <1>7. ASSUME EndSpan(c)
        PROVE  UNCHANGED vars \/ (spanOf[c] \in Spans /\ FinishSpan(spanOf[c]))
    BY <1>7, OwnTurn DEF EndSpan
  <1>8. ASSUME \/ StartOther(c) \/ StartsAreOver(c) \/ EndOther(c) \/ StartFinish(c)
               \/ EndsAreOver(c) \/ Abandon(c)
               \/ \E result \in Outcomes : Return(c, result)
               \/ \E k \in KindsOf[c] :
                    Begin(c, k) \/ \E outer \in Calls : BeginWithin(c, k, outer)
        PROVE  UNCHANGED vars
    BY <1>8 DEF StartOther, StartsAreOver, EndOther, StartFinish, EndsAreOver, Abandon,
                Return, Begin, BeginWithin, Enter
  <1> QED
    BY <1>1, <1>2, <1>3, <1>4, <1>5, <1>6, <1>7, <1>8 DEF ActionOf, CallStep

LEMMA TraceStep == CallInv /\ [InstrumentNext]_allVars => [Next]_vars
  <1> SUFFICES ASSUME CallInv, [InstrumentNext]_allVars PROVE [Next]_vars
    OBVIOUS
  <1>1. CASE UNCHANGED allVars
    BY <1>1 DEF allVars
  <1>2. ASSUME NEW c \in Calls, ActionOf(c) PROVE [Next]_vars
    BY <1>2, SpanSteps, MarksKnown DEF Next, Start, Note
  <1>3. ASSUME NEW s \in Spans,
               StartSpan(s) \/ PublishSpan(s) \/ UseSpan(s) \/ RunJob(s) \/ SendReport(s)
        PROVE  Next
    BY <1>3 DEF Next, StartSpan, PublishSpan, UseSpan, RunJob, SendReport
  <1> QED
    BY <1>1, <1>2, <1>3 DEF InstrumentNext, ActionOf

\* The integrations use spans as any application does: all that is proved of Trace
\* holds of their spans as well (tracer.go:90-118, hook.go:69-96).
THEOREM InstrumentIsTrace == InstrumentSpec => Spec
  <1>1. InstrumentInit => Init
    BY DEF InstrumentInit
  <1> QED
    BY <1>1, TraceStep, CallInvariance, PTL DEF InstrumentSpec, Spec

-----------------------------------------------------------------------------
(***************************************************************************)
(* The span of a call is its own: nobody else finishes or annotates it.    *)
(***************************************************************************)
Described(c) ==
  \/ kind[c] = "command" /\ line[c] \in {"ending", "status", "data", "finish", "over"}
  \/ kind[c] = "pipeline" /\ line[c] \notin {"idle", "starting", "building", "entering"}

StatusOf(c) ==
  IF outcome[c] = "failed" /\ (line[c] \in {"data", "finish"} \/ Ended(c))
  THEN "internal_error" ELSE "unset"

DataOf(c) ==
  (IF outcome[c] = "failed" /\ (line[c] = "finish" \/ Ended(c)) THEN {"error"} ELSE {})
    \cup (IF Described(c) THEN {"command"} ELSE {})

\* What has become of the span says where the call is.
Settled(c) ==
  spanOf[c] # NoSpan =>
    /\ stage[spanOf[c]] # "none" /\ job[spanOf[c]] = "none"
    /\ Finished(spanOf[c]) <=> Ended(c)
    /\ line[c] \in {"status", "data"} => outcome[c] = "failed"
    /\ status[spanOf[c]] = StatusOf(c) /\ data[spanOf[c]] = DataOf(c)

Apart == \A c, d \in Calls : spanOf[c] = spanOf[d] /\ c # d => spanOf[c] = NoSpan

Fresh == \A s \in Spans : stage[s] = "none" => status[s] = "unset" /\ data[s] = {}

OwnInv == Apart /\ Fresh /\ \A c \in Calls : Settled(c)

\* What a step leaves of a span that it does not concern.
Kept(t) ==
  /\ end'[t] = end[t] /\ job'[t] = job[t] /\ status'[t] = status[t] /\ data'[t] = data[t]
  /\ stage[t] # "none" => stage'[t] # "none"

\* A step of Trace that is another span's business.
LEMMA OtherSpansAreKept ==
  ASSUME TypeOK, NEW s \in Spans, NEW t \in Spans, t # s,
         \/ Start(s) \/ Register(s) \/ Note(s) \/ FinishSpan(s) \/ FailJob(s)
         \/ CompleteJob(s) \/ JobStep(s) \/ Send(s)
  PROVE  Kept(t)
  <1> USE DEF Kept, treeVars, noteVars, TypeOK
  <1>1. CASE Start(s)
    BY <1>1 DEF Start, StartTransaction, StartJob, StartRoot, BuildChild
  <1>2. CASE Register(s) \/ Note(s) \/ Send(s)
    BY <1>2 DEF Register, Note, SetTag, SetData, SetStatus, SetHTTPStatus, Send
  <1>3. CASE FinishSpan(s) \/ FailJob(s) \/ CompleteJob(s) \/ JobStep(s)
    BY <1>3 DEF FinishSpan, Finish, FailJob, CompleteJob, JobStep, SetJobStatus, SetJobError,
                FinishJob
  <1> QED
    BY <1>1, <1>2, <1>3

\* The payload of a root is on its way whatever becomes of it.
LEMMA SendKeeps ==
  ASSUME NEW s \in Spans, Send(s), NEW t \in Spans
  PROVE  Kept(t)
  BY DEF Send, Kept, treeVars, noteVars

\* The application's steps keep the spans of calls.
LEMMA ApplicationKeeps ==
  ASSUME TypeOK, NEW c \in Calls, spanOf[c] \in Spans, Settled(c), spanOf[c] # NoSpan,
         NEW s \in Spans,
         StartSpan(s) \/ PublishSpan(s) \/ UseSpan(s) \/ RunJob(s) \/ SendReport(s)
  PROVE  Kept(spanOf[c])
  <1>1. CASE StartSpan(s) \/ PublishSpan(s) \/ UseSpan(s)
    <2>1. s # spanOf[c]
      BY <1>1 DEF StartSpan, PublishSpan, UseSpan, CallSpans
    <2> QED
      BY <1>1, <2>1, OtherSpansAreKept DEF StartSpan, PublishSpan, UseSpan
  <1>2. CASE RunJob(s)
    <2>1. s # spanOf[c]
      BY <1>2 DEF RunJob, JobStep, SetJobStatus, SetJobError, FinishJob, Settled
    <2> QED
      BY <1>2, <2>1, OtherSpansAreKept DEF RunJob
  <1>3. CASE SendReport(s)
    BY <1>3, SendKeeps DEF SendReport
  <1> QED
    BY <1>1, <1>2, <1>3

LEMMA KeptStays ==
  ASSUME NEW d \in Calls, Same(d), Settled(d), spanOf[d] # NoSpan => Kept(spanOf[d])
  PROVE  Settled(d)'
  <1>1. /\ Members(d)' = Members(d) /\ (OfRedis(d)' <=> OfRedis(d))
        /\ \A i : OurMember(d, i)' <=> OurMember(d, i)
    BY DEF Same, Members, OfRedis, OurMember
  <1>2. (Ended(d)' <=> Ended(d)) /\ (Described(d)' <=> Described(d))
    BY <1>1 DEF Same, Ended, Described
  <1>3. StatusOf(d)' = StatusOf(d) /\ DataOf(d)' = DataOf(d)
    BY <1>2 DEF Same, StatusOf, DataOf
  <1> QED
    BY <1>2, <1>3 DEF Same, Settled, Kept, Finished

\* A call's steps keep the spans of other calls.
LEMMA CallKeepsOthers ==
  ASSUME TypeOK, CallInv, OwnInv, NEW c \in Calls, ActionOf(c),
         NEW d \in Calls, d # c, spanOf[d] # NoSpan
  PROVE  Kept(spanOf[d])
  <1>1. /\ spanOf[d] \in Spans /\ spanOf[d] # spanOf[c] /\ stage[spanOf[d]] # "none"
    BY DEF CallInv, CallsTypeOK, OwnInv, Apart, Settled
  <1>2. CASE UNCHANGED vars
    BY <1>2 DEF vars, treeVars, noteVars, Kept
  <1>3. ASSUME NEW s \in Spans,
               \/ \E hub \in Clients : StartTransaction(s, hub)
               \/ \E p \in Spans : BuildChild(s, p)
        PROVE  Kept(spanOf[d])
    <2>1. s # spanOf[d]
      BY <1>1, <1>3 DEF StartTransaction, StartRoot, BuildChild
    <2> QED
      BY <1>1, <1>3, <2>1, OtherSpansAreKept DEF Start
  <1>4. ASSUME spanOf[c] \in Spans,
               \/ Register(spanOf[c]) \/ SetData(spanOf[c], "command")
               \/ SetStatus(spanOf[c], "internal_error") \/ SetData(spanOf[c], "error")
               \/ FinishSpan(spanOf[c])
        PROVE  Kept(spanOf[d])
    BY <1>1, <1>4, OtherSpansAreKept, MarksKnown DEF Note
  <1> QED
    BY <1>2, <1>3, <1>4, SpanSteps

LEMMA FreshStays == Inv /\ Fresh /\ [Next]_vars => Fresh'
  <1> SUFFICES ASSUME Inv, Fresh, [Next]_vars PROVE Fresh'
    OBVIOUS
  <1> USE DEF treeVars, noteVars
  <1>1. CASE UNCHANGED vars
    BY <1>1 DEF vars, Fresh
  <1>2. ASSUME NEW s \in Spans,
               \/ Start(s) \/ Register(s) \/ Note(s) \/ FinishSpan(s) \/ FailJob(s)
               \/ CompleteJob(s) \/ JobStep(s)
        PROVE  stage'[s] # "none"
    <2>1. CASE Start(s) \/ Register(s)
      BY <1>2, <2>1 DEF Start, StartTransaction, StartJob, StartRoot, BuildChild, Register,
                        Inv, TypeOK
    <2>2. CASE Note(s) \/ FinishSpan(s)
      BY <1>2, <2>2 DEF Note, SetTag, SetData, SetStatus, SetHTTPStatus, FinishSpan, Finish,
                        Live
    <2>3. CASE FailJob(s) \/ CompleteJob(s) \/ JobStep(s)
      <3>1. job[s] # "none" /\ stage' = stage
        BY <2>3 DEF FailJob, CompleteJob, JobStep, SetJobStatus, SetJobError, FinishJob, Finish
      <3> QED
        BY <3>1 DEF Inv, Tree
    <2> QED
      BY <1>2, <2>1, <2>2, <2>3
  <1>3. ASSUME NEW s \in Spans, Next, NEW t \in Spans, stage'[t] = "none"
        PROVE  stage[t] = "none" /\ status'[t] = status[t] /\ data'[t] = data[t]
    <2>1. Kept(t)
      BY <1>2, <1>3, OtherSpansAreKept, SendKeeps DEF Next, Inv
    <2> QED
      BY <1>3, <2>1 DEF Kept
  <1> QED
    BY <1>1, <1>3 DEF Fresh

LEMMA ApartStays ==
  ASSUME CallInv, OwnInv, NEW c \in Calls, ActionOf(c)
  PROVE  Apart'
  <1>1. ASSUME NEW s \in Spans, stage[s] = "none", spanOf' = [spanOf EXCEPT ![c] = s]
        PROVE  Apart'
    <2>1. \A d \in Calls : spanOf[d] # s
      BY <1>1, TraceAssumption DEF OwnInv, Settled, TraceAssumption
    <2> QED
      BY <1>1, <2>1 DEF OwnInv, Apart, CallInv, CallsTypeOK
  <1>2. ASSUME NEW s \in Spans, StartRootSpan(c, s) \/ BuildSpan(c, s)
        PROVE  stage[s] = "none" /\ spanOf' = [spanOf EXCEPT ![c] = s]
    BY <1>2 DEF StartRootSpan, BuildSpan, StartTransaction, StartRoot, BuildChild
  <1>3. ASSUME ~\E s \in Spans : StartRootSpan(c, s) \/ BuildSpan(c, s)
        PROVE  spanOf' = spanOf
    BY <1>3 DEF ActionOf, Begin, BeginWithin, Enter, CallStep, StartOther, RegisterSpan,
                StartsAreOver, DescribePipeline, DescribeCommand, EndOther, StartFinish,
                SetFailure, SetError, EndSpan, EndsAreOver, Return, Abandon
  <1> QED
    BY <1>1, <1>2, <1>3 DEF OwnInv, Apart

\* Before the work nothing has ended and nothing is described.
LEMMA SettledBefore ==
  ASSUME CallInv, Inv, OwnInv, NEW c \in Calls,
         \/ \E k \in KindsOf[c] : Begin(c, k) \/ \E outer \in Calls : BeginWithin(c, k, outer)
         \/ StartOther(c) \/ RegisterSpan(c) \/ StartsAreOver(c)
         \/ \E s \in Spans : StartRootSpan(c, s) \/ BuildSpan(c, s)
  PROVE  Settled(c)'
  <1> USE DEF treeVars, noteVars
  <1>1. CallsTypeOK /\ Placed(c) /\ Settled(c) /\ TypeOK /\ Tree
    BY DEF CallInv, OwnInv, Inv
  <1>2. ASSUME line'[c] \in {"starting", "building", "entering", "running"},
               spanOf'[c] # NoSpan => (line'[c] = "running" => kind'[c] # "pipeline")
        PROVE  spanOf'[c] # NoSpan =>
                 /\ ~Ended(c)' /\ StatusOf(c)' = "unset" /\ DataOf(c)' = {}
    BY <1>2 DEF Ended, Described, StatusOf, DataOf
  <1>3. line[c] \in {"starting", "building"} =>
          ~Ended(c) /\ StatusOf(c) = "unset" /\ DataOf(c) = {}
    BY DEF Ended, Described, StatusOf, DataOf
  <1>4. ASSUME line[c] \in {"starting", "building"}, spanOf'[c] = spanOf[c],
               spanOf[c] # NoSpan => Kept(spanOf[c]),
               line'[c] \in {"starting", "building", "entering", "running"},
               spanOf'[c] # NoSpan => (line'[c] = "running" => kind'[c] # "pipeline")
        PROVE  Settled(c)'
    BY <1>1, <1>2, <1>3, <1>4 DEF Settled, Kept, Finished
  <1>5. CASE \E k \in KindsOf[c] :
               Begin(c, k) \/ \E outer \in Calls : BeginWithin(c, k, outer)
    BY <1>1, <1>5 DEF Begin, BeginWithin, Enter, Placed, Settled
  <1>6. CASE StartOther(c)
    <2>1. UNCHANGED vars /\ line[c] = "starting" /\ line' = line /\ spanOf' = spanOf
      BY <1>6 DEF StartOther, IsTurn
    <2>2. spanOf[c] # NoSpan => Kept(spanOf[c])
      BY <2>1 DEF Kept, vars
    <2> QED
      BY <1>4, <2>1, <2>2
  <1>7. CASE RegisterSpan(c)
    <2>1. /\ line[c] = "building" /\ line'[c] = "starting" /\ spanOf' = spanOf
          /\ Register(spanOf[c])
      BY <1>1, <1>7 DEF RegisterSpan, Goto, CallsTypeOK
    <2>2. spanOf[c] \in Spans
      BY <1>1, <2>1 DEF CallsTypeOK, Placed, OurTurn
    <2>3. Kept(spanOf[c])
      BY <1>1, <2>1, <2>2 DEF Register, Kept, TypeOK
    <2> QED
      BY <1>4, <2>1, <2>3
  <1>8. CASE StartsAreOver(c)
    <2>1. /\ line[c] = "starting" /\ spanOf' = spanOf /\ UNCHANGED vars /\ kind' = kind
          /\ line'[c] = IF kind[c] = "pipeline" /\ Tracing(c) THEN "entering" ELSE "running"
      BY <1>1, <1>8 DEF StartsAreOver, Goto, CallsTypeOK
    <2>2. spanOf[c] # NoSpan => Kept(spanOf[c]) /\ Tracing(c)
      BY <1>1, <2>1 DEF Kept, vars, Placed
    <2> QED
      BY <1>4, <2>1, <2>2
  <1>9. ASSUME NEW s \in Spans, StartRootSpan(c, s) \/ BuildSpan(c, s)
        PROVE  Settled(c)'
    <2>1. /\ spanOf'[c] = s /\ line'[c] \in {"starting", "building"}
          /\ stage[s] = "none" /\ stage'[s] # "none" /\ status' = status /\ data' = data
          /\ end' = end /\ job' = job
      BY <1>1, <1>9 DEF StartRootSpan, BuildSpan, IsOurTurn, IsTurn, Goto, CallsTypeOK,
                        StartTransaction, StartRoot, BuildChild, TypeOK
    <2>2. status[s] = "unset" /\ data[s] = {} /\ end[s] = 0 /\ job[s] = "none"
      BY <1>1, <2>1 DEF OwnInv, Fresh, Tree
    <2> QED
      BY <1>2, <2>1, <2>2 DEF Settled, Finished
  <1> QED
    BY <1>5, <1>6, <1>7, <1>8, <1>9

\* A call that has its span has not ended as long as our member is ahead.
LEMMA NotEnded ==
  ASSUME NEW c \in Calls, line[c] \notin {"over", "ending"}
  PROVE  ~Ended(c)
  BY DEF Ended

\* The work, and what is said of it before finish.
LEMMA SettledDuring ==
  ASSUME CallInv, Inv, OwnInv, NEW c \in Calls,
         \/ DescribePipeline(c) \/ DescribeCommand(c) \/ Abandon(c)
         \/ \E result \in Outcomes \ {"none"} : Return(c, result)
  PROVE  Settled(c)'
  <1> USE DEF treeVars, noteVars
  <1>1. /\ CallsTypeOK /\ CallsTypeOK' /\ Placed(c) /\ Placed(c)' /\ Settled(c) /\ TypeOK
    BY WorkStep DEF CallInv, OwnInv, Inv
  <1>2. /\ kind' = kind /\ spanOf' = spanOf /\ context' = context
        /\ line[c] \in {"entering", "returned", "running"} /\ ~Ended(c)
    BY DEF DescribePipeline, DescribeCommand, Abandon, Return, Ended
  <1>3. /\ Members(c)' = Members(c) /\ (Traced(c)' <=> Traced(c))
        /\ (OfRedis(c)' <=> OfRedis(c))
        /\ \A j : OurMember(c, j)' <=> OurMember(c, j)
    BY <1>1, <1>2, SameMembers
  <1> SUFFICES ASSUME spanOf[c] # NoSpan PROVE Settled(c)'
    BY <1>2 DEF Settled
  <1>4. /\ Traced(c) /\ spanOf[c] \in Spans
    BY <1>1, <1>2 DEF Placed, CallsTypeOK
  <1>5. ASSUME line'[c] \in {"running", "returned", "abandoned"}
               \/ (line'[c] = "ending" /\ at'[c] = Len(Members(c)))
        PROVE  ~Ended(c)'
    <2>1. PICK i \in DOMAIN Members(c) : OurMember(c, i)
      BY <1>4 DEF Traced
    <2>2. i \in 1 .. Len(Members(c))
      BY MembersFacts
    <2> QED
      BY <1>3, <1>5, <2>1, <2>2 DEF Ended
  <1>6. ~Finished(spanOf[c]) /\ stage[spanOf[c]] # "none" /\ job[spanOf[c]] = "none"
        /\ status[spanOf[c]] = "unset"
        /\ data[spanOf[c]] = IF Described(c) THEN {"command"} ELSE {}
    BY <1>1, <1>2 DEF Settled, StatusOf, DataOf
  <1>7. ASSUME ~Ended(c)', line'[c] \notin {"status", "data", "finish"},
               end' = end, stage' = stage, job' = job, status' = status,
               data'[spanOf[c]] = IF Described(c)' THEN {"command"} ELSE {}
        PROVE  Settled(c)'
    BY <1>2, <1>6, <1>7 DEF Settled, StatusOf, DataOf, Finished
  <1>8. CASE DescribePipeline(c) \/ DescribeCommand(c)
    <2>1. /\ end' = end /\ stage' = stage /\ job' = job /\ status' = status
          /\ data' = [data EXCEPT ![spanOf[c]] = @ \cup {"command"}]
      BY <1>8 DEF DescribePipeline, DescribeCommand, SetData
    <2>2. /\ ~Described(c)
          /\ Described(c)'
          /\ \/ line'[c] = "running"
             \/ line'[c] = "ending" /\ at'[c] = Len(Members(c))
      BY <1>1, <1>2, <1>8 DEF DescribePipeline, DescribeCommand, Goto, Placed, Described,
                              CallsTypeOK
    <2>3. data'[spanOf[c]] = {"command"}
      BY <1>1, <1>4, <1>6, <2>1, <2>2 DEF TypeOK
    <2>4. ~Ended(c)'
      BY <1>5, <2>2
    <2> QED
      BY <1>7, <2>1, <2>2, <2>3, <2>4
  <1>9. CASE Abandon(c)
    <2>1. UNCHANGED vars /\ line[c] = "running" /\ line'[c] = "abandoned"
      BY <1>1, <1>9 DEF Abandon, Goto, CallsTypeOK
    <2>2. Described(c)' <=> Described(c)
      BY <1>2, <2>1 DEF Described
    <2> QED
      BY <1>5, <1>6, <1>7, <2>1, <2>2 DEF vars
  <1>10. ASSUME NEW result, Return(c, result) PROVE Settled(c)'
    <2>1. /\ UNCHANGED vars /\ line[c] = "running" /\ at'[c] = Len(Members(c))
          /\ line'[c] = IF kind[c] = "command" /\ Tracing(c) THEN "returned" ELSE "ending"
      BY <1>1, <1>10 DEF Return, Goto, CallsTypeOK
    <2>2. Tracing(c)
      BY <1>4 DEF Traced
    <2>3. Described(c)' <=> Described(c)
      BY <1>2, <2>1, <2>2 DEF Described
    <2>4. ~Ended(c)' /\ line'[c] \in {"returned", "ending"}
      BY <1>5, <2>1
    <2> QED
      BY <1>6, <1>7, <2>1, <2>3, <2>4 DEF vars
  <1> QED
    BY <1>8, <1>9, <1>10

\* The way back: the span ends, marked, in our member's turn.
LEMMA SettledAfter ==
  ASSUME CallInv, Inv, OwnInv, NEW c \in Calls,
         \/ EndOther(c) \/ StartFinish(c) \/ SetFailure(c) \/ SetError(c) \/ EndSpan(c)
         \/ EndsAreOver(c)
  PROVE  Settled(c)'
  <1> USE DEF treeVars, noteVars
  <1>1. /\ CallsTypeOK /\ CallsTypeOK' /\ Placed(c) /\ Placed(c)' /\ Settled(c) /\ TypeOK
    BY EndsStep DEF CallInv, OwnInv, Inv
  <1>2. /\ kind' = kind /\ spanOf' = spanOf /\ context' = context /\ outcome' = outcome
        /\ line[c] \in {"ending", "status", "data", "finish"}
        /\ line'[c] \in {"ending", "status", "data", "finish", "over"}
    BY <1>1 DEF EndOther, StartFinish, SetFailure, SetError, EndSpan, EndsAreOver, IsEndTurn,
           Goto, CallsTypeOK
  <1>3. /\ Members(c)' = Members(c)
        /\ \A j : OurMember(c, j)' <=> OurMember(c, j)
        /\ DOMAIN Members(c) = 1 .. Len(Members(c)) /\ Len(Members(c)) \in Nat
        /\ \A i, j \in DOMAIN Members(c) : OurMember(c, i) /\ OurMember(c, j) => i = j
    BY <1>1, <1>2, SameMembers, MembersFacts
  <1>4. Described(c)' <=> Described(c)
    BY <1>2 DEF Described
  <1> SUFFICES ASSUME spanOf[c] # NoSpan PROVE Settled(c)'
    BY <1>2 DEF Settled
  <1>5. spanOf[c] \in Spans
    BY <1>1 DEF CallsTypeOK
  <1>6. CASE EndOther(c)
    <2>1. /\ UNCHANGED vars /\ line[c] = "ending" /\ line'[c] = "ending"
          /\ at[c] \in 1 .. Len(Members(c)) /\ at'[c] = at[c] - 1
      BY <1>1, <1>3, <1>6 DEF EndOther, IsEndTurn, Placed, CallsTypeOK
    <2>2. ~OurMember(c, at[c])
      BY <1>3, <1>6, <2>1, FoundIsOwn DEF EndOther
    <2>3. Ended(c)' <=> Ended(c)
      <3>1. \A i : i \in 1 .. at[c] <=> i \in 1 .. at[c] - 1 \/ i = at[c]
        BY <1>3, <2>1
      <3> QED
        BY <1>3, <2>1, <2>2, <3>1 DEF Ended
    <2>4. StatusOf(c)' = StatusOf(c) /\ DataOf(c)' = DataOf(c)
      BY <1>2, <1>4, <2>1, <2>3 DEF StatusOf, DataOf
    <2> QED
      BY <1>1, <1>2, <2>1, <2>3, <2>4 DEF Settled, vars, Finished
  <1>7. CASE StartFinish(c)
    <2>1. /\ UNCHANGED vars /\ line[c] = "ending" /\ OurMember(c, at[c])
          /\ at[c] \in 1 .. Len(Members(c))
          /\ line'[c] = IF outcome[c] = "failed" THEN "status" ELSE "finish"
      BY <1>1, <1>3, <1>7 DEF StartFinish, IsEndTurn, Placed, CallsTypeOK, Goto, Fails
    <2>2. ~Ended(c) /\ ~Ended(c)'
      <3>1. at[c] \in 1 .. at[c]
        BY <1>3, <2>1
      <3> QED
        BY <2>1, <3>1 DEF Ended
    <2>3. StatusOf(c)' = StatusOf(c) /\ DataOf(c)' = DataOf(c)
      BY <1>2, <1>4, <2>1, <2>2 DEF StatusOf, DataOf
    <2> QED
      BY <1>1, <1>2, <2>1, <2>2, <2>3 DEF Settled, vars, Finished
  <1>8. CASE SetFailure(c)
    <2>1. /\ line[c] = "status" /\ line'[c] = "data" /\ SetStatus(spanOf[c], "internal_error")
      BY <1>1, <1>8, OwnTurn DEF SetFailure, Goto, CallsTypeOK
    <2>2. ~Ended(c) /\ ~Ended(c)' /\ outcome[c] = "failed"
      BY <1>1, <2>1 DEF Ended, Settled
    <2>3. StatusOf(c)' = "internal_error" /\ DataOf(c)' = DataOf(c)
      BY <1>2, <1>4, <2>1, <2>2 DEF StatusOf, DataOf
    <2>4. /\ status'[spanOf[c]] = "internal_error"
          /\ data' = data /\ end' = end /\ stage' = stage /\ job' = job
      BY <1>1, <1>5, <2>1 DEF SetStatus, TypeOK
    <2> QED
      BY <1>1, <1>2, <2>1, <2>2, <2>3, <2>4 DEF Settled, Finished
  <1>9. CASE SetError(c)
    <2>1. /\ line[c] = "data" /\ line'[c] = "finish" /\ SetData(spanOf[c], "error")
      BY <1>1, <1>9, OwnTurn DEF SetError, Goto, CallsTypeOK
    <2>2. ~Ended(c) /\ ~Ended(c)' /\ outcome[c] = "failed"
      BY <1>1, <2>1 DEF Ended, Settled
    <2>3. StatusOf(c)' = StatusOf(c) /\ DataOf(c)' = DataOf(c) \cup {"error"}
      BY <1>2, <1>4, <2>1, <2>2 DEF StatusOf, DataOf
    <2>4. /\ data'[spanOf[c]] = data[spanOf[c]] \cup {"error"}
          /\ status' = status /\ end' = end /\ stage' = stage /\ job' = job
      BY <1>1, <1>5, <2>1 DEF SetData, TypeOK
    <2> QED
      BY <1>1, <1>2, <2>1, <2>2, <2>3, <2>4 DEF Settled, Finished
  <1>10. CASE EndSpan(c)
    <2>1. /\ line[c] = "finish" /\ line'[c] = "ending" /\ at'[c] = at[c] - 1
          /\ Found(c) = spanOf[c] /\ at[c] \in 1 .. Len(Members(c)) /\ OurMember(c, at[c])
      BY <1>1, <1>3, <1>10, OwnTurn DEF EndSpan, Goto, CallsTypeOK
    <2>2. ~Ended(c) /\ ~Finished(spanOf[c])
      BY <1>1, <2>1 DEF Ended, Settled
    <2>3. Ended(c)'
      <3>1. \A i \in 1 .. at[c] - 1 : i \in DOMAIN Members(c) /\ i # at[c]
        BY <1>3, <2>1
      <3>2. \A i \in 1 .. at[c] - 1 : ~OurMember(c, i)
        BY <1>3, <2>1, <3>1
      <3> QED
        BY <1>3, <2>1, <3>2 DEF Ended
    <2>4. FinishSpan(spanOf[c])
      BY <1>10, <2>1, <2>2 DEF EndSpan
    <2>5. /\ end'[spanOf[c]] # 0 /\ stage' = stage /\ job' = job
          /\ status' = status /\ data' = data
      BY <1>1, <1>5, <2>4 DEF FinishSpan, Finish, Tick, TypeOK
    <2>6. StatusOf(c)' = StatusOf(c) /\ DataOf(c)' = DataOf(c)
      BY <1>2, <1>4, <2>1, <2>2, <2>3 DEF StatusOf, DataOf
    <2> QED
      BY <1>1, <1>2, <2>1, <2>3, <2>5, <2>6 DEF Settled, Finished
  <1>11. CASE EndsAreOver(c)
    <2>1. UNCHANGED vars /\ line[c] = "ending" /\ at[c] = 0 /\ line'[c] = "over"
      BY <1>1, <1>11 DEF EndsAreOver, Goto, CallsTypeOK
    <2>2. Ended(c) /\ Ended(c)'
      BY <2>1 DEF Ended
    <2>3. StatusOf(c)' = StatusOf(c) /\ DataOf(c)' = DataOf(c)
      BY <1>2, <1>4, <2>1, <2>2 DEF StatusOf, DataOf
    <2> QED
      BY <1>1, <1>2, <2>1, <2>2, <2>3 DEF Settled, vars, Finished
  <1> QED
    BY <1>6, <1>7, <1>8, <1>9, <1>10, <1>11

LEMMA OwnInvStep ==
  CallInv /\ Inv /\ OwnInv /\ [InstrumentNext]_allVars => OwnInv'
  <1> SUFFICES ASSUME CallInv, Inv, OwnInv, [InstrumentNext]_allVars PROVE OwnInv'
    OBVIOUS
  <1>1. Fresh' /\ TypeOK
    BY FreshStays, TraceStep DEF OwnInv, Inv
  <1>2. ASSUME UNCHANGED callVars, \A d \in Calls : spanOf[d] # NoSpan => Kept(spanOf[d])
        PROVE  OwnInv'
    <2>1. \A d \in Calls : Same(d)
      BY <1>2 DEF callVars, Same
    <2>2. \A d \in Calls : Settled(d)'
      BY <1>2, <2>1, KeptStays DEF OwnInv
    <2>3. Apart'
      BY <1>2 DEF OwnInv, Apart, callVars
    <2> QED
      BY <1>1, <2>2, <2>3 DEF OwnInv
  <1>3. CASE UNCHANGED allVars
    BY <1>2, <1>3 DEF allVars, vars, treeVars, noteVars, Kept
  <1>4. ASSUME NEW s \in Spans,
               StartSpan(s) \/ PublishSpan(s) \/ UseSpan(s) \/ RunJob(s) \/ SendReport(s)
        PROVE  OwnInv'
    <2>1. UNCHANGED callVars
      BY <1>4 DEF StartSpan, PublishSpan, UseSpan, RunJob, SendReport
    <2>2. ASSUME NEW d \in Calls, spanOf[d] # NoSpan PROVE Kept(spanOf[d])
      <3>1. spanOf[d] \in Spans /\ Settled(d)
        BY <2>2 DEF CallInv, CallsTypeOK, OwnInv
      <3> QED
        BY <1>1, <1>4, <2>2, <3>1, ApplicationKeeps
    <2> QED
      BY <1>2, <2>1, <2>2
  <1>5. ASSUME NEW c \in Calls, ActionOf(c) PROVE OwnInv'
    <2>1. Settled(c)'
      BY <1>5, SettledBefore, SettledDuring, SettledAfter DEF ActionOf, CallStep
    <2>2. ASSUME NEW d \in Calls, d # c PROVE Settled(d)'
      <3>1. Same(d) /\ Settled(d)
        BY <1>5, <2>2, OthersStay DEF CallInv, OwnInv
      <3>2. spanOf[d] # NoSpan => Kept(spanOf[d])
        BY <1>1, <1>5, <2>2, CallKeepsOthers
      <3> QED
        BY <3>1, <3>2, KeptStays
    <2>3. Apart'
      BY <1>5, ApartStays
    <2> QED
      BY <1>1, <2>1, <2>2, <2>3 DEF OwnInv
  <1> QED
    BY <1>3, <1>4, <1>5 DEF InstrumentNext, ActionOf

LEMMA OwnInvariance == InstrumentSpec => [](CallInv /\ Inv /\ OwnInv)
  <1>1. InstrumentInit => OwnInv
    BY DEF InstrumentInit, Init, OwnInv, Apart, Fresh, Settled
  <1> QED
    BY <1>1, OwnInvStep, CallInvariance, InstrumentIsTrace, Invariance, PTL
       DEF InstrumentSpec

\* A traced call has one span, its own, from the start to the end of the driver's
\* work, and only its own end finishes it (tracer.go:90-118, hook.go:69-96).
THEOREM SpanOfCall == InstrumentSpec => []OneSpanPerCall
  <1>1. CallInv /\ OwnInv => OneSpanPerCall
    <2> SUFFICES ASSUME CallInv, OwnInv PROVE OneSpanPerCall
      OBVIOUS
    <2>1. ASSUME NEW c \in Calls, line[c] \in {"running", "over", "abandoned"}
          PROVE  spanOf[c] # NoSpan <=> Traced(c)
      BY <2>1 DEF CallInv, Placed
    <2> QED
      BY <2>1 DEF OwnInv, Apart, Settled, OneSpanPerCall
  <1> QED
    BY <1>1, OwnInvariance, PTL

-----------------------------------------------------------------------------
\* A report says of a call's span what the span says itself.
Told ==
  \A r \in Spans : Reports(r) # <<>> =>
    /\ r \in CallSpans => Reports(r)[1].status = status[r]
    /\ \A m \in Reports(r)[1].spans :
         m.span \in CallSpans => m.status = status[m.span] /\ m.data = data[m.span]

\* A span of a call that has finished is never marked again.
LEMMA FinishedIsKept ==
  ASSUME CallInv, Inv, OwnInv, [InstrumentNext]_allVars,
         NEW t \in Spans, Finished(t), t \in CallSpans'
  PROVE  t \in CallSpans /\ status'[t] = status[t] /\ data'[t] = data[t]
  <1>1. stage[t] # "none" /\ TypeOK
    BY DEF Inv, Timing, Finished
  <1>2. CASE UNCHANGED allVars
    BY <1>2 DEF allVars, callVars, vars, noteVars, CallSpans
  <1>3. ASSUME NEW s \in Spans,
               StartSpan(s) \/ PublishSpan(s) \/ UseSpan(s) \/ RunJob(s) \/ SendReport(s)
        PROVE  t \in CallSpans /\ status'[t] = status[t] /\ data'[t] = data[t]
    <2>1. t \in CallSpans
      BY <1>3 DEF StartSpan, PublishSpan, UseSpan, RunJob, SendReport, callVars, CallSpans
    <2>2. PICK d \in Calls : t = spanOf[d] /\ spanOf[d] # NoSpan
      BY <2>1 DEF CallSpans
    <2>3. Kept(t)
      BY <1>1, <1>3, <2>2, ApplicationKeeps DEF OwnInv
    <2> QED
      BY <2>1, <2>3 DEF Kept
  <1>4. ASSUME NEW c \in Calls, ActionOf(c)
        PROVE  t \in CallSpans /\ status'[t] = status[t] /\ data'[t] = data[t]
    <2>1. t \in CallSpans
      <3>1. \A d \in Calls \ {c} : spanOf'[d] = spanOf[d]
        BY <1>4, OthersStay DEF CallInv, Same
      <3>2. CASE spanOf'[c] = spanOf[c]
        BY <3>1, <3>2 DEF CallSpans
      <3>3. ASSUME NEW s \in Spans, StartRootSpan(c, s) \/ BuildSpan(c, s)
            PROVE  spanOf'[c] = s /\ stage[s] = "none"
        BY <3>3 DEF StartRootSpan, BuildSpan, StartTransaction, StartRoot, BuildChild,
                    CallInv, CallsTypeOK
      <3>4. ASSUME ~\E s \in Spans : StartRootSpan(c, s) \/ BuildSpan(c, s)
            PROVE  spanOf' = spanOf
        BY <1>4, <3>4 DEF ActionOf, Begin, BeginWithin, Enter, CallStep, StartOther,
             RegisterSpan, StartsAreOver, DescribePipeline, DescribeCommand, EndOther,
             StartFinish, SetFailure, SetError, EndSpan, EndsAreOver, Return, Abandon
      <3>5. spanOf'[c] = t => spanOf'[c] = spanOf[c]
        BY <1>1, <3>3, <3>4
      <3>6. PICK d \in Calls : t = spanOf'[d] /\ t # NoSpan
        BY DEF CallSpans
      <3> QED
        BY <3>1, <3>5, <3>6 DEF CallSpans
    <2>2. PICK d \in Calls : t = spanOf[d] /\ spanOf[d] # NoSpan
      BY <2>1 DEF CallSpans
    <2>3. CASE d # c
      BY <1>1, <1>4, <2>1, <2>2, <2>3, CallKeepsOthers DEF Kept
    <2>4. CASE d = c
      <3>1. Ended(c)
        BY <2>2, <2>4 DEF OwnInv, Settled
      <3>2. line[c] \in {"over", "ending"}
        BY <3>1 DEF Ended
      <3>3. status' = status /\ data' = data
        BY <3>2, SpanSteps, <1>4
           DEF vars, noteVars, treeVars, StartRootSpan, BuildSpan, IsOurTurn, IsTurn,
               RegisterSpan, DescribePipeline, DescribeCommand, SetFailure, SetError, EndSpan
      <3> QED
        BY <2>1, <3>3
    <2> QED
      BY <2>3, <2>4
  <1> QED
    BY <1>2, <1>3, <1>4 DEF InstrumentNext, ActionOf

LEMMA ReportedHaveFinished ==
  ASSUME Inv, NEW r \in Spans, Reports(r) # <<>>
  PROVE  /\ Finished(r)
         /\ \A m \in Reports(r)[1].spans : m.span \in Spans /\ Finished(m.span)
  <1>1. Finished(r) /\ Accurate(r, Reports(r)[1])
    BY OneReport, ReportIsAccurate
  <1>2. \A m \in Reports(r)[1].spans : m.span \in {x.span : x \in Reports(r)[1].spans}
    OBVIOUS
  <1> QED
    BY <1>1, <1>2 DEF Accurate

LEMMA ToldStays ==
  CallInv /\ Inv /\ OwnInv /\ Told /\ [InstrumentNext]_allVars => Told'
  <1> SUFFICES ASSUME CallInv, Inv, OwnInv, Told, [InstrumentNext]_allVars,
                      NEW r \in Spans, Reports(r)' # <<>>
               PROVE  /\ r \in CallSpans' => (Reports(r)[1])'.status = status'[r]
                      /\ \A m \in (Reports(r)[1])'.spans : m.span \in CallSpans' =>
                           m.status = status'[m.span] /\ m.data = data'[m.span]
    BY DEF Told
  <1>1. [Next]_vars
    BY TraceStep
  <1>2. CASE Finished(r)
    <2>1. Reports(r)' = Reports(r)
      BY <1>1, <1>2, ReportStays
    <2>2. PICK p : p = Reports(r)[1]
      OBVIOUS
    <2>3. (Reports(r)[1])' = p
      BY <2>1, <2>2
    <2>4. \A m \in p.spans : m.span \in Spans /\ Finished(m.span)
      BY <2>1, <2>2, ReportedHaveFinished
    <2>5. /\ r \in CallSpans => p.status = status[r]
          /\ \A m \in p.spans :
               m.span \in CallSpans => m.status = status[m.span] /\ m.data = data[m.span]
      BY <2>1, <2>2 DEF Told
    <2>6. r \in CallSpans' => p.status = status'[r]
      BY <1>2, <2>5, FinishedIsKept
    <2>7. ASSUME NEW m \in p.spans, m.span \in CallSpans'
          PROVE  m.status = status'[m.span] /\ m.data = data'[m.span]
      <3>1. PICK t \in Spans : t = m.span /\ Finished(t)
        BY <2>4
      <3>2. t \in CallSpans /\ status'[t] = status[t] /\ data'[t] = data[t]
        BY <2>7, <3>1, FinishedIsKept
      <3> QED
        BY <2>5, <3>1, <3>2
    <2> QED
      BY <2>3, <2>6, <2>7
  <1>3. CASE ~Finished(r)
    <2>1. Finish(r) /\ Reports(r)' = <<Payload(r, clock')>>
      BY <1>1, <1>3, NewReport
    <2>2. status' = status /\ data' = data
      BY <2>1 DEF Finish, noteVars
    <2>3. PICK p : p = Payload(r, clock')
      OBVIOUS
    <2>4. (Reports(r)[1])' = p
      BY <2>1, <2>3
    <2>5. p.status = status[r] /\ p.spans = {SpanPayload(r, t) : t \in Included(r)}
      BY <2>3 DEF Payload
    <2>6. \A m \in p.spans : m.status = status[m.span] /\ m.data = data[m.span]
      BY <2>5 DEF SpanPayload
    <2> QED
      BY <2>2, <2>4, <2>5, <2>6
  <1> QED
    BY <1>2, <1>3

\* What is reported of a call's span is how the call ended (tracer.go:133-145,
\* hook.go:110-116).
THEOREM OutcomeIsTold == InstrumentSpec => []ReportTellsOutcome
  <1>1. InstrumentInit => Told
    BY DEF InstrumentInit, Init, Told, Reports
  <1>2. CallInv /\ Inv /\ OwnInv /\ Told => ReportTellsOutcome
    <2> SUFFICES ASSUME CallInv, Inv, OwnInv, Told,
                        NEW r \in Spans, Reports(r) # <<>>, NEW c \in Calls
                 PROVE
        /\ \A m \in Reports(r)[1].spans : m.span = spanOf[c] =>
             /\ m.status = IF outcome[c] = "failed" THEN "internal_error" ELSE "unset"
             /\ m.data = (IF outcome[c] = "failed" THEN {"error"} ELSE {})
                           \cup (IF OfRedis(c) THEN {"command"} ELSE {})
        /\ r = spanOf[c] => Reports(r)[1].status =
             IF outcome[c] = "failed" THEN "internal_error" ELSE "unset"
      BY DEF ReportTellsOutcome
    <2>1. ASSUME spanOf[c] \in Spans, Finished(spanOf[c])
          PROVE  /\ spanOf[c] \in CallSpans
                 /\ status[spanOf[c]] =
                      IF outcome[c] = "failed" THEN "internal_error" ELSE "unset"
                 /\ data[spanOf[c]] = (IF outcome[c] = "failed" THEN {"error"} ELSE {})
                                        \cup (IF OfRedis(c) THEN {"command"} ELSE {})
      <3>1. spanOf[c] # NoSpan
        BY <2>1, TraceAssumption DEF TraceAssumption
      <3>2. Ended(c) /\ status[spanOf[c]] = StatusOf(c) /\ data[spanOf[c]] = DataOf(c)
        BY <2>1, <3>1 DEF OwnInv, Settled
      <3>3. Described(c) <=> OfRedis(c)
        BY <3>2 DEF Ended, Described, OfRedis
      <3> QED
        BY <3>1, <3>2, <3>3 DEF StatusOf, DataOf, CallSpans
    <2>2. Finished(r) /\ \A m \in Reports(r)[1].spans : m.span \in Spans /\ Finished(m.span)
      BY ReportedHaveFinished
    <2> QED
      BY <2>1, <2>2 DEF Told
  <1> QED
    BY <1>1, <1>2, ToldStays, OwnInvariance, PTL DEF InstrumentSpec
=============================================================================
