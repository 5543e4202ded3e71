----------------------------- MODULE HubProofs -----------------------------
(***************************************************************************)
(* Proofs about Hub, for any number of goroutines and scopes.              *)
(***************************************************************************)
EXTENDS HubProperties, SequenceTheorems, TLAPS

\* Scopes in use have been allocated, and a context holds the request's hub or the
\* goroutine's own clone.
Heap ==
  /\ Base \in 1..scopes
  /\ current[Stored] = Base /\ home[Stored] = Base
  /\ \A g \in Goroutines :
       /\ context[g] # Stored => context[g] = g /\ hub[g] = g
       /\ \A i \in DOMAIN open[g] : open[g][i].original \in 1..scopes
       /\ draft[g].todo # {} => draft[g].scope # 0

\* A note stays on the request's scope only if it was made there.
Inv == TypeOK /\ Heap /\ RequestScopeIsClean

LEMMA NoDraftType == NoDraft \in Drafts
  BY DEF NoDraft, Drafts, NothingNoted

LEMMA RoomFact ==
  ASSUME NEW kind
  PROVE  Room(kind) \in Nat /\ Room(kind) # 0
  BY HubAssumption DEF Room

LEMMA TypeInit == HubInit => Inv
  <1> SUFFICES ASSUME HubInit PROVE Inv
    OBVIOUS
  <1> USE HubAssumption
  <1>1. Base \in Scopes
    BY DEF Base, Scopes
  <1>2. /\ note \in [Scopes -> [Kinds -> Seq(Notes)]]
        /\ \A s \in Scopes, k \in Kinds : note[s][k] = <<>> /\ Len(note[s][k]) <= Room(k)
    <2>1. \A s \in Scopes, k \in Kinds : note[s][k] = <<>>
      BY DEF HubInit, NothingNoted
    <2>2. note \in [Scopes -> [Kinds -> Seq(Notes)]]
      BY DEF HubInit, NothingNoted
    <2> QED
      BY <2>1, <2>2, RoomFact
  <1>3. draft \in [Goroutines -> Drafts]
    BY NoDraftType DEF HubInit
  <1>4. current \in [Hubs -> 0..scopes] /\ home \in [Hubs -> 0..scopes]
    BY DEF HubInit, Base
  <1>5. open \in [Goroutines -> Seq([original : Scopes, clone : Scopes])]
    BY DEF HubInit
  <1>6. context \in [Goroutines -> Hubs] /\ hub \in [Goroutines -> Goroutines \cup {"none"}]
    BY DEF HubInit, Hubs
  <1>7. TypeOK
    BY <1>1, <1>2, <1>3, <1>4, <1>5, <1>6 DEF HubInit, TypeOK
  <1>8. Stored \in Hubs
    BY DEF Hubs
  <1>9. Heap
    BY <1>8 DEF HubInit, Heap, Base, NoDraft
  <1>10. RequestScopeIsClean
    BY <1>1, <1>2 DEF RequestScopeIsClean
  <1> QED
    BY <1>7, <1>9, <1>10 DEF Inv

\* The last element of a sequence, and the sequence without it.
LEMMA Butlast ==
  ASSUME NEW S, NEW seq \in Seq(S), seq # <<>>
  PROVE  /\ Len(seq) \in DOMAIN seq /\ seq[Len(seq)] \in S
         /\ SubSeq(seq, 1, Len(seq) - 1) \in Seq(S)
         /\ Len(SubSeq(seq, 1, Len(seq) - 1)) = Len(seq) - 1
         /\ \A i \in DOMAIN SubSeq(seq, 1, Len(seq) - 1) :
              i \in DOMAIN seq /\ SubSeq(seq, 1, Len(seq) - 1)[i] = seq[i]
  <1>1. Len(seq) \in Nat /\ DOMAIN seq = 1..Len(seq)
    BY LenProperties
  <1>2. Len(seq) # 0
    BY EmptySeq
  <1>3. Len(seq) \in DOMAIN seq
    BY <1>1, <1>2
  <1>4. seq[Len(seq)] \in S
    BY <1>3, ElementOfSeq, <1>1
  <1>5. \A i \in 1..(Len(seq) - 1) : i \in 1..Len(seq)
    BY <1>1, <1>2
  <1>6. SubSeq(seq, 1, Len(seq) - 1) = [i \in 1..(Len(seq) - 1) |-> seq[i]]
    BY <1>1, <1>2
  <1>7. SubSeq(seq, 1, Len(seq) - 1) \in Seq(S)
    BY <1>1, <1>2, <1>6, <1>5
  <1>8. Len(SubSeq(seq, 1, Len(seq) - 1)) = Len(seq) - 1
    BY <1>1, <1>2
  <1> QED
    BY <1>1, <1>3, <1>4, <1>5, <1>6, <1>7, <1>8

\* A new scope is none of those in use.
LEMMA Fresh ==
  ASSUME Inv, NEW from \in Scopes, NEW kinds, Allocate(from, kinds)
  PROVE  /\ scopes' \in Scopes
         /\ scopes' = scopes + 1
         /\ scopes' # Base
         /\ note' \in [Scopes -> [Kinds -> Seq(Notes)]]
         /\ \A s \in Scopes, k \in Kinds : Len(note'[s][k]) <= Room(k)
         /\ \A s \in Scopes : s # scopes' => note'[s] = note[s]
         /\ \A k \in Kinds : k \in kinds => note'[scopes'][k] = note[from][k]
         /\ captured' = captured
         /\ RequestScopeIsClean'
  <1> USE HubAssumption DEF Inv, TypeOK
  <1>1. scopes' \in Scopes /\ scopes' = scopes + 1 /\ scopes' # Base
    BY DEF Allocate, Scopes, Heap, Base
  <1> DEFINE copy == [k \in Kinds |-> IF k \in kinds THEN note[from][k] ELSE <<>>]
  <1>2. copy \in [Kinds -> Seq(Notes)] /\ \A k \in Kinds : Len(copy[k]) <= Room(k)
    <2>1. \A k \in Kinds : copy[k] = note[from][k] \/ copy[k] = <<>>
      OBVIOUS
    <2>2. copy \in [Kinds -> Seq(Notes)]
      OBVIOUS
    <2> QED
      BY <2>1, <2>2, RoomFact
  <1>3. note' = [note EXCEPT ![scopes'] = copy]
    BY DEF Allocate
  <1>4. /\ note' \in [Scopes -> [Kinds -> Seq(Notes)]]
        /\ \A s \in Scopes, k \in Kinds : Len(note'[s][k]) <= Room(k)
    <2>1. /\ \A s \in Scopes : note'[s] = copy \/ note'[s] = note[s]
          /\ DOMAIN note' = Scopes
      BY <1>1, <1>3
    <2> HIDE DEF copy
    <2>2. note' \in [Scopes -> [Kinds -> Seq(Notes)]]
      BY <1>1, <1>2, <1>3
    <2> QED
      BY <1>2, <2>1, <2>2
  <1>5. \A s \in Scopes : s # scopes' => note'[s] = note[s]
    BY <1>3
  <1>6. \A k \in Kinds : k \in kinds => note'[scopes'][k] = note[from][k]
    BY <1>1, <1>3
  <1>7. Base \in Scopes
    BY DEF Base, Scopes
  <1>8. RequestScopeIsClean'
    BY <1>1, <1>5, <1>7 DEF RequestScopeIsClean, Base
  <1>9. captured' = captured
    BY DEF Allocate
  <1> QED
    BY <1>1, <1>4, <1>5, <1>6, <1>8, <1>9

\* The scope that a hub in use points at.
LEMMA Pointed ==
  ASSUME Inv, NEW g \in Goroutines, hub[g] # "none"
  PROVE  /\ hub[g] \in Goroutines
         /\ hub[g] \in Hubs
         /\ hub[g] # Stored
         /\ current[hub[g]] \in 1..scopes
         /\ current[hub[g]] \in Scopes
  <1> USE HubAssumption DEF Inv, TypeOK
  <1>1. hub[g] \in Goroutines /\ hub[g] \in Hubs /\ hub[g] # Stored
    BY DEF Hubs
  <1>2. current[hub[g]] \in 0..scopes /\ current[hub[g]] # 0
    BY <1>1
  <1> QED
    BY <1>1, <1>2 DEF Scopes

LEMMA GetHubStep ==
  ASSUME Inv, NEW g \in Goroutines, hub[g] = "none", GetHub(g)
  PROVE  Inv'
  <1> USE HubAssumption DEF Inv, TypeOK
  <1>0. note' = note /\ captured' = captured /\ scopes' = scopes
        /\ context' = context /\ open' = open /\ draft' = draft /\ made' = made
    BY DEF GetHub, scopeVars
  <1>1. g \in Hubs /\ g # Stored /\ Stored \in Hubs
    BY DEF Hubs
  <1>2. context[g] = Stored
    BY DEF GetHub, Heap
  <1>3. current' = [current EXCEPT ![g] = Base]
    BY <1>2 DEF GetHub, Heap
  <1>4. home' = [home EXCEPT ![g] = Base]
    BY <1>1, <1>3 DEF GetHub
  <1>5. hub' = [hub EXCEPT ![g] = g]
    BY DEF GetHub
  <1>6. current' \in [Hubs -> 0..scopes] /\ home' \in [Hubs -> 0..scopes]
    BY <1>1, <1>3, <1>4 DEF Heap, Base
  <1>7. hub' \in [Goroutines -> Goroutines \cup {"none"}]
    BY <1>5
  <1>8. \A t \in Goroutines : hub'[t] # "none" => current'[hub'[t]] # 0
    <2> SUFFICES ASSUME NEW t \in Goroutines, hub'[t] # "none"
                 PROVE  current'[hub'[t]] # 0
      OBVIOUS
    <2>1. CASE t = g
      BY <2>1, <1>1, <1>3, <1>5 DEF Base
    <2>2. CASE t # g
      <3>1. hub'[t] = hub[t] /\ hub[t] \in Hubs
        BY <2>2, <1>5, Pointed
      <3> QED
        BY <3>1, <1>3 DEF Base
    <2> QED
      BY <2>1, <2>2
  <1>9. TypeOK'
    BY <1>0, <1>6, <1>7, <1>8
  <1>10. Heap'
    BY <1>0, <1>1, <1>3, <1>4, <1>5 DEF Heap
  <1> QED
    BY <1>0, <1>9, <1>10 DEF RequestScopeIsClean

LEMMA ShareStep ==
  ASSUME Inv, NEW g \in Goroutines, hub[g] = "none", NEW from \in Goroutines,
         ShareHub(g, from)
  PROVE  Inv'
  <1> USE HubAssumption DEF Inv, TypeOK
  <1>0. /\ note' = note /\ captured' = captured /\ scopes' = scopes
        /\ context' = context /\ open' = open /\ draft' = draft /\ made' = made
        /\ current' = current /\ home' = home
        /\ hub' = [hub EXCEPT ![g] = hub[from]]
        /\ hub[g] = "none" /\ hub[from] # "none"
    BY DEF ShareHub, scopeVars
  <1>1. hub[from] \in Goroutines
    BY <1>0, Pointed
  <1>2. TypeOK'
    BY <1>0, <1>1
  <1>3. Heap'
    BY <1>0 DEF Heap
  <1> QED
    BY <1>0, <1>2, <1>3 DEF RequestScopeIsClean

LEMMA CloneStep ==
  ASSUME Inv, NEW g \in Goroutines, hub[g] = "none", NEW from \in Goroutines,
         NEW way \in Ways, CloneHub(g, from, way)
  PROVE  Inv'
  <1> USE HubAssumption
  <1>0. /\ Allocate(current[hub[from]], Inherited(way))
        /\ open' = open /\ draft' = draft /\ made' = made
        /\ hub' = [hub EXCEPT ![g] = g]
        /\ current' = [current EXCEPT ![g] = scopes']
        /\ home' = [home EXCEPT ![g] = scopes']
        /\ context' = [context EXCEPT ![g] = g]
        /\ hub[g] = "none" /\ hub[from] # "none"
    BY DEF CloneHub
  <1>1. current[hub[from]] \in Scopes
    BY <1>0, Pointed
  <1>2. /\ scopes' \in Scopes /\ scopes' = scopes + 1
        /\ note' \in [Scopes -> [Kinds -> Seq(Notes)]]
        /\ \A s \in Scopes, k \in Kinds : Len(note'[s][k]) <= Room(k)
        /\ captured' = captured /\ RequestScopeIsClean'
    BY <1>0, <1>1, Fresh
  <1> USE DEF Inv, TypeOK
  <1>3. g \in Hubs /\ g # Stored /\ Stored \in Hubs
    BY DEF Hubs
  <1>4. scopes' \in 1..scopes' /\ scopes \in Nat /\ scopes' # 0
    BY <1>2 DEF Scopes
  <1> HIDE DEF Inv, TypeOK
  <1>5. current' \in [Hubs -> 0..scopes'] /\ home' \in [Hubs -> 0..scopes']
    <2>1. current \in [Hubs -> 0..scopes] /\ home \in [Hubs -> 0..scopes]
      BY DEF Inv, TypeOK
    <2>2. scopes' \in 0..scopes' /\ 0..scopes \subseteq 0..scopes'
      BY <1>2, <1>4
    <2> QED
      BY <1>0, <1>3, <2>1, <2>2
  <1> USE DEF Inv, TypeOK
  <1>6. \A t \in Goroutines : hub'[t] # "none" => current'[hub'[t]] # 0
    <2> SUFFICES ASSUME NEW t \in Goroutines, hub'[t] # "none"
                 PROVE  current'[hub'[t]] # 0
      OBVIOUS
    <2>1. CASE t = g
      BY <2>1, <1>0, <1>3, <1>4
    <2>2. CASE t # g
      <3>1. hub'[t] = hub[t] /\ hub[t] \in Hubs
        BY <2>2, <1>0, Pointed
      <3> QED
        BY <3>1, <1>0, <1>4
    <2> QED
      BY <2>1, <2>2
  <1>7. TypeOK'
    BY <1>0, <1>2, <1>3, <1>5, <1>6
  <1> HIDE DEF Inv, TypeOK
  <1>8. Heap'
    <2>1. Heap /\ current \in [Hubs -> 0..scopes] /\ home \in [Hubs -> 0..scopes]
          /\ hub \in [Goroutines -> Goroutines \cup {"none"}]
          /\ context \in [Goroutines -> Hubs]
      BY DEF Inv, TypeOK
    <2>2. current'[Stored] = Base /\ home'[Stored] = Base /\ Base \in 1..scopes'
      BY <1>0, <1>2, <1>3, <1>4, <2>1 DEF Heap
    <2>3. \A t \in Goroutines : context'[t] # Stored => context'[t] = t /\ hub'[t] = t
      BY <1>0, <2>1 DEF Heap
    <2>4. \A t \in Goroutines : \A i \in DOMAIN open'[t] :
            open'[t][i].original \in 1..scopes'
      BY <1>0, <1>2, <1>4, <2>1 DEF Heap
    <2> QED
      BY <1>0, <2>1, <2>2, <2>3, <2>4 DEF Heap
  <1> QED
    BY <1>2, <1>7, <1>8 DEF Inv

LEMMA WithScopeStep ==
  ASSUME Inv, NEW g \in Goroutines, WithScope(g)
  PROVE  Inv'
  <1> USE HubAssumption
  <1>0. /\ hub[g] # "none"
        /\ Allocate(current[hub[g]], Kinds)
        /\ current' = [current EXCEPT ![hub[g]] = scopes']
        /\ open' = [open EXCEPT ![g] =
                Append(@, [original |-> current[hub[g]], clone |-> scopes'])]
        /\ hub' = hub /\ context' = context /\ home' = home
        /\ draft' = draft /\ made' = made
    BY DEF WithScope, Idle
  <1>1. /\ current[hub[g]] \in Scopes /\ hub[g] \in Hubs /\ hub[g] # Stored
        /\ current[hub[g]] \in 1..scopes
    BY <1>0, Pointed
  <1>2. /\ scopes' \in Scopes /\ scopes' = scopes + 1
        /\ note' \in [Scopes -> [Kinds -> Seq(Notes)]]
        /\ \A s \in Scopes, k \in Kinds : Len(note'[s][k]) <= Room(k)
        /\ captured' = captured /\ RequestScopeIsClean'
    BY <1>0, <1>1, Fresh
  <1> USE DEF Inv, TypeOK
  <1>3. scopes' \in 1..scopes' /\ scopes \in Nat /\ scopes' # 0
    BY <1>2 DEF Scopes
  <1>4. current' \in [Hubs -> 0..scopes'] /\ home' \in [Hubs -> 0..scopes']
    BY <1>0, <1>2, <1>1, <1>3
  <1>5. \A t \in Goroutines : hub'[t] # "none" => current'[hub'[t]] # 0
    BY <1>0, <1>3, Pointed
  <1> DEFINE call == [original |-> current[hub[g]], clone |-> scopes']
  <1>6. call \in [original : Scopes, clone : Scopes]
    BY <1>1, <1>2
  <1>7. open[g] \in Seq([original : Scopes, clone : Scopes])
    OBVIOUS
  <1>8. /\ Append(open[g], call) \in Seq([original : Scopes, clone : Scopes])
        /\ \A i \in DOMAIN Append(open[g], call) :
             \/ i \in DOMAIN open[g] /\ Append(open[g], call)[i] = open[g][i]
             \/ Append(open[g], call)[i] = call
    BY <1>6, <1>7, AppendProperties
  <1>9. open' \in [Goroutines -> Seq([original : Scopes, clone : Scopes])]
    BY <1>0, <1>8
  <1>10. TypeOK'
    BY <1>0, <1>2, <1>4, <1>5, <1>9
  <1>11. \A t \in Goroutines : \A i \in DOMAIN open'[t] :
           open'[t][i].original \in 1..scopes'
    <2> SUFFICES ASSUME NEW t \in Goroutines, NEW i \in DOMAIN open'[t]
                 PROVE  open'[t][i].original \in 1..scopes'
      OBVIOUS
    <2>1. CASE t = g
      <3>1. open'[t] = Append(open[g], call)
        BY <2>1, <1>0
      <3>2. \/ i \in DOMAIN open[g] /\ open'[t][i] = open[g][i]
            \/ open'[t][i] = call
        BY <3>1, <1>8
      <3>3. call.original \in 1..scopes
        BY <1>1
      <3> QED
        BY <3>2, <3>3, <1>2, <1>3 DEF Heap
    <2>2. CASE t # g
      <3>1. open'[t] = open[t]
        BY <2>2, <1>0
      <3> QED
        BY <3>1, <1>2, <1>3 DEF Heap
    <2> QED
      BY <2>1, <2>2
  <1>12. Heap'
    BY <1>0, <1>1, <1>2, <1>3, <1>11 DEF Heap
  <1> QED
    BY <1>2, <1>10, <1>12

LEMMA EndStep ==
  ASSUME Inv, NEW g \in Goroutines, EndWithScope(g)
  PROVE  Inv'
  <1> USE HubAssumption
  <1>0. /\ hub[g] # "none" /\ open[g] # <<>>
        /\ current' = [current EXCEPT ![hub[g]] = Innermost(g).original]
        /\ open' = [open EXCEPT ![g] = SubSeq(@, 1, Len(@) - 1)]
        /\ made' = [made EXCEPT ![g] = {m \in @ : m.scope # Innermost(g).clone}]
        /\ note' = note /\ captured' = captured /\ scopes' = scopes
        /\ hub' = hub /\ context' = context /\ home' = home /\ draft' = draft
    BY DEF EndWithScope, Idle, scopeVars
  <1>1. hub[g] \in Hubs /\ hub[g] # Stored
    BY <1>0, Pointed
  <1> USE DEF Inv, TypeOK
  <1>2. open[g] \in Seq([original : Scopes, clone : Scopes])
    OBVIOUS
  <1>3. Innermost(g).original \in 1..scopes
    BY <1>0, <1>2, Butlast DEF Heap, Innermost
  <1> DEFINE S == [original : Scopes, clone : Scopes]
  <1>4. /\ SubSeq(open[g], 1, Len(open[g]) - 1) \in Seq(S)
        /\ \A i \in DOMAIN SubSeq(open[g], 1, Len(open[g]) - 1) :
             /\ i \in DOMAIN open[g]
             /\ SubSeq(open[g], 1, Len(open[g]) - 1)[i] = open[g][i]
    <2>1. open[g] \in Seq(S) /\ open[g] # <<>>
      BY <1>0, <1>2
    <2> HIDE DEF S, Inv, TypeOK
    <2> QED
      BY <2>1, Butlast
  <1> HIDE DEF Inv, TypeOK
  <1>5. current' \in [Hubs -> 0..scopes]
    <2>1. scopes \in Nat /\ current \in [Hubs -> 0..scopes]
      BY DEF Inv, TypeOK, Scopes
    <2>2. Innermost(g).original \in 0..scopes
      BY <2>1, <1>3
    <2> QED
      BY <1>0, <2>1, <2>2
  <1>6. \A t \in Goroutines : hub'[t] # "none" => current'[hub'[t]] # 0
    <2>1. scopes \in Nat /\ Innermost(g).original # 0
      BY <1>3 DEF Inv, TypeOK, Scopes
    <2>2. current \in [Hubs -> 0..scopes]
      BY DEF Inv, TypeOK
    <2>3. \A t \in Goroutines : hub[t] # "none" => hub[t] \in Hubs /\ current[hub[t]] # 0
      BY Pointed DEF Inv, TypeOK
    <2> QED
      BY <1>0, <2>1, <2>2, <2>3
  <1> USE DEF Inv, TypeOK
  <1>7. open' \in [Goroutines -> Seq([original : Scopes, clone : Scopes])]
    BY <1>0, <1>4
  <1>8. made' \in [Goroutines -> SUBSET [kind : Kinds, scope : Scopes]]
    BY <1>0
  <1>9. TypeOK'
    BY <1>0, <1>5, <1>6, <1>7, <1>8
  <1>10. \A t \in Goroutines : \A i \in DOMAIN open'[t] :
           open'[t][i].original \in 1..scopes
    BY <1>0, <1>4 DEF Heap
  <1>11. Heap'
    BY <1>0, <1>1, <1>10 DEF Heap
  <1> QED
    BY <1>0, <1>9, <1>11 DEF RequestScopeIsClean

\* noted is trail without its first gone notes, and with n at its end.
Shifted(trail, kind, n, noted, gone) ==
  /\ gone = 1 <=> Len(trail) = Room(kind)
  /\ Len(noted) = Len(trail) - gone + 1
  /\ DOMAIN noted = 1..Len(noted)
  /\ \A i \in 1..Len(trail) - gone : noted[i] = trail[i + gone]
  /\ noted[Len(noted)] = n

\* What is noted takes the last place, and the oldest goes if there is no room for both.
LEMMA NotedFacts ==
  ASSUME NEW kind, NEW trail \in Seq(Notes), Len(trail) <= Room(kind), NEW n \in Notes,
         NEW noted, noted = Noted(trail, kind, n)
  PROVE  /\ noted \in Seq(Notes) /\ Len(noted) <= Room(kind)
         /\ \E gone \in {0, 1} : Shifted(trail, kind, n, noted, gone)
  <1>1. Len(trail) \in Nat /\ Room(kind) \in Nat /\ Room(kind) # 0
    BY LenProperties, RoomFact
  <1>2. ASSUME NEW kept \in Seq(Notes), noted = Append(kept, n)
        PROVE  /\ noted \in Seq(Notes) /\ Len(noted) = Len(kept) + 1 /\ Len(kept) \in Nat
               /\ DOMAIN noted = 1..Len(noted)
               /\ \A i \in 1..Len(kept) : noted[i] = kept[i]
               /\ noted[Len(kept) + 1] = n
    BY <1>2, AppendProperties, LenProperties
  <1>3. CASE Len(trail) = Room(kind)
    <2>1. trail # <<>>
      BY <1>1, <1>3, EmptySeq
    <2>2. /\ Tail(trail) \in Seq(Notes) /\ Len(Tail(trail)) = Len(trail) - 1
          /\ \A i \in 1..Len(Tail(trail)) : Tail(trail)[i] = trail[i + 1]
      BY <1>1, <2>1, HeadTailProperties
    <2>3. noted = Append(Tail(trail), n)
      BY <1>1, <1>3 DEF Noted
    <2>4. PICK kept \in Seq(Notes) : kept = Tail(trail)
      BY <2>2
    <2>5. /\ noted \in Seq(Notes) /\ Len(noted) = Len(trail) - 1 + 1
          /\ DOMAIN noted = 1..Len(noted) /\ noted[Len(noted)] = n
          /\ \A i \in 1..Len(trail) - 1 : noted[i] = trail[i + 1]
      BY <1>1, <1>2, <2>2, <2>3, <2>4
    <2> QED
      BY <1>1, <1>3, <2>5 DEF Shifted
  <1>4. CASE Len(trail) # Room(kind)
    <2>1. noted = Append(trail, n) /\ Len(trail) < Room(kind)
      BY <1>1, <1>4 DEF Noted
    <2>2. /\ noted \in Seq(Notes) /\ Len(noted) = Len(trail) - 0 + 1
          /\ DOMAIN noted = 1..Len(noted) /\ noted[Len(noted)] = n
          /\ \A i \in 1..Len(trail) - 0 : noted[i] = trail[i + 0]
      BY <1>1, <1>2, <2>1
    <2> QED
      BY <1>1, <1>4, <2>1, <2>2 DEF Shifted
  <1> QED
    BY <1>3, <1>4

\* Nothing but what was there before and the new note.
LEMMA NotedHolds ==
  ASSUME NEW kind, NEW trail \in Seq(Notes), Len(trail) <= Room(kind), NEW n \in Notes,
         NEW i \in DOMAIN Noted(trail, kind, n)
  PROVE  \/ Noted(trail, kind, n)[i] = n
         \/ \E j \in DOMAIN trail : Noted(trail, kind, n)[i] = trail[j]
  <1>1. PICK noted : noted = Noted(trail, kind, n)
    OBVIOUS
  <1>2. PICK gone \in {0, 1} : Shifted(trail, kind, n, noted, gone)
    BY <1>1, NotedFacts
  <1> USE DEF Shifted
  <1>3. Len(trail) \in Nat /\ DOMAIN trail = 1..Len(trail)
    BY LenProperties
  <1>4. CASE i = Len(noted)
    BY <1>1, <1>2, <1>4
  <1>5. CASE i # Len(noted)
    <2>1. i \in 1..Len(trail) - gone /\ i + gone \in DOMAIN trail
      BY <1>1, <1>2, <1>3, <1>5
    <2> QED
      BY <1>1, <1>2, <2>1
  <1> QED
    BY <1>4, <1>5

LEMMA AnnotateStep ==
  ASSUME Inv, NEW g \in Goroutines, NEW kind \in Kinds, Annotate(g, kind)
  PROVE  Inv'
  <1> USE HubAssumption
  <1>1. PICK s \in Reach(g) :
          /\ note' = [note EXCEPT ![s][kind] = Noted(@, kind, [by |-> g, on |-> s])]
          /\ made' = [made EXCEPT ![g] = @ \cup {[kind |-> kind, scope |-> s]}]
    BY DEF Annotate
  <1>2. /\ captured' = captured /\ scopes' = scopes /\ current' = current /\ hub' = hub
        /\ context' = context /\ open' = open /\ home' = home /\ draft' = draft
        /\ hub[g] # "none"
    BY DEF Annotate, Idle
  <1>3. s \in Scopes
    <2>1. current[hub[g]] \in Scopes
      BY <1>2, Pointed
    <2> DEFINE S == [original : Scopes, clone : Scopes]
    <2>2. open[g] \in Seq(S)
      BY DEF Inv, TypeOK
    <2>3. open[g] # <<>> => Innermost(g) \in S
      <3> HIDE DEF S
      <3> QED
        BY <2>2, Butlast DEF Innermost
    <2> QED
      BY <2>1, <2>3 DEF Reach
  <1> USE DEF Inv, TypeOK
  <1> DEFINE mine == [by |-> g, on |-> s]
             noted == Noted(note[s][kind], kind, mine)
  <1>4. mine \in Notes
    BY <1>3 DEF Notes
  <1>5. noted \in Seq(Notes) /\ Len(noted) <= Room(kind)
    <2>1. note[s][kind] \in Seq(Notes) /\ Len(note[s][kind]) <= Room(kind)
      BY <1>3
    <2> HIDE DEF mine
    <2> QED
      BY <1>4, <2>1, NotedFacts
  <1>6. note' = [note EXCEPT ![s] = [note[s] EXCEPT ![kind] = noted]]
    BY <1>1, <1>3
  <1>7. /\ note' \in [Scopes -> [Kinds -> Seq(Notes)]]
        /\ \A t \in Scopes, k \in Kinds : Len(note'[t][k]) <= Room(k)
    <2> HIDE DEF noted
    <2>1. note' \in [Scopes -> [Kinds -> Seq(Notes)]]
      BY <1>3, <1>5, <1>6
    <2>2. \A t \in Scopes, k \in Kinds :
            note'[t][k] = note[t][k] \/ (k = kind /\ note'[t][k] = noted)
      BY <1>3, <1>6
    <2> QED
      BY <1>5, <2>1, <2>2
  <1>8. made' \in [Goroutines -> SUBSET [kind : Kinds, scope : Scopes]]
    BY <1>1, <1>3
  <1>9. TypeOK'
    BY <1>2, <1>7, <1>8
  <1>10. Heap'
    BY <1>2 DEF Heap
  <1>11. RequestScopeIsClean'
    <2> SUFFICES ASSUME NEW k \in Kinds, NEW i \in DOMAIN note'[Base][k]
                 PROVE  note'[Base][k][i].on = Base
      BY DEF RequestScopeIsClean
    <2>1. Base \in Scopes
      BY DEF Base, Scopes
    <2>2. CASE note'[Base][k] = note[Base][k]
      BY <2>2 DEF RequestScopeIsClean
    <2>3. CASE note'[Base][k] # note[Base][k]
      <3>1. s = Base /\ k = kind /\ note'[Base][k] = noted
        BY <2>1, <2>3, <1>3, <1>6
      <3>2. \/ note'[Base][k][i] = mine
            \/ \E j \in DOMAIN note[Base][k] : note'[Base][k][i] = note[Base][k][j]
        BY <2>1, <3>1, <1>4, NotedHolds
      <3>3. \A j \in DOMAIN note[Base][k] : note[Base][k][j].on = Base
        BY DEF RequestScopeIsClean
      <3>4. mine.on = Base
        BY <3>1
      <3> HIDE DEF mine
      <3> QED
        BY <3>2, <3>3, <3>4
    <2> QED
      BY <2>2, <2>3
  <1> QED
    BY <1>9, <1>10, <1>11

\* A capture changes the draft of its goroutine, and at its end a mark.
DraftMay(g, d) == d \in Drafts /\ (d.todo # {} => d.scope # 0)

LEMMA DraftPreserves ==
  ASSUME Inv, NEW g \in Goroutines, NEW d, DraftMay(g, d),
         draft' = [draft EXCEPT ![g] = d],
         captured' \in [Scopes -> BOOLEAN],
         UNCHANGED <<note, scopes, current, hub, context, open, home, made>>
  PROVE  Inv'
  <1> USE HubAssumption DEF Inv, TypeOK, DraftMay
  <1>1. draft' \in [Goroutines -> Drafts]
    OBVIOUS
  <1>2. TypeOK'
    BY <1>1
  <1>3. Heap'
    BY DEF Heap
  <1> QED
    BY <1>2, <1>3 DEF RequestScopeIsClean

LEMMA StartPreserves ==
  ASSUME Inv, NEW g \in Goroutines, NEW s \in Scopes, StartDraft(g, s)
  PROVE  Inv'
  <1>1. DraftMay(g, [NoDraft EXCEPT !.scope = s, !.todo = Kinds])
    <2>1. [NoDraft EXCEPT !.scope = s, !.todo = Kinds] \in Drafts
      BY NoDraftType DEF Drafts
    <2>2. [NoDraft EXCEPT !.scope = s, !.todo = Kinds].scope = s
      BY DEF NoDraft
    <2> QED
      BY <2>1, <2>2 DEF DraftMay, Scopes
  <1>2. captured \in [Scopes -> BOOLEAN]
    BY DEF Inv, TypeOK
  <1> QED
    BY <1>1, <1>2, DraftPreserves DEF StartDraft, scopeVars

LEMMA CaptureStep ==
  ASSUME Inv, NEW g \in Goroutines, Capture(g)
  PROVE  Inv'
  BY Pointed, StartPreserves DEF Capture, Idle

LEMMA CaptureWithContextStep ==
  ASSUME Inv, NEW g \in Goroutines, CaptureWithContext(g)
  PROVE  Inv'
  <1>1. current[context[g]] \in Scopes
    <2>1. CASE context[g] = Stored
      BY <2>1, HubAssumption DEF Inv, Heap, Base, Scopes
    <2>2. CASE context[g] # Stored
      <3>1. context[g] = g /\ hub[g] = g
        BY <2>2 DEF Inv, Heap
      <3> QED
        BY <3>1, HubAssumption, Pointed
    <2> QED
      BY <2>1, <2>2
  <1> QED
    BY <1>1, StartPreserves DEF CaptureWithContext

LEMMA ReadStep ==
  ASSUME Inv, NEW g \in Goroutines, ReadNotes(g)
  PROVE  Inv'
  <1>1. PICK k \in draft[g].todo :
          /\ draft' = [draft EXCEPT ![g].got[k] = note[draft[g].scope][k],
                                    ![g].todo = @ \ {k}]
          /\ UNCHANGED <<scopeVars, current, hub, context, open, home, made>>
    BY DEF ReadNotes
  <1> DEFINE d == [draft[g] EXCEPT !.got[k] = note[draft[g].scope][k], !.todo = @ \ {k}]
  <1>2. draft \in [Goroutines -> Drafts] /\ captured \in [Scopes -> BOOLEAN]
    BY DEF Inv, TypeOK
  <1>3. draft[g] \in Drafts /\ draft[g].scope # 0
    BY <1>1, <1>2 DEF Inv, Heap
  <1>4. k \in Kinds /\ draft[g].scope \in Scopes
    BY <1>1, <1>3 DEF Drafts
  <1>5. note[draft[g].scope][k] \in Seq(Notes)
    BY <1>4 DEF Inv, TypeOK
  <1>6. d \in Drafts
    BY <1>3, <1>4, <1>5 DEF Drafts
  <1>7. DraftMay(g, d)
    BY <1>3, <1>6 DEF DraftMay, Drafts
  <1>8. draft' = [draft EXCEPT ![g] = d]
    BY <1>1
  <1> HIDE DEF d
  <1> QED
    BY <1>1, <1>2, <1>7, <1>8, DraftPreserves DEF scopeVars

LEMMA MarkStep ==
  ASSUME Inv, NEW g \in Goroutines, MarkCaptured(g) \/ Deliver(g) \/ Vouch(g)
  PROVE  Inv'
  <1>1. /\ draft \in [Goroutines -> Drafts] /\ captured \in [Scopes -> BOOLEAN]
        /\ \A t \in Goroutines : draft[t].todo # {} => draft[t].scope # 0
    BY DEF Inv, TypeOK, Heap
  <1>2. CASE MarkCaptured(g)
    <2>1. DraftMay(g, [draft[g] EXCEPT !.marked = TRUE])
      BY <1>1 DEF DraftMay, Drafts
    <2>2. draft' = [draft EXCEPT ![g] = [draft[g] EXCEPT !.marked = TRUE]]
      BY <1>2 DEF MarkCaptured
    <2> QED
      BY <1>1, <1>2, <2>1, <2>2, DraftPreserves DEF MarkCaptured
  <1>3. CASE Deliver(g)
    <2>1. DraftMay(g, NoDraft)
      BY NoDraftType DEF DraftMay, NoDraft
    <2> QED
      BY <1>1, <1>3, <2>1, DraftPreserves DEF Deliver, scopeVars
  <1>4. CASE Vouch(g)
    <2>1. DraftMay(g, draft[g]) /\ draft' = [draft EXCEPT ![g] = draft[g]]
      BY <1>1, <1>4 DEF DraftMay, Vouch
    <2> QED
      BY <1>1, <1>4, <2>1, DraftPreserves DEF Vouch
  <1> QED
    BY <1>2, <1>3, <1>4

\* Every step of a hub keeps the invariant.
LEMMA Step == Inv /\ [HubNext]_hubVars => Inv'
  <1> SUFFICES ASSUME Inv, [HubNext]_hubVars PROVE Inv'
    OBVIOUS
  <1>1. CASE UNCHANGED hubVars
    BY <1>1 DEF hubVars, scopeVars, Inv, TypeOK, Heap, RequestScopeIsClean
  <1>2. CASE HubNext
    <2>1. PICK g \in Goroutines :
            ObtainHub(g) \/ HubCall(g) \/ Vouch(g) \/ BuildEvent(g) \/ Deliver(g)
      BY <1>2 DEF HubNext
    <2>2. CASE ObtainHub(g)
      BY <2>2, GetHubStep, ShareStep, CloneStep DEF ObtainHub
    <2>3. CASE HubCall(g)
      BY <2>3, WithScopeStep, EndStep, AnnotateStep, CaptureStep, CaptureWithContextStep
         DEF HubCall
    <2>4. CASE Vouch(g) \/ BuildEvent(g) \/ Deliver(g)
      BY <2>4, ReadStep, MarkStep DEF BuildEvent
    <2> QED
      BY <2>1, <2>2, <2>3, <2>4
  <1> QED
    BY <1>1, <1>2

\* The invariant holds in every reachable state, sharing of hubs included.
THEOREM InvHolds == HubSpec => []Inv
  <1> QED
    BY TypeInit, Step, PTL DEF HubSpec

\* Every variable keeps its type, and no hub in use is ever without a scope
\* (span.go:53-68, 386-402).
THEOREM TypeCorrect == HubSpec => []TypeOK
  <1>1. Inv => TypeOK
    BY DEF Inv
  <1> QED
    BY <1>1, InvHolds, PTL

\* However goroutines obtain, share and clone hubs, and however their WithScope
\* calls overlap, the request's scope never holds a note that was made on another
\* one (span.go:373-374).
THEOREM RequestScopeStaysClean == HubSpec => []RequestScopeIsClean
  <1>1. Inv => RequestScopeIsClean
    BY DEF Inv
  <1> QED
    BY <1>1, InvHolds, PTL

-----------------------------------------------------------------------------
\* Each goroutine's hub is its own, and the first of its callbacks under way will
\* put back the scope that the hub was made with.
Nested ==
  \A g \in Goroutines :
    /\ hub[g] \in {g, "none"}
    /\ hub[g] = "none" => open[g] = <<>>
    /\ open[g] = <<>> => current[g] = home[g]
    /\ open[g] # <<>> => open[g][1].original = home[g]

\* A step that leaves hubs, their scopes and the callbacks alone.
LEMMA NestedUnchanged ==
  ASSUME Nested, UNCHANGED <<current, hub, open, home>>
  PROVE  Nested'
  BY DEF Nested

LEMMA NestedObtain ==
  ASSUME Inv, Nested, "share" \notin Ways, NEW g \in Goroutines, ObtainHub(g)
  PROVE  Nested'
  <1> USE HubAssumption
  <1>1. /\ hub[g] = "none" /\ hub' = [hub EXCEPT ![g] = g] /\ open' = open
        /\ \E s : current' = [current EXCEPT ![g] = s] /\ home'[g] = current'[g]
                 /\ \A t \in Hubs : t # g => home'[t] = home[t]
    <2>1. g \in Hubs
      BY DEF Hubs
    <2>2. current \in [Hubs -> 0..scopes] /\ home \in [Hubs -> 0..scopes]
      BY DEF Inv, TypeOK
    <2>0. hub[g] = "none"
      BY DEF ObtainHub
    <2>3. CASE GetHub(g)
      BY <2>0, <2>1, <2>2, <2>3 DEF GetHub
    <2>4. ASSUME NEW way \in Ways, NEW from \in Goroutines \ {g}, CloneHub(g, from, way)
          PROVE  /\ hub[g] = "none" /\ hub' = [hub EXCEPT ![g] = g] /\ open' = open
                 /\ \E s : current' = [current EXCEPT ![g] = s] /\ home'[g] = current'[g]
                          /\ \A t \in Hubs : t # g => home'[t] = home[t]
      BY <2>0, <2>1, <2>2, <2>4 DEF CloneHub
    <2>5. ~ \E from \in Goroutines \ {g} : ShareHub(g, from)
      BY DEF ShareHub
    <2> QED
      BY <2>3, <2>4, <2>5 DEF ObtainHub
  <1>2. PICK s : current' = [current EXCEPT ![g] = s] /\ home'[g] = current'[g]
                 /\ \A t \in Hubs : t # g => home'[t] = home[t]
    BY <1>1
  <1>3. open[g] = <<>>
    BY <1>1 DEF Nested
  <1> SUFFICES ASSUME NEW t \in Goroutines
               PROVE  /\ hub'[t] \in {t, "none"}
                      /\ hub'[t] = "none" => open[t] = <<>>
                      /\ open[t] = <<>> => current'[t] = home'[t]
                      /\ open[t] # <<>> => open[t][1].original = home'[t]
    BY <1>1 DEF Nested
  <1>4. CASE t = g
    BY <1>1, <1>2, <1>3, <1>4 DEF Inv, TypeOK
  <1>5. CASE t # g
    <2>1. hub'[t] = hub[t] /\ current'[t] = current[t] /\ home'[t] = home[t]
      BY <1>1, <1>2, <1>5 DEF Inv, TypeOK, Hubs
    <2> QED
      BY <2>1 DEF Nested
  <1> QED
    BY <1>4, <1>5

LEMMA NestedWithScope ==
  ASSUME Inv, Nested, NEW g \in Goroutines, WithScope(g)
  PROVE  Nested'
  <1> USE HubAssumption
  <1> DEFINE S == [original : Scopes, clone : Scopes]
             call == [original |-> current[g], clone |-> scopes']
  <1>1. hub[g] = g /\ g \in Hubs
    BY DEF WithScope, Idle, Nested, Hubs
  <1>2. /\ current' = [current EXCEPT ![g] = scopes']
        /\ open' = [open EXCEPT ![g] = Append(open[g], call)]
        /\ hub' = hub /\ home' = home
    BY <1>1 DEF WithScope
  <1>3. call \in S
    BY <1>1, Pointed, Fresh DEF WithScope, Idle
  <1>4. open \in [Goroutines -> Seq(S)] /\ current \in [Hubs -> 0..scopes]
    BY DEF Inv, TypeOK
  <1>5. open[g] \in Seq(S)
    BY <1>4
  <1> HIDE DEF S, call
  <1>6. /\ Append(open[g], call) # <<>>
        /\ open[g] = <<>> => Append(open[g], call)[1] = call
        /\ open[g] # <<>> => Append(open[g], call)[1] = open[g][1]
    <2>1. /\ Len(Append(open[g], call)) = Len(open[g]) + 1
          /\ \A i \in 1..Len(open[g]) : Append(open[g], call)[i] = open[g][i]
          /\ Append(open[g], call)[Len(open[g]) + 1] = call
          /\ Append(open[g], call) \in Seq(S)
      BY <1>3, <1>5, AppendProperties
    <2>2. Len(open[g]) \in Nat /\ (open[g] = <<>> <=> Len(open[g]) = 0)
      BY <1>5, LenProperties, EmptySeq
    <2>3. Append(open[g], call) # <<>>
      BY <2>1, <2>2, EmptySeq
    <2> QED
      BY <2>1, <2>2, <2>3
  <1> SUFFICES ASSUME NEW t \in Goroutines
               PROVE  /\ hub[t] \in {t, "none"}
                      /\ hub[t] = "none" => open'[t] = <<>>
                      /\ open'[t] = <<>> => current'[t] = home[t]
                      /\ open'[t] # <<>> => open'[t][1].original = home[t]
    BY <1>2 DEF Nested
  <1>7. CASE t = g
    <2>1. open'[t] = Append(open[g], call) /\ call.original = current[g] /\ t # "none"
      BY <1>2, <1>4, <1>7 DEF call
    <2> QED
      BY <1>1, <1>6, <1>7, <2>1 DEF Nested
  <1>8. CASE t # g
    <2>1. open'[t] = open[t] /\ current'[t] = current[t]
      BY <1>2, <1>4, <1>8 DEF Hubs
    <2> QED
      BY <2>1 DEF Nested
  <1> QED
    BY <1>7, <1>8

LEMMA NestedEnd ==
  ASSUME Inv, Nested, NEW g \in Goroutines, EndWithScope(g)
  PROVE  Nested'
  <1> USE HubAssumption
  <1> DEFINE S == [original : Scopes, clone : Scopes]
             rest == SubSeq(open[g], 1, Len(open[g]) - 1)
  <1>1. hub[g] = g /\ g \in Hubs /\ open[g] # <<>>
    BY DEF EndWithScope, Idle, Nested, Hubs
  <1>2. /\ current' = [current EXCEPT ![g] = Innermost(g).original]
        /\ open' = [open EXCEPT ![g] = rest]
        /\ hub' = hub /\ home' = home
    BY <1>1 DEF EndWithScope
  <1>3. open \in [Goroutines -> Seq(S)] /\ current \in [Hubs -> 0..scopes]
    BY DEF Inv, TypeOK
  <1>4. open[g] \in Seq(S)
    BY <1>3
  <1> HIDE DEF S
  <1>5. /\ rest \in Seq(S) /\ Len(rest) = Len(open[g]) - 1
        /\ \A i \in DOMAIN rest : rest[i] = open[g][i]
    BY <1>1, <1>4, Butlast
  <1> HIDE DEF rest
  <1>6. rest = <<>> => Len(open[g]) = 1
    BY <1>4, <1>5, LenProperties, EmptySeq
  <1>7. rest # <<>> => rest[1] = open[g][1]
    <2>1. Len(rest) \in Nat /\ DOMAIN rest = 1..Len(rest)
      BY <1>5, LenProperties
    <2>2. rest # <<>> => Len(rest) # 0
      BY <1>5, EmptySeq
    <2> QED
      BY <1>5, <2>1, <2>2
  <1> SUFFICES ASSUME NEW t \in Goroutines
               PROVE  /\ hub[t] \in {t, "none"}
                      /\ hub[t] = "none" => open'[t] = <<>>
                      /\ open'[t] = <<>> => current'[t] = home[t]
                      /\ open'[t] # <<>> => open'[t][1].original = home[t]
    BY <1>2 DEF Nested
  <1>8. CASE t = g
    <2>1. /\ open'[t] = rest /\ current'[t] = Innermost(g).original /\ t # "none"
          /\ open[g][1].original = home[t]
      BY <1>1, <1>2, <1>3, <1>8 DEF Nested
    <2>2. rest = <<>> => current'[t] = home[t]
      BY <1>6, <2>1 DEF Innermost
    <2> QED
      BY <1>1, <1>7, <1>8, <2>1, <2>2
  <1>9. CASE t # g
    <2>1. open'[t] = open[t] /\ current'[t] = current[t]
      BY <1>2, <1>3, <1>9 DEF Hubs
    <2> QED
      BY <2>1 DEF Nested
  <1> QED
    BY <1>8, <1>9

LEMMA NestedStep ==
  ASSUME "share" \notin Ways
  PROVE  Inv /\ Nested /\ [HubNext]_hubVars => Nested'
  <1> SUFFICES ASSUME Inv, Nested, [HubNext]_hubVars PROVE Nested'
    OBVIOUS
  <1>1. CASE UNCHANGED hubVars
    BY <1>1, NestedUnchanged DEF hubVars
  <1>2. CASE HubNext
    <2>1. PICK g \in Goroutines :
            ObtainHub(g) \/ HubCall(g) \/ Vouch(g) \/ BuildEvent(g) \/ Deliver(g)
      BY <1>2 DEF HubNext
    <2>2. CASE ObtainHub(g)
      BY <2>2, NestedObtain
    <2>3. CASE WithScope(g)
      BY <2>3, NestedWithScope
    <2>4. CASE EndWithScope(g)
      BY <2>4, NestedEnd
    <2>5. CASE (\E k \in Kinds : Annotate(g, k)) \/ Capture(g) \/ CaptureWithContext(g)
      BY <2>5, NestedUnchanged DEF Annotate, Capture, CaptureWithContext, StartDraft
    <2>6. CASE Vouch(g) \/ BuildEvent(g) \/ Deliver(g)
      BY <2>6, NestedUnchanged DEF Vouch, BuildEvent, ReadNotes, MarkCaptured, Deliver
    <2> QED
      BY <2>1, <2>2, <2>3, <2>4, <2>5, <2>6 DEF HubCall
  <1> QED
    BY <1>1, <1>2

LEMMA RestoredByNested == Inv /\ Nested => ScopeRestored
  <1> SUFFICES ASSUME Inv, Nested, NEW h \in Hubs,
                      \A g \in Goroutines : hub[g] = h => open[g] = <<>>
               PROVE  current[h] = home[h]
    BY DEF ScopeRestored
  <1>1. CASE h = Stored
    BY <1>1 DEF Inv, Heap
  <1>2. CASE h \in Goroutines
    <2>1. open[h] = <<>>
      BY <1>2 DEF Nested
    <2> QED
      BY <1>2, <2>1 DEF Nested
  <1> QED
    BY <1>1, <1>2 DEF Hubs

LEMMA NestedInit == HubInit => Nested
  BY HubAssumption DEF HubInit, Nested, Hubs

\* Where no goroutine is handed another's hub, which is what Hub.Clone's comment
\* asks for, every hub is back at the scope it was made with once its callbacks have
\* ended, however they nest (span.go:390-402).
THEOREM ScopesAreRestored ==
  ASSUME "share" \notin Ways
  PROVE  HubSpec => []ScopeRestored
  <1>1. HubInit => Nested
    BY NestedInit
  <1>2. Inv /\ Nested /\ [HubNext]_hubVars => Nested'
    BY NestedStep
  <1>3. Inv /\ Nested => ScopeRestored
    BY RestoredByNested
  <1> QED
    BY <1>1, <1>2, <1>3, InvHolds, PTL DEF HubSpec

-----------------------------------------------------------------------------
\* The scope of a goroutine's callback number i; number 0 is the hub's own.
At(g, i) == IF i = 0 THEN home[g] ELSE open[g][i].clone

\* A goroutine's hub is its own and points at the scope of the innermost callback,
\* each callback puts back the scope of the one around it, and its own is newer.
Chained(g) ==
  /\ hub[g] \in {g, "none"}
  /\ hub[g] = "none" => open[g] = <<>> /\ made[g] = {} /\ draft[g].scope = 0
  /\ hub[g] = g =>
       /\ \A i \in 0 .. Len(open[g]) : At(g, i) \in 1 .. scopes
       /\ current[g] = At(g, Len(open[g]))
       /\ \A i \in 1 .. Len(open[g]) : open[g][i].original = At(g, i - 1)
       /\ \A i \in 0 .. Len(open[g]) : \A j \in i .. Len(open[g]) : At(g, i) <= At(g, j)

\* Scope s tells of what g did in m.
Carries(g, m, s) == Survives(note[s][m.kind], m.kind, [by |-> g, on |-> m.scope])

\* What was set in one callback is on its scope and on those of the callbacks in it.
Passed(g, m) ==
  \E i \in 0 .. Len(open[g]) :
    m.scope = At(g, i) /\ \A j \in i .. Len(open[g]) : Carries(g, m, At(g, j))

Annotated(g) == \A m \in made[g] : Passed(g, m)

\* What a draft d must have got of m.
Tells(g, d, m) == Survives(d.got[m.kind], m.kind, [by |-> g, on |-> m.scope])

\* A capture through the hub has got what it has read so far.
ReadSoFar(g) ==
  draft[g].scope # 0 /\ draft[g].scope = current[g] =>
    \A m \in made[g] : m.kind \notin draft[g].todo => Tells(g, draft[g], m)

Enriched == \A g \in Goroutines : Chained(g) /\ Annotated(g) /\ ReadSoFar(g)

\* The scopes that a goroutine's hub has pointed at and will point at again; only the
\* request's is another goroutine's too.
Chain(g) == IF hub[g] = g THEN {At(g, i) : i \in 0 .. Len(open[g])} ELSE {}
Separate == \A g, t \in Goroutines : g # t => Chain(g) \cap Chain(t) \subseteq {Base}

\* The scopes of t's chain lose nothing but to a new note, which is t's own or on the
\* request's scope.
OnlyAdds(t) ==
  \A s \in Chain(t) : \A k \in Kinds :
    \/ note'[s][k] = note[s][k]
    \/ \E n \in Notes : /\ note'[s][k] = Noted(note[s][k], k, n)
                       /\ n.on = s /\ (s = Base \/ n.by = t)

\* A step that leaves goroutine t alone.
Apart(t) ==
  /\ hub'[t] = hub[t] /\ open'[t] = open[t] /\ home'[t] = home[t]
  /\ current'[t] = current[t] /\ made'[t] = made[t]

LEMMA LevelFacts ==
  ASSUME Inv, NEW g \in Goroutines
  PROVE  /\ open[g] \in Seq([original : Scopes, clone : Scopes])
         /\ Len(open[g]) \in Nat
         /\ DOMAIN open[g] = 1 .. Len(open[g])
         /\ scopes \in Nat /\ 1 .. scopes \subseteq Scopes
         /\ made[g] \subseteq [kind : Kinds, scope : Scopes]
         /\ g \in Hubs /\ g # "none"
  <1> DEFINE S == [original : Scopes, clone : Scopes]
  <1>1. open[g] \in Seq(S)
    BY DEF Inv, TypeOK
  <1>2. Len(open[g]) \in Nat /\ DOMAIN open[g] = 1 .. Len(open[g])
    <2> HIDE DEF S
    <2> QED
      BY <1>1, LenProperties
  <1>3. scopes \in Nat /\ 1 .. scopes \subseteq Scopes
    BY HubAssumption DEF Inv, TypeOK, Scopes
  <1>4. made[g] \subseteq [kind : Kinds, scope : Scopes]
    BY DEF Inv, TypeOK
  <1> QED
    BY <1>1, <1>2, <1>3, <1>4, HubAssumption DEF Hubs

\* What has survived so far survives a note that is later.
LEMMA SurvivesNoted ==
  ASSUME NEW kind, NEW trail \in Seq(Notes), Len(trail) <= Room(kind), NEW n \in Notes,
         NEW own, Later(n, own), Survives(trail, kind, own)
  PROVE  Survives(Noted(trail, kind, n), kind, own)
  <1>1. PICK noted : noted = Noted(trail, kind, n)
    OBVIOUS
  <1>0. PICK gone \in {0, 1} : Shifted(trail, kind, n, noted, gone)
    BY <1>1, NotedFacts
  <1>2. /\ gone = 1 <=> Len(trail) = Room(kind)
        /\ Len(noted) = Len(trail) - gone + 1
        /\ DOMAIN noted = 1..Len(noted)
        /\ \A j \in 1..Len(trail) - gone : noted[j] = trail[j + gone]
        /\ noted[Len(noted)] = n
    BY <1>0 DEF Shifted
  <1>3. Len(trail) \in Nat /\ DOMAIN trail = 1..Len(trail)
    BY LenProperties
  <1>4. ASSUME NEW first \in 1..Len(noted),
               \A j \in first + gone..Len(trail) : Later(trail[j], own)
        PROVE  \A j \in first..Len(noted) : Later(noted[j], own)
    <2> SUFFICES ASSUME NEW j \in first..Len(noted) PROVE Later(noted[j], own)
      OBVIOUS
    <2>1. CASE j = Len(noted)
      BY <1>2, <2>1
    <2>2. CASE j # Len(noted)
      <3>1. j \in 1..Len(trail) - gone /\ j + gone \in first + gone..Len(trail)
        BY <1>2, <1>3, <2>2
      <3> QED
        BY <1>2, <1>4, <3>1
    <2> QED
      BY <2>1, <2>2
  <1>5. ASSUME gone = 1, \A j \in 1..Len(trail) : Later(trail[j], own)
        PROVE  Survives(noted, kind, own)
    <2>1. Len(noted) = Room(kind) /\ 1 \in 1..Len(noted)
      BY <1>2, <1>3, <1>5, RoomFact
    <2>2. \A j \in 1 + gone..Len(trail) : Later(trail[j], own)
      BY <1>3, <1>5
    <2>3. \A j \in 1..Len(noted) : Later(noted[j], own)
      BY <1>4, <2>1, <2>2
    <2> QED
      BY <1>2, <2>1, <2>3 DEF Survives
  <1>6. CASE \E i \in DOMAIN trail :
               trail[i] = own /\ \A j \in i..Len(trail) : Later(trail[j], own)
    <2>1. PICK i \in DOMAIN trail :
            trail[i] = own /\ \A j \in i..Len(trail) : Later(trail[j], own)
      BY <1>6
    <2>2. CASE i - gone = 0
      <3>1. gone = 1 /\ i = 1
        BY <1>3, <2>2
      <3> QED
        BY <1>1, <1>5, <2>1, <3>1
    <2>3. CASE i - gone # 0
      <3>1. /\ i - gone \in 1..Len(noted) /\ i - gone \in 1..Len(trail) - gone
            /\ (i - gone) + gone = i
        BY <1>2, <1>3, <2>3
      <3>2. noted[i - gone] = own
        BY <1>2, <2>1, <3>1
      <3>3. \A j \in i - gone..Len(noted) : Later(noted[j], own)
        BY <1>4, <2>1, <3>1
      <3> QED
        BY <1>1, <1>2, <3>1, <3>2, <3>3 DEF Survives
    <2> QED
      BY <2>2, <2>3
  <1>7. CASE Len(trail) = Room(kind) /\ \A j \in DOMAIN trail : Later(trail[j], own)
    BY <1>1, <1>2, <1>3, <1>5, <1>7
  <1> QED
    BY <1>6, <1>7 DEF Survives

\* What has just been noted is there.
LEMMA OwnSurvives ==
  ASSUME NEW kind, NEW trail \in Seq(Notes), Len(trail) <= Room(kind), NEW own \in Notes
  PROVE  Survives(Noted(trail, kind, own), kind, own)
  <1>1. PICK noted : noted = Noted(trail, kind, own)
    OBVIOUS
  <1>0. PICK gone \in {0, 1} : Shifted(trail, kind, own, noted, gone)
    BY <1>1, NotedFacts
  <1>2. /\ gone = 1 => Len(trail) = Room(kind)
        /\ Len(noted) = Len(trail) - gone + 1 /\ DOMAIN noted = 1..Len(noted)
        /\ noted[Len(noted)] = own
    BY <1>0 DEF Shifted
  <1>3. Len(trail) \in Nat /\ Room(kind) \in Nat /\ Room(kind) # 0
    BY LenProperties, RoomFact
  <1>4. Len(noted) \in 1..Len(noted)
    BY <1>2, <1>3
  <1>5. Later(own, own)
    BY DEF Later, Notes, Scopes
  <1>6. \A j \in Len(noted)..Len(noted) : Later(noted[j], own)
    <2> SUFFICES ASSUME NEW j \in Len(noted)..Len(noted) PROVE j = Len(noted)
      BY <1>2, <1>5
    <2> QED
      BY <1>2, <1>3
  <1> QED
    BY <1>1, <1>2, <1>4, <1>6 DEF Survives

LEMMA CarriesStays ==
  ASSUME Inv, NEW t \in Goroutines, Chained(t), hub[t] = t, OnlyAdds(t), NEW m \in made[t],
         NEW i \in 0 .. Len(open[t]), NEW j \in i .. Len(open[t]),
         m.scope = At(t, i), Carries(t, m, At(t, j))
  PROVE  Survives(note'[At(t, j)][m.kind], m.kind, [by |-> t, on |-> m.scope])
  <1>1. /\ Len(open[t]) \in Nat /\ 1 .. scopes \subseteq Scopes /\ scopes \in Nat
        /\ m \in [kind : Kinds, scope : Scopes]
    BY LevelFacts
  <1>2. j \in 0 .. Len(open[t])
    BY <1>1
  <1>3. At(t, i) <= At(t, j) /\ At(t, j) \in 1 .. scopes /\ At(t, i) \in 1 .. scopes
    BY <1>2 DEF Chained
  <1>4. PICK s : s = At(t, j)
    OBVIOUS
  <1>5. s \in Chain(t)
    BY <1>2, <1>4 DEF Chain
  <1>6. PICK k \in Kinds : k = m.kind
    BY <1>1
  <1>7. /\ note[s][k] \in Seq(Notes) /\ Len(note[s][k]) <= Room(k)
        /\ Survives(note[s][k], k, [by |-> t, on |-> m.scope])
    BY <1>1, <1>3, <1>4, <1>6 DEF Inv, TypeOK, Carries
  <1>8. CASE note'[s][k] = note[s][k]
    BY <1>4, <1>6, <1>7, <1>8
  <1>9. CASE note'[s][k] # note[s][k]
    <2>1. PICK n \in Notes : /\ note'[s][k] = Noted(note[s][k], k, n)
                             /\ n.on = s /\ (s = Base \/ n.by = t)
      BY <1>5, <1>9 DEF OnlyAdds
    <2>2. n.on >= m.scope
      BY <1>1, <1>3, <1>4, <2>1
    <2>3. Later(n, [by |-> t, on |-> m.scope])
      BY <2>1, <2>2 DEF Later
    <2>4. Survives(Noted(note[s][k], k, n), k, [by |-> t, on |-> m.scope])
      BY <1>7, <2>3, SurvivesNoted
    <2> QED
      BY <1>4, <1>6, <2>1, <2>4
  <1> QED
    BY <1>8, <1>9

\* What a goroutine has noted stays noted while its callbacks stay the same.
LEMMA NotedStays ==
  ASSUME Inv, NEW t \in Goroutines, Chained(t), Annotated(t), OnlyAdds(t),
         open'[t] = open[t], home'[t] = home[t], NEW m \in made[t]
  PROVE  Passed(t, m)'
  <1>1. Len(open[t]) \in Nat /\ t # "none"
    BY LevelFacts
  <1>2. \A i \in 0 .. Len(open[t]) : At(t, i)' = At(t, i)
    BY DEF At
  <1>3. hub[t] = t
    BY <1>1 DEF Chained
  <1>4. PICK i \in 0 .. Len(open[t]) :
          m.scope = At(t, i) /\ \A j \in i .. Len(open[t]) : Carries(t, m, At(t, j))
    BY DEF Annotated, Passed
  <1>5. \A j \in i .. Len(open[t]) : Carries(t, m, At(t, j))'
    <2> SUFFICES ASSUME NEW j \in i .. Len(open[t]) PROVE Carries(t, m, At(t, j))'
      OBVIOUS
    <2>1. At(t, j)' = At(t, j)
      BY <1>1, <1>2
    <2>2. Survives(note'[At(t, j)][m.kind], m.kind, [by |-> t, on |-> m.scope])
      BY <1>3, <1>4, CarriesStays
    <2> QED
      BY <2>1, <2>2 DEF Carries
  <1>6. m.scope = At(t, i)'
    BY <1>2, <1>4
  <1> QED
    BY <1>5, <1>6 DEF Passed

\* Where a goroutine's hub points stays as it is.
LEMMA ChainStays ==
  ASSUME Inv, NEW t \in Goroutines, Chained(t), hub[t] = t,
         hub'[t] = hub[t], open'[t] = open[t], home'[t] = home[t], current'[t] = current[t],
         scopes' \in Nat, scopes' >= scopes
  PROVE  Chained(t)'
  <1>1. Len(open[t]) \in Nat /\ scopes \in Nat /\ t # "none"
    BY LevelFacts
  <1>0. \A i \in 0 .. Len(open[t]) : At(t, i)' = At(t, i)
    BY DEF At
  <1>2. \A i \in 0 .. Len(open[t]) : At(t, i)' \in 1 .. scopes'
    <2> SUFFICES ASSUME NEW i \in 0 .. Len(open[t])
                 PROVE  At(t, i)' \in 1 .. scopes'
      OBVIOUS
    <2>1. At(t, i) \in 1 .. scopes
      BY DEF Chained
    <2> QED
      BY <1>0, <1>1, <2>1
  <1>3. current[t] = At(t, Len(open[t])) /\ At(t, Len(open[t]))' = At(t, Len(open[t]))
    BY DEF Chained, At
  <1>4. \A i \in 1 .. Len(open[t]) : open[t][i].original = At(t, i - 1)'
    BY DEF Chained, At
  <1>5. \A i \in 0 .. Len(open[t]) : \A j \in i .. Len(open[t]) : At(t, i)' <= At(t, j)'
    <2> SUFFICES ASSUME NEW i \in 0 .. Len(open[t]), NEW j \in i .. Len(open[t])
                 PROVE  At(t, i)' <= At(t, j)'
      OBVIOUS
    <2>1. j \in 0 .. Len(open[t])
      BY <1>1
    <2> QED
      BY <1>0, <2>1 DEF Chained
  <1> QED
    BY <1>1, <1>2, <1>3, <1>4, <1>5 DEF Chained

\* The goroutines that a step leaves alone.
LEMMA OthersStay ==
  ASSUME Inv, Enriched, scopes' \in Nat, scopes' >= scopes,
         NEW t \in Goroutines, OnlyAdds(t), Apart(t), draft'[t] = draft[t]
  PROVE  Chained(t)' /\ Annotated(t)' /\ ReadSoFar(t)'
  <1>0. Chained(t) /\ Annotated(t) /\ ReadSoFar(t)
    BY DEF Enriched
  <1>1. Chained(t)'
    <2>1. CASE hub[t] = t
      BY <1>0, <2>1, ChainStays DEF Apart
    <2>2. CASE hub[t] = "none"
      BY <1>0, <2>2, LevelFacts DEF Chained, Apart
    <2> QED
      BY <1>0, <2>1, <2>2 DEF Chained
  <1>2. Annotated(t)'
    BY <1>0, NotedStays DEF Annotated, Apart
  <1>3. ReadSoFar(t)'
    BY <1>0 DEF ReadSoFar, Tells, Apart
  <1> QED
    BY <1>1, <1>2, <1>3

\* The scopes of a chain are in use.
LEMMA ChainInUse ==
  ASSUME Inv, Enriched, NEW t \in Goroutines
  PROVE  Chain(t) \subseteq 1 .. scopes
  BY DEF Enriched, Chained, Chain

LEMMA FreshStays ==
  ASSUME Inv, Enriched, NEW from \in Scopes, NEW kinds, Allocate(from, kinds)
  PROVE  (\A t \in Goroutines : OnlyAdds(t)) /\ scopes' \in Nat /\ scopes' >= scopes
  <1>1. scopes' = scopes + 1 /\ \A s \in Scopes : s # scopes' => note'[s] = note[s]
    BY Fresh
  <1>2. scopes \in Nat /\ 1 .. scopes \subseteq Scopes
    BY HubAssumption DEF Inv, TypeOK, Scopes
  <1>3. \A s \in 1 .. scopes : note'[s] = note[s]
    BY <1>1, <1>2
  <1> QED
    BY <1>1, <1>2, <1>3, ChainInUse DEF OnlyAdds

LEMMA SameStays ==
  ASSUME Inv, note' = note, scopes' = scopes
  PROVE  (\A t \in Goroutines : OnlyAdds(t)) /\ scopes' \in Nat /\ scopes' >= scopes
  BY DEF OnlyAdds, Inv, TypeOK, Scopes

-----------------------------------------------------------------------------
\* A goroutine whose hub is new has set nothing through it yet.
LEMMA StartsEmpty ==
  ASSUME Inv, Inv', Enriched, \A t \in Goroutines : OnlyAdds(t),
         scopes' \in Nat, scopes' >= scopes, NEW g \in Goroutines, hub[g] = "none", hub'[g] = g, home'[g] = current'[g],
         UNCHANGED <<open, made, draft>>,
         \A t \in Goroutines : t # g => Apart(t) /\ draft'[t] = draft[t]
  PROVE  Enriched'
  <1>1. \A t \in Goroutines : t # g => Chained(t)' /\ Annotated(t)' /\ ReadSoFar(t)'
    BY OthersStay
  <1>2. open[g] = <<>> /\ made[g] = {} /\ draft[g].scope = 0
    BY DEF Enriched, Chained
  <1>3. Len(open[g]) = 0
    BY <1>2
  <1>4. current'[g] \in 1 .. scopes'
    <2>1. current' \in [Hubs' -> 0 .. scopes'] /\ Hubs' = Hubs /\ current'[g] # 0
      BY HubAssumption DEF Inv, TypeOK, Hubs
    <2> QED
      BY <2>1 DEF Hubs
  <1>5. At(g, 0)' = current'[g]
    BY DEF At
  <1>6. Chained(g)'
    <2>1. At(g, 0)' <= At(g, 0)'
      BY <1>4, <1>5
    <2>2. \A i \in 0 .. 0 : i = 0
      OBVIOUS
    <2> QED
      BY <1>2, <1>3, <1>4, <1>5, <2>1, <2>2, HubAssumption DEF Chained
  <1>7. Annotated(g)' /\ ReadSoFar(g)'
    BY <1>2 DEF Annotated, ReadSoFar
  <1> QED
    BY <1>1, <1>6, <1>7 DEF Enriched

\* A goroutine that comes by a hub starts with nothing noted through it.
LEMMA EnrichedObtain ==
  ASSUME Inv, Inv', Enriched, "share" \notin Ways, NEW g \in Goroutines, ObtainHub(g)
  PROVE  Enriched'
  <1>0. Chained(g) /\ hub[g] = "none" /\ g \in Hubs
    BY DEF Enriched, ObtainHub, Hubs
  <1>1. hub \in [Goroutines -> Goroutines \cup {"none"}]
        /\ current \in [Hubs -> 0..scopes] /\ home \in [Hubs -> 0..scopes]
    BY DEF Inv, TypeOK
  <1>2. CASE GetHub(g)
    <2>1. /\ hub' = [hub EXCEPT ![g] = g] /\ current' = [current EXCEPT ![g] = current[context[g]]]
          /\ home' = [home EXCEPT ![g] = current'[g]]
          /\ open' = open /\ made' = made /\ draft' = draft /\ note' = note /\ scopes' = scopes
      BY <1>2 DEF GetHub, scopeVars
    <2>2. (\A t \in Goroutines : OnlyAdds(t)) /\ scopes' \in Nat /\ scopes' >= scopes
      BY <2>1, SameStays
    <2>3. \A t \in Goroutines : t # g => Apart(t) /\ draft'[t] = draft[t]
      BY <1>1, <2>1 DEF Apart, Hubs
    <2>4. hub'[g] = g /\ home'[g] = current'[g]
      BY <1>0, <1>1, <2>1
    <2> QED
      BY <1>0, <2>1, <2>2, <2>3, <2>4, StartsEmpty
  <1>3. ASSUME NEW from \in Goroutines, NEW way \in Ways, CloneHub(g, from, way)
        PROVE  Enriched'
    <2>1. /\ hub[from] # "none"
          /\ Allocate(current[hub[from]], Inherited(way))
          /\ hub' = [hub EXCEPT ![g] = g]
          /\ current' = [current EXCEPT ![g] = scopes']
          /\ home' = [home EXCEPT ![g] = scopes']
          /\ open' = open /\ made' = made /\ draft' = draft
      BY <1>3 DEF CloneHub
    <2>2. (\A t \in Goroutines : OnlyAdds(t)) /\ scopes' \in Nat /\ scopes' >= scopes
      BY <2>1, FreshStays, Pointed
    <2>3. \A t \in Goroutines : t # g => Apart(t) /\ draft'[t] = draft[t]
      BY <1>1, <2>1 DEF Apart, Hubs
    <2>4. hub'[g] = g /\ home'[g] = current'[g]
      BY <1>0, <1>1, <2>1
    <2> QED
      BY <1>0, <2>1, <2>2, <2>3, <2>4, StartsEmpty
  <1> QED
    BY <1>2, <1>3 DEF ObtainHub, ShareHub

LEMMA EnrichedWithScope ==
  ASSUME Inv, Inv', Enriched, NEW g \in Goroutines, WithScope(g)
  PROVE  Enriched'
  <1> DEFINE S == [original : Scopes, clone : Scopes]
             call == [original |-> current[g], clone |-> scopes']
  <1>0. Chained(g) /\ Annotated(g) /\ hub[g] = g /\ hub[g] # "none" /\ g \in Hubs
    BY DEF Enriched, WithScope, Idle, Chained, Hubs
  <1>1. /\ Allocate(current[g], Kinds)
        /\ current' = [current EXCEPT ![g] = scopes']
        /\ open' = [open EXCEPT ![g] = Append(open[g], call)]
        /\ hub' = hub /\ home' = home /\ draft' = draft /\ made' = made
        /\ draft[g] = NoDraft
    BY <1>0 DEF WithScope, Idle
  <1>2. /\ hub \in [Goroutines -> Goroutines \cup {"none"}]
        /\ current \in [Hubs -> 0..scopes]
        /\ open \in [Goroutines -> Seq(S)] /\ open[g] \in Seq(S)
    BY DEF Inv, TypeOK
  <1>3. current[g] \in Scopes /\ current[g] \in 1 .. scopes
    BY <1>0, Pointed
  <1>4. /\ scopes' = scopes + 1 /\ scopes' \in Scopes
        /\ \A k \in Kinds : note'[scopes'][k] = note[current[g]][k]
    BY <1>1, <1>3, Fresh
  <1>5. (\A t \in Goroutines : OnlyAdds(t)) /\ scopes' \in Nat /\ scopes' >= scopes
    BY <1>1, <1>3, FreshStays
  <1>6. \A t \in Goroutines : t # g => Apart(t) /\ draft'[t] = draft[t]
    BY <1>1, <1>2 DEF Apart, Hubs
  <1>7. \A t \in Goroutines : t # g => Chained(t)' /\ Annotated(t)' /\ ReadSoFar(t)'
    BY <1>5, <1>6, OthersStay
  <1>n. PICK n : n = Len(open[g])
    OBVIOUS
  <1>8. n \in Nat /\ scopes \in Nat /\ made[g] \subseteq [kind : Kinds, scope : Scopes]
        /\ g # "none"
    BY <1>n, LevelFacts
  <1>9. /\ open'[g] = Append(open[g], call)
        /\ Len(open'[g]) = n + 1
        /\ \A i \in 1 .. n : open'[g][i] = open[g][i]
        /\ open'[g][n + 1] = call
    <2>1. call \in S
      BY <1>3, <1>4
    <2>2. open'[g] = Append(open[g], call)
      BY <1>1, <1>2
    <2> HIDE DEF S, call
    <2> QED
      BY <1>n, <1>2, <2>1, <2>2, AppendProperties
  <1>10. At(g, n + 1)' = scopes' /\ current'[g] = scopes' /\ hub'[g] = g
    BY <1>0, <1>1, <1>2, <1>8, <1>9 DEF At
  <1> HIDE DEF S
  <1>11. \A i \in 0 .. n : At(g, i)' = At(g, i)
    BY <1>1, <1>8, <1>9 DEF At
  <1>12. Chained(g)'
    <2>1. \A i \in 0 .. n + 1 : At(g, i)' \in 1 .. scopes'
      <3> SUFFICES ASSUME NEW i \in 0 .. n + 1 PROVE At(g, i)' \in 1 .. scopes'
        OBVIOUS
      <3>1. CASE i = n + 1
        BY <1>4, <1>5, <1>8, <1>10, <3>1
      <3>2. CASE i \in 0 .. n
        <4>1. At(g, i) \in 1 .. scopes
          BY <1>n, <1>0, <3>2 DEF Chained
        <4> QED
          BY <1>4, <1>8, <1>11, <3>2, <4>1
      <3> QED
        BY <1>8, <3>1, <3>2
    <2>2. \A i \in 1 .. n + 1 : open'[g][i].original = At(g, i - 1)'
      <3> SUFFICES ASSUME NEW i \in 1 .. n + 1
                   PROVE  open'[g][i].original = At(g, i - 1)'
        OBVIOUS
      <3>1. At(g, i - 1)' = At(g, i - 1)
        BY <1>8, <1>11
      <3>2. CASE i = n + 1
        BY <1>n, <1>0, <1>8, <1>9, <3>1, <3>2 DEF Chained
      <3>3. CASE i \in 1 .. n
        BY <1>n, <1>0, <1>9, <3>1, <3>3 DEF Chained
      <3> QED
        BY <1>8, <3>2, <3>3
    <2>3. \A i \in 0 .. n + 1 : \A j \in i .. n + 1 : At(g, i)' <= At(g, j)'
      <3> SUFFICES ASSUME NEW i \in 0 .. n + 1, NEW j \in i .. n + 1
                   PROVE  At(g, i)' <= At(g, j)'
        OBVIOUS
      <3>1. CASE j = n + 1
        <4>1. At(g, i)' \in 1 .. scopes' /\ At(g, j)' = scopes' /\ scopes' \in Nat
          BY <1>5, <1>10, <2>1, <3>1
        <4> QED
          BY <4>1
      <3>2. CASE j # n + 1
        <4>1. i \in 0 .. n /\ j \in i .. n /\ j \in 0 .. n
          BY <1>8, <3>2
        <4> QED
          BY <1>n, <1>0, <1>11, <4>1 DEF Chained
      <3> QED
        BY <3>1, <3>2
    <2> QED
      BY <1>8, <1>9, <1>10, <2>1, <2>2, <2>3 DEF Chained
  <1>13. ASSUME NEW m \in made[g] PROVE Passed(g, m)'
    <2>1. m.kind \in Kinds
      BY <1>8
    <2>2. PICK i \in 0 .. n :
            m.scope = At(g, i) /\ \A j \in i .. n : Carries(g, m, At(g, j))
      BY <1>n, <1>0 DEF Annotated, Passed
    <2>3. \A j \in i .. n + 1 : Carries(g, m, At(g, j))'
      <3> SUFFICES ASSUME NEW j \in i .. n + 1 PROVE Carries(g, m, At(g, j))'
        OBVIOUS
      <3>1. CASE j = n + 1
        <4>1. Carries(g, m, current[g])
          BY <1>n, <1>0, <1>8, <2>2 DEF Chained
        <4>2. note'[scopes'][m.kind] = note[current[g]][m.kind]
          BY <1>4, <2>1
        <4>3. At(g, j)' = scopes'
          BY <1>10, <3>1
        <4> QED
          BY <4>1, <4>2, <4>3 DEF Carries
      <3>2. CASE j \in i .. n
        <4>1. j \in 0 .. n
          BY <1>8, <3>2
        <4>2. At(g, j)' = At(g, j) /\ OnlyAdds(g) /\ Carries(g, m, At(g, j))
          BY <1>5, <1>11, <2>2, <3>2, <4>1
        <4>3. Survives(note'[At(g, j)][m.kind], m.kind, [by |-> g, on |-> m.scope])
          BY <1>n, <1>0, <2>2, <3>2, <4>2, CarriesStays
        <4> QED
          BY <4>2, <4>3 DEF Carries
      <3> QED
        BY <1>8, <3>1, <3>2
    <2>4. m.scope = At(g, i)' /\ i \in 0 .. n + 1
      BY <1>8, <1>11, <2>2
    <2> QED
      BY <1>9, <2>3, <2>4 DEF Passed
  <1>14. Annotated(g)' /\ ReadSoFar(g)'
    BY <1>1, <1>13 DEF Annotated, ReadSoFar, NoDraft
  <1> QED
    BY <1>7, <1>12, <1>14 DEF Enriched

\* At its end a callback takes with it what was set in it alone.
LEMMA EnrichedEnd ==
  ASSUME Inv, Inv', Enriched, NEW g \in Goroutines, EndWithScope(g)
  PROVE  Enriched'
  <1> DEFINE S == [original : Scopes, clone : Scopes]
  <1>0. /\ Chained(g) /\ Annotated(g) /\ hub[g] = g /\ hub[g] # "none" /\ g \in Hubs
        /\ open[g] # <<>>
    BY DEF Enriched, EndWithScope, Idle, Chained, Hubs
  <1>1. /\ current' = [current EXCEPT ![g] = Innermost(g).original]
        /\ open' = [open EXCEPT ![g] = SubSeq(open[g], 1, Len(open[g]) - 1)]
        /\ made' = [made EXCEPT ![g] = {m \in @ : m.scope # Innermost(g).clone}]
        /\ hub' = hub /\ home' = home /\ draft' = draft
        /\ note' = note /\ scopes' = scopes /\ draft[g] = NoDraft
    BY <1>0 DEF EndWithScope, Idle, scopeVars
  <1>2. /\ hub \in [Goroutines -> Goroutines \cup {"none"}]
        /\ current \in [Hubs -> 0..scopes]
        /\ open \in [Goroutines -> Seq(S)] /\ open[g] \in Seq(S)
        /\ made \in [Goroutines -> SUBSET [kind : Kinds, scope : Scopes]]
    BY DEF Inv, TypeOK
  <1>3. (\A t \in Goroutines : OnlyAdds(t)) /\ scopes' \in Nat /\ scopes' >= scopes
    BY <1>1, SameStays
  <1>4. \A t \in Goroutines : t # g => Apart(t) /\ draft'[t] = draft[t]
    BY <1>1, <1>2 DEF Apart, Hubs
  <1>5. \A t \in Goroutines : t # g => Chained(t)' /\ Annotated(t)' /\ ReadSoFar(t)'
    BY <1>3, <1>4, OthersStay
  <1>n. PICK n : n = Len(open[g])
    OBVIOUS
  <1>6. n \in Nat /\ g # "none"
    BY <1>n, LevelFacts
  <1> HIDE DEF S
  <1>7. /\ n \in 1 .. n /\ n # 0
        /\ Len(open'[g]) = n - 1
        /\ \A i \in 1 .. n - 1 : open'[g][i] = open[g][i]
    <2>1. open'[g] = SubSeq(open[g], 1, Len(open[g]) - 1)
      BY <1>1, <1>2
    <2>2. Len(open[g]) \in DOMAIN open[g] /\ DOMAIN open[g] = 1 .. Len(open[g])
      BY <1>0, <1>2, Butlast, LenProperties
    <2>3. /\ SubSeq(open[g], 1, Len(open[g]) - 1) \in Seq(S)
          /\ Len(SubSeq(open[g], 1, Len(open[g]) - 1)) = Len(open[g]) - 1
          /\ \A i \in DOMAIN SubSeq(open[g], 1, Len(open[g]) - 1) :
               SubSeq(open[g], 1, Len(open[g]) - 1)[i] = open[g][i]
      BY <1>0, <1>2, Butlast
    <2>4. DOMAIN open'[g] = 1 .. Len(open'[g])
      BY <2>1, <2>3, LenProperties
    <2> QED
      BY <1>n, <1>6, <2>1, <2>2, <2>3, <2>4
  <1>8. \A i \in 0 .. n - 1 : At(g, i)' = At(g, i)
    BY <1>1, <1>6, <1>7 DEF At
  <1>9. Innermost(g).clone = At(g, n) /\ current'[g] = At(g, n - 1)
    BY <1>n, <1>0, <1>1, <1>2, <1>6, <1>7 DEF Innermost, At, Chained
  <1>10. Chained(g)'
    <2>1. \A i \in 0 .. n - 1 : At(g, i)' \in 1 .. scopes'
      <3> SUFFICES ASSUME NEW i \in 0 .. n - 1 PROVE At(g, i)' \in 1 .. scopes'
        OBVIOUS
      <3>1. i \in 0 .. n
        BY <1>6
      <3>2. At(g, i) \in 1 .. scopes
        BY <1>n, <1>0, <3>1 DEF Chained
      <3> QED
        BY <1>1, <1>8, <3>2
    <2>2. current'[g] = At(g, n - 1)'
      BY <1>6, <1>7, <1>8, <1>9
    <2>3. \A i \in 1 .. n - 1 : open'[g][i].original = At(g, i - 1)'
      <3> SUFFICES ASSUME NEW i \in 1 .. n - 1
                   PROVE  open'[g][i].original = At(g, i - 1)'
        OBVIOUS
      <3>1. open'[g][i] = open[g][i] /\ At(g, i - 1)' = At(g, i - 1) /\ i \in 1 .. n
        BY <1>6, <1>7, <1>8
      <3> QED
        BY <1>n, <1>0, <3>1 DEF Chained
    <2>4. \A i \in 0 .. n - 1 : \A j \in i .. n - 1 : At(g, i)' <= At(g, j)'
      <3> SUFFICES ASSUME NEW i \in 0 .. n - 1, NEW j \in i .. n - 1
                   PROVE  At(g, i)' <= At(g, j)'
        OBVIOUS
      <3>1. i \in 0 .. n /\ j \in i .. n /\ j \in 0 .. n - 1
        BY <1>6, <1>7
      <3> QED
        BY <1>n, <1>0, <1>8, <3>1 DEF Chained
    <2> QED
      BY <1>0, <1>1, <1>6, <1>7, <2>1, <2>2, <2>3, <2>4 DEF Chained
  <1>11. ASSUME NEW m \in made'[g] PROVE Passed(g, m)'
    <2>1. m \in made[g] /\ m.scope # At(g, n)
      BY <1>1, <1>2, <1>9
    <2>2. PICK i \in 0 .. n :
            m.scope = At(g, i) /\ \A j \in i .. n : Carries(g, m, At(g, j))
      BY <1>n, <1>0, <2>1 DEF Annotated, Passed
    <2>3. i \in 0 .. n - 1
      BY <1>6, <2>1, <2>2
    <2>4. \A j \in i .. n - 1 : Carries(g, m, At(g, j))'
      <3> SUFFICES ASSUME NEW j \in i .. n - 1 PROVE Carries(g, m, At(g, j))'
        OBVIOUS
      <3>1. j \in 0 .. n - 1 /\ j \in i .. n
        BY <1>6, <2>3
      <3> QED
        BY <1>1, <1>8, <2>2, <3>1 DEF Carries
    <2>5. m.scope = At(g, i)'
      BY <1>8, <2>2, <2>3
    <2> QED
      BY <1>7, <2>3, <2>4, <2>5 DEF Passed
  <1>12. Annotated(g)' /\ ReadSoFar(g)'
    BY <1>1, <1>11 DEF Annotated, ReadSoFar, NoDraft
  <1> QED
    BY <1>5, <1>10, <1>12 DEF Enriched

\* A setter writes to the innermost scope, which is another goroutine's too only where
\* it is the request's, and takes nothing from it but what there is no room for.
LEMMA EnrichedAnnotate ==
  ASSUME Inv, Inv', Enriched, Separate, NEW g \in Goroutines, NEW kind \in Kinds,
         Annotate(g, kind)
  PROVE  Enriched'
  <1>0. Chained(g) /\ Annotated(g) /\ hub[g] = g /\ hub[g] # "none"
    BY DEF Enriched, Annotate, Idle, Chained
  <1>1. PICK s \in Reach(g) :
          /\ note' = [note EXCEPT ![s][kind] = Noted(@, kind, [by |-> g, on |-> s])]
          /\ made' = [made EXCEPT ![g] = @ \cup {[kind |-> kind, scope |-> s]}]
    BY DEF Annotate
  <1>2. /\ scopes' = scopes /\ current' = current /\ hub' = hub
        /\ open' = open /\ home' = home /\ draft' = draft /\ draft[g] = NoDraft
    BY DEF Annotate, Idle
  <1>3. /\ note \in [Scopes -> [Kinds -> Seq(Notes)]]
        /\ made \in [Goroutines -> SUBSET [kind : Kinds, scope : Scopes]]
    BY DEF Inv, TypeOK
  <1>4. /\ Len(open[g]) \in Nat /\ scopes \in Nat /\ 1 .. scopes \subseteq Scopes
        /\ (open[g] # <<>> => Len(open[g]) # 0)
    BY LevelFacts, EmptySeq
  <1>5. s = At(g, Len(open[g])) /\ s = current[g] /\ s \in 1 .. scopes /\ s \in Scopes
    BY <1>0, <1>1, <1>4 DEF Chained, Reach, Innermost, At
  <1>m. PICK mine \in Notes : mine = [by |-> g, on |-> s]
    BY <1>5 DEF Notes
  <1>6. /\ \A t \in Scopes : t # s => note'[t] = note[t]
        /\ \A k \in Kinds : k # kind => note'[s][k] = note[s][k]
        /\ note'[s][kind] = Noted(note[s][kind], kind, mine)
    BY <1>1, <1>3, <1>5, <1>m
  <1>7. \A t \in Goroutines : OnlyAdds(t)
    <2> SUFFICES ASSUME NEW t \in Goroutines, NEW x \in Chain(t), NEW k \in Kinds,
                        note'[x][k] # note[x][k]
                 PROVE  \E n \in Notes : /\ note'[x][k] = Noted(note[x][k], k, n)
                                         /\ n.on = x /\ (x = Base \/ n.by = t)
      BY DEF OnlyAdds
    <2>1. x \in Scopes
      BY <1>4, ChainInUse
    <2>2. x = s /\ k = kind
      BY <1>6, <2>1
    <2>3. s \in Chain(g)
      <3>1. Len(open[g]) \in 0 .. Len(open[g])
        BY <1>4
      <3> QED
        BY <1>0, <1>5, <3>1 DEF Chain
    <2>4. t = g \/ s = Base
      BY <2>2, <2>3 DEF Separate
    <2>5. mine.on = s /\ mine.by = g
      BY <1>m
    <2> QED
      BY <1>6, <2>2, <2>4, <2>5
  <1>8. \A t \in Goroutines : t # g => Apart(t) /\ draft'[t] = draft[t]
    BY <1>1, <1>2, <1>3 DEF Apart
  <1>9. \A t \in Goroutines : t # g => Chained(t)' /\ Annotated(t)' /\ ReadSoFar(t)'
    BY <1>2, <1>4, <1>7, <1>8, OthersStay
  <1>10. Chained(g)'
    BY <1>0, <1>2, <1>4, ChainStays
  <1>11. ASSUME NEW m \in made'[g] PROVE Passed(g, m)'
    <2>1. CASE m \in made[g]
      BY <1>0, <1>2, <1>7, <2>1, NotedStays
    <2>2. CASE m = [kind |-> kind, scope |-> s]
      <3>1. note[s][kind] \in Seq(Notes) /\ Len(note[s][kind]) <= Room(kind)
        BY <1>5 DEF Inv, TypeOK
      <3>2. Survives(note'[s][kind], kind, [by |-> g, on |-> s])
        BY <1>6, <1>m, <3>1, OwnSurvives
      <3>3. m.kind = kind /\ m.scope = s
        BY <2>2
      <3>4. \A j \in Len(open[g]) .. Len(open[g]) : At(g, j)' = s /\ Carries(g, m, At(g, j))'
        <4> SUFFICES ASSUME NEW j \in Len(open[g]) .. Len(open[g])
                     PROVE  At(g, j)' = s /\ Carries(g, m, At(g, j))'
          OBVIOUS
        <4>1. At(g, j)' = s
          BY <1>2, <1>4, <1>5 DEF At
        <4> QED
          BY <3>2, <3>3, <4>1 DEF Carries
      <3>5. At(g, Len(open[g]))' = s
        BY <1>2, <1>5 DEF At
      <3> QED
        BY <1>2, <1>4, <3>3, <3>4, <3>5 DEF Passed
    <2> QED
      BY <1>1, <1>3, <2>1, <2>2
  <1>12. Annotated(g)' /\ ReadSoFar(g)'
    BY <1>2, <1>11 DEF Annotated, ReadSoFar, NoDraft
  <1> QED
    BY <1>9, <1>10, <1>12 DEF Enriched

\* The steps of a capture, and those that change no more than a mark.
LEMMA EnrichedDraft ==
  ASSUME Inv, Enriched, NEW g \in Goroutines,
         UNCHANGED <<note, scopes, current, hub, open, home, made>>,
         \A t \in Goroutines : t # g => draft'[t] = draft[t],
         draft'[g].scope # 0 => hub[g] # "none", ReadSoFar(g)'
  PROVE  Enriched'
  <1>1. (\A t \in Goroutines : OnlyAdds(t)) /\ scopes' \in Nat /\ scopes' >= scopes
    BY SameStays
  <1>2. \A t \in Goroutines : Apart(t)
    BY DEF Apart
  <1>3. \A t \in Goroutines : t # g => Chained(t)' /\ Annotated(t)' /\ ReadSoFar(t)'
    BY <1>1, <1>2, OthersStay
  <1>4. Chained(g) /\ Annotated(g)
    BY DEF Enriched
  <1>5. Chained(g)'
    <2>1. CASE hub[g] = g
      BY <1>1, <1>4, <2>1, ChainStays
    <2>2. CASE hub[g] = "none"
      BY <1>4, <2>2, LevelFacts DEF Chained
    <2> QED
      BY <1>4, <2>1, <2>2 DEF Chained
  <1>6. Annotated(g)'
    BY <1>1, <1>4, NotedStays DEF Annotated
  <1> QED
    BY <1>3, <1>5, <1>6 DEF Enriched

LEMMA EnrichedCapture ==
  ASSUME Inv, Enriched, NEW g \in Goroutines, Capture(g) \/ CaptureWithContext(g)
  PROVE  Enriched'
  <1>1. PICK s : StartDraft(g, s) /\ Idle(g)
    BY DEF Capture, CaptureWithContext
  <1>2. /\ UNCHANGED <<note, scopes, current, hub, open, home, made>>
        /\ draft' = [draft EXCEPT ![g] = [NoDraft EXCEPT !.scope = s, !.todo = Kinds]]
        /\ hub[g] # "none"
    BY <1>1 DEF StartDraft, scopeVars, Idle
  <1>3. draft \in [Goroutines -> Drafts]
    BY DEF Inv, TypeOK
  <1>4. draft'[g].todo = Kinds /\ \A t \in Goroutines : t # g => draft'[t] = draft[t]
    BY <1>2, <1>3 DEF NoDraft
  <1>5. ReadSoFar(g)'
    BY <1>2, <1>4, LevelFacts DEF ReadSoFar
  <1> QED
    BY <1>2, <1>4, <1>5, EnrichedDraft

\* What a capture reads next is on the scope that its hub points at.
LEMMA EnrichedRead ==
  ASSUME Inv, Enriched, NEW g \in Goroutines, ReadNotes(g)
  PROVE  Enriched'
  <1>1. PICK k \in draft[g].todo :
          /\ draft' = [draft EXCEPT ![g].got[k] = note[draft[g].scope][k],
                                    ![g].todo = @ \ {k}]
          /\ UNCHANGED <<scopeVars, current, hub, context, open, home, made>>
    BY DEF ReadNotes
  <1>2. draft \in [Goroutines -> Drafts] /\ draft[g] \in Drafts
    BY DEF Inv, TypeOK
  <1>3. k \in Kinds /\ draft[g].scope # 0 /\ draft[g].got \in [Kinds -> Seq(Notes)]
    BY <1>1, <1>2 DEF Inv, Heap, Drafts
  <1>4. /\ draft'[g].scope = draft[g].scope /\ draft'[g].todo = draft[g].todo \ {k}
        /\ draft'[g].got[k] = note[draft[g].scope][k]
        /\ \A j \in Kinds : j # k => draft'[g].got[j] = draft[g].got[j]
        /\ \A t \in Goroutines : t # g => draft'[t] = draft[t]
    <2> DEFINE d == [draft[g] EXCEPT !.got[k] = note[draft[g].scope][k], !.todo = @ \ {k}]
    <2>1. draft' = [draft EXCEPT ![g] = d]
      BY <1>1
    <2>2. draft'[g] = d /\ \A t \in Goroutines : t # g => draft'[t] = draft[t]
      BY <1>2, <2>1
    <2>3. /\ d.scope = draft[g].scope /\ d.todo = draft[g].todo \ {k}
          /\ d.got = [draft[g].got EXCEPT ![k] = note[draft[g].scope][k]]
      BY <1>2 DEF Drafts
    <2> HIDE DEF d
    <2> QED
      BY <1>3, <2>2, <2>3
  <1>5. Chained(g) /\ Annotated(g) /\ ReadSoFar(g) /\ hub[g] = g
    BY <1>3 DEF Enriched, Chained
  <1>6. UNCHANGED <<note, scopes, current, hub, open, home, made>>
    BY <1>1 DEF scopeVars
  <1>7. ASSUME draft[g].scope = current[g],
               NEW m \in made[g], m.kind \notin draft[g].todo \ {k}
        PROVE  Tells(g, draft'[g], m)
    <2>1. m.kind \in Kinds /\ Len(open[g]) \in Nat
      BY LevelFacts
    <2>2. CASE m.kind = k
      <3>1. PICK i \in 0 .. Len(open[g]) :
              m.scope = At(g, i) /\ \A j \in i .. Len(open[g]) : Carries(g, m, At(g, j))
        BY <1>5 DEF Annotated, Passed
      <3>2. Len(open[g]) \in i .. Len(open[g])
        BY <2>1
      <3>3. Carries(g, m, current[g])
        BY <1>5, <3>1, <3>2 DEF Chained
      <3>4. draft'[g].got[m.kind] = note[current[g]][m.kind]
        BY <1>4, <1>7, <2>2
      <3> QED
        BY <1>4, <3>3, <3>4 DEF Carries, Tells
    <2>3. CASE m.kind # k
      <3>1. Tells(g, draft[g], m)
        BY <1>3, <1>5, <1>7, <2>3 DEF ReadSoFar
      <3>2. draft'[g].got[m.kind] = draft[g].got[m.kind]
        BY <1>4, <2>1, <2>3
      <3> QED
        BY <1>4, <3>1, <3>2 DEF Tells
    <2> QED
      BY <2>2, <2>3
  <1>8. ReadSoFar(g)'
    BY <1>4, <1>6, <1>7 DEF ReadSoFar, Tells
  <1>9. draft'[g].scope # 0 => hub[g] # "none"
    BY <1>5, LevelFacts
  <1> QED
    BY <1>4, <1>6, <1>8, <1>9, EnrichedDraft

LEMMA EnrichedMark ==
  ASSUME Inv, Enriched, NEW g \in Goroutines, MarkCaptured(g) \/ Deliver(g) \/ Vouch(g)
  PROVE  Enriched'
  <1>1. draft \in [Goroutines -> Drafts] /\ draft[g] \in Drafts
    BY DEF Inv, TypeOK
  <1>2. UNCHANGED <<note, scopes, current, hub, open, home, made>>
    BY DEF MarkCaptured, Deliver, Vouch, scopeVars
  <1>3. /\ draft'[g] = NoDraft \/
           (draft'[g].scope = draft[g].scope /\ draft'[g].todo = draft[g].todo
              /\ draft'[g].got = draft[g].got)
        /\ \A t \in Goroutines : t # g => draft'[t] = draft[t]
    BY <1>1 DEF MarkCaptured, Deliver, Vouch, Drafts
  <1>4. ReadSoFar(g) /\ (draft[g].scope # 0 => hub[g] # "none")
    BY DEF Enriched, Chained
  <1>5. CASE draft'[g] = NoDraft
    <2>1. draft'[g].scope = 0
      BY <1>5 DEF NoDraft
    <2>2. ReadSoFar(g)'
      BY <2>1 DEF ReadSoFar
    <2> QED
      BY <1>2, <1>3, <2>1, <2>2, EnrichedDraft
  <1>6. CASE draft'[g].scope = draft[g].scope /\ draft'[g].todo = draft[g].todo
             /\ draft'[g].got = draft[g].got
    <2>1. ReadSoFar(g)'
      BY <1>2, <1>4, <1>6 DEF ReadSoFar, Tells
    <2> QED
      BY <1>2, <1>3, <1>4, <1>6, <2>1, EnrichedDraft
  <1> QED
    BY <1>3, <1>5, <1>6

\* A goroutine adds to its chain only new scopes and, when it comes by a hub, the
\* request's.
LEMMA StaySeparate ==
  ASSUME Inv, Enriched, Separate, NEW g \in Goroutines,
         \A t \in Goroutines : t # g => Apart(t),
         Chain(g)' \subseteq Chain(g) \cup {Base, scopes + 1}
  PROVE  Separate'
  <1>1. \A t \in Goroutines : t # g => Chain(t)' = Chain(t)
    <2> SUFFICES ASSUME NEW t \in Goroutines, t # g PROVE Chain(t)' = Chain(t)
      OBVIOUS
    <2>1. hub'[t] = hub[t] /\ open'[t] = open[t] /\ home'[t] = home[t]
      BY DEF Apart
    <2> QED
      BY <2>1 DEF Chain, At
  <1>2. \A t \in Goroutines : scopes + 1 \notin Chain(t)
    <2>1. scopes \in Nat
      BY DEF Inv, TypeOK, Scopes
    <2> QED
      BY <2>1, ChainInUse
  <1>3. \A t \in Goroutines : t # g =>
          Chain(g)' \cap Chain(t)' \subseteq {Base} /\ Chain(t)' \cap Chain(g)' \subseteq {Base}
    BY <1>1, <1>2 DEF Separate
  <1>4. \A t, u \in Goroutines : t # g /\ u # g /\ t # u =>
          Chain(t)' \cap Chain(u)' \subseteq {Base}
    BY <1>1 DEF Separate
  <1>5. \A t, u \in Goroutines : t # u => Chain(t)' \cap Chain(u)' \subseteq {Base}
    BY <1>3, <1>4
  <1> QED
    BY <1>5 DEF Separate

LEMMA SeparateObtain ==
  ASSUME Inv, Enriched, Separate, "share" \notin Ways, NEW g \in Goroutines, ObtainHub(g)
  PROVE  Separate'
  <1>0. hub[g] = "none" /\ g \in Hubs /\ open[g] = <<>>
    BY DEF Enriched, Chained, ObtainHub, Hubs
  <1>1. hub \in [Goroutines -> Goroutines \cup {"none"}]
        /\ current \in [Hubs -> 0..scopes] /\ home \in [Hubs -> 0..scopes]
    BY DEF Inv, TypeOK
  <1>2. ASSUME hub' = [hub EXCEPT ![g] = g], open' = open, made' = made,
               NEW s \in {Base, scopes + 1},
               current' = [current EXCEPT ![g] = s], home' = [home EXCEPT ![g] = s]
        PROVE  Separate'
    <2>1. \A t \in Goroutines : t # g => Apart(t)
      BY <1>1, <1>2 DEF Apart, Hubs
    <2>2. Len(open'[g]) = 0 /\ At(g, 0)' = s
      BY <1>0, <1>1, <1>2 DEF At
    <2>3. Chain(g)' \subseteq {s}
      BY <2>2 DEF Chain
    <2> QED
      BY <2>1, <2>3, StaySeparate
  <1>3. CASE GetHub(g)
    <2>1. context[g] = Stored /\ current[Stored] = Base
      BY <1>0, HubAssumption DEF Inv, Heap
    <2>2. /\ hub' = [hub EXCEPT ![g] = g] /\ open' = open /\ made' = made
          /\ current' = [current EXCEPT ![g] = Base]
          /\ home' = [home EXCEPT ![g] = current'[g]]
      BY <1>3, <2>1 DEF GetHub
    <2>3. home' = [home EXCEPT ![g] = Base]
      BY <1>0, <1>1, <2>2
    <2> QED
      BY <1>2, <2>2, <2>3
  <1>4. ASSUME NEW from \in Goroutines, NEW way \in Ways, CloneHub(g, from, way)
        PROVE  Separate'
    <2>1. /\ hub' = [hub EXCEPT ![g] = g] /\ open' = open /\ made' = made
          /\ scopes' = scopes + 1
          /\ current' = [current EXCEPT ![g] = scopes'] /\ home' = [home EXCEPT ![g] = scopes']
      BY <1>4 DEF CloneHub, Allocate
    <2> QED
      BY <1>2, <2>1
  <1> QED
    BY <1>3, <1>4 DEF ObtainHub, ShareHub

LEMMA SeparateWithScope ==
  ASSUME Inv, Enriched, Separate, NEW g \in Goroutines, WithScope(g)
  PROVE  Separate'
  <1> DEFINE S == [original : Scopes, clone : Scopes]
             call == [original |-> current[g], clone |-> scopes']
  <1>0. Chained(g) /\ hub[g] = g /\ hub[g] # "none" /\ g \in Hubs
    BY DEF Enriched, WithScope, Idle, Chained, Hubs
  <1>1. /\ Allocate(current[g], Kinds)
        /\ current' = [current EXCEPT ![g] = scopes']
        /\ open' = [open EXCEPT ![g] = Append(open[g], call)]
        /\ hub' = hub /\ home' = home /\ made' = made
    BY <1>0 DEF WithScope
  <1>2. /\ current \in [Hubs -> 0..scopes]
        /\ open \in [Goroutines -> Seq(S)] /\ open[g] \in Seq(S)
    BY DEF Inv, TypeOK
  <1>3. scopes' = scopes + 1 /\ call \in S
    BY <1>0, <1>1, Pointed, Fresh
  <1>4. \A t \in Goroutines : t # g => Apart(t)
    BY <1>1, <1>2 DEF Apart, Hubs
  <1>n. PICK n : n = Len(open[g])
    OBVIOUS
  <1>5. open'[g] = Append(open[g], call) /\ n \in Nat
    BY <1>n, <1>1, <1>2, LevelFacts
  <1>6. /\ Len(open'[g]) = n + 1
        /\ \A i \in 1 .. n : open'[g][i] = open[g][i]
        /\ open'[g][n + 1] = call
    <2> HIDE DEF S, call
    <2> QED
      BY <1>n, <1>2, <1>3, <1>5, AppendProperties
  <1>7. \A i \in 0 .. n + 1 : At(g, i)' = scopes + 1 \/ (i \in 0 .. n /\ At(g, i)' = At(g, i))
    <2> SUFFICES ASSUME NEW i \in 0 .. n + 1
                 PROVE  At(g, i)' = scopes + 1 \/ (i \in 0 .. n /\ At(g, i)' = At(g, i))
      OBVIOUS
    <2>1. CASE i = 0
      BY <1>1, <1>5, <2>1 DEF At
    <2>2. CASE i \in 1 .. n
      BY <1>5, <1>6, <2>2 DEF At
    <2>3. CASE i = n + 1
      <3>1. call.clone = scopes + 1 /\ i # 0
        BY <1>3, <1>5, <2>3
      <3> HIDE DEF call
      <3> QED
        BY <1>6, <2>3, <3>1 DEF At
    <2> QED
      BY <1>5, <2>1, <2>2, <2>3
  <1>8. Chain(g)' \subseteq Chain(g) \cup {scopes + 1}
    BY <1>n, <1>0, <1>6, <1>7 DEF Chain
  <1> QED
    BY <1>4, <1>8, StaySeparate

LEMMA SeparateEnd ==
  ASSUME Inv, Enriched, Separate, NEW g \in Goroutines, EndWithScope(g)
  PROVE  Separate'
  <1> DEFINE S == [original : Scopes, clone : Scopes]
  <1>0. hub[g] = g /\ g \in Hubs /\ open[g] # <<>>
    BY DEF Enriched, EndWithScope, Idle, Chained, Hubs
  <1>1. /\ current' = [current EXCEPT ![g] = Innermost(g).original]
        /\ open' = [open EXCEPT ![g] = SubSeq(open[g], 1, Len(open[g]) - 1)]
        /\ made' = [made EXCEPT ![g] = {m \in @ : m.scope # Innermost(g).clone}]
        /\ hub' = hub /\ home' = home
    BY <1>0 DEF EndWithScope
  <1>2. /\ current \in [Hubs -> 0..scopes]
        /\ open \in [Goroutines -> Seq(S)] /\ open[g] \in Seq(S)
        /\ made \in [Goroutines -> SUBSET [kind : Kinds, scope : Scopes]]
    BY DEF Inv, TypeOK
  <1>3. \A t \in Goroutines : t # g => Apart(t)
    BY <1>1, <1>2 DEF Apart, Hubs
  <1>n. PICK n : n = Len(open[g]) /\ n \in Nat
    BY LevelFacts
  <1> HIDE DEF S
  <1>4. /\ Len(open'[g]) = n - 1
        /\ \A i \in 1 .. n - 1 : open'[g][i] = open[g][i]
    <2>1. open'[g] = SubSeq(open[g], 1, Len(open[g]) - 1)
      BY <1>1, <1>2
    <2>2. /\ open'[g] \in Seq(S) /\ Len(open'[g]) = n - 1
          /\ \A i \in DOMAIN open'[g] : open'[g][i] = open[g][i]
      BY <1>n, <1>0, <1>2, <2>1, Butlast
    <2> QED
      BY <2>2, LenProperties
  <1>5. \A i \in 0 .. n - 1 : At(g, i)' = At(g, i) /\ i \in 0 .. n
    BY <1>n, <1>1, <1>4 DEF At
  <1>6. Chain(g)' \subseteq Chain(g)
    BY <1>n, <1>0, <1>1, <1>4, <1>5 DEF Chain
  <1> QED
    BY <1>3, <1>6, StaySeparate

LEMMA SeparateStep ==
  ASSUME "share" \notin Ways
  PROVE  Inv /\ Enriched /\ Separate /\ [HubNext]_hubVars => Separate'
  <1> SUFFICES ASSUME Inv, Enriched, Separate, [HubNext]_hubVars PROVE Separate'
    OBVIOUS
  <1>1. ASSUME UNCHANGED <<hub, open, home>> PROVE Separate'
    <2>1. \A t \in Goroutines : Chain(t)' = Chain(t)
      BY <1>1 DEF Chain, At
    <2> HIDE DEF Chain
    <2>2. \A g, t \in Goroutines : g # t => Chain(g)' \cap Chain(t)' \subseteq {Base}
      BY <2>1 DEF Separate
    <2> QED
      BY <2>2 DEF Separate
  <1>2. CASE UNCHANGED hubVars
    BY <1>1, <1>2 DEF hubVars
  <1>3. CASE HubNext
    <2>1. PICK g \in Goroutines :
            ObtainHub(g) \/ HubCall(g) \/ Vouch(g) \/ BuildEvent(g) \/ Deliver(g)
      BY <1>3 DEF HubNext
    <2>2. CASE ObtainHub(g)
      BY <2>2, SeparateObtain
    <2>3. CASE WithScope(g)
      BY <2>3, SeparateWithScope
    <2>4. CASE EndWithScope(g)
      BY <2>4, SeparateEnd
    <2>5. CASE (\E k \in Kinds : Annotate(g, k)) \/ Capture(g) \/ CaptureWithContext(g)
      BY <1>1, <2>5 DEF Annotate, Capture, CaptureWithContext, StartDraft
    <2>6. CASE Vouch(g) \/ BuildEvent(g) \/ Deliver(g)
      BY <1>1, <2>6 DEF Vouch, BuildEvent, ReadNotes, MarkCaptured, Deliver
    <2> QED
      BY <2>1, <2>2, <2>3, <2>4, <2>5, <2>6 DEF HubCall
  <1> QED
    BY <1>2, <1>3

LEMMA SeparateInit == HubInit => Separate
  BY HubAssumption DEF HubInit, Separate, Chain

LEMMA EnrichedInit == HubInit => Enriched
  <1> SUFFICES ASSUME HubInit, NEW g \in Goroutines
               PROVE  Chained(g) /\ Annotated(g) /\ ReadSoFar(g)
    BY DEF Enriched
  <1>1. hub[g] = "none" /\ open[g] = <<>> /\ made[g] = {} /\ draft[g].scope = 0
    BY DEF HubInit, NoDraft
  <1> QED
    BY <1>1, HubAssumption DEF Chained, Annotated, ReadSoFar

LEMMA EnrichedStep ==
  ASSUME "share" \notin Ways
  PROVE  Inv /\ Inv' /\ Enriched /\ Separate /\ [HubNext]_hubVars => Enriched'
  <1> SUFFICES ASSUME Inv, Inv', Enriched, Separate, [HubNext]_hubVars PROVE Enriched'
    OBVIOUS
  <1>1. CASE UNCHANGED hubVars
    <2>1. UNCHANGED <<note, scopes, current, hub, open, home, made, draft>>
      BY <1>1 DEF hubVars, scopeVars
    <2>2. (\A t \in Goroutines : OnlyAdds(t)) /\ scopes' \in Nat /\ scopes' >= scopes
      BY <2>1, SameStays
    <2>3. \A t \in Goroutines : Apart(t) /\ draft'[t] = draft[t]
      BY <2>1 DEF Apart
    <2> QED
      BY <2>2, <2>3, OthersStay DEF Enriched
  <1>2. CASE HubNext
    <2>1. PICK g \in Goroutines :
            ObtainHub(g) \/ HubCall(g) \/ Vouch(g) \/ BuildEvent(g) \/ Deliver(g)
      BY <1>2 DEF HubNext
    <2>2. CASE ObtainHub(g)
      BY <2>2, EnrichedObtain
    <2>3. CASE HubCall(g)
      BY <2>3, EnrichedWithScope, EnrichedEnd, EnrichedAnnotate, EnrichedCapture DEF HubCall
    <2>4. CASE Vouch(g) \/ BuildEvent(g) \/ Deliver(g)
      BY <2>4, EnrichedRead, EnrichedMark DEF BuildEvent
    <2> QED
      BY <2>1, <2>2, <2>3, <2>4
  <1> QED
    BY <1>1, <1>2

LEMMA EnrichedIsEnough == Inv /\ Enriched => CaptureIsEnriched
  <1> SUFFICES ASSUME Inv, Enriched, NEW g \in Goroutines, Complete(g),
                      draft[g].scope = current[hub[g]], NEW m \in made[g]
               PROVE  Tells(g, draft[g], m)
    BY DEF CaptureIsEnriched, Tells
  <1>1. hub[g] = g /\ ReadSoFar(g)
    BY DEF Enriched, Chained, Complete
  <1> QED
    BY <1>1 DEF ReadSoFar, Complete

\* Where no goroutine is handed another's hub, an event captured through a hub has a
\* value for every key that its goroutine set through that hub or in the callbacks around
\* the capture, the innermost one and its own unless both are on the request's scope,
\* and every breadcrumb that later ones have not taken the room of, however many scopes
\* there are and whatever maxBreadcrumbs is (span.go:375-376, 523-527, 602, 629-632).
THEOREM CapturesAreEnriched ==
  ASSUME "share" \notin Ways
  PROVE  HubSpec => []CaptureIsEnriched
  <1>1. HubInit => Enriched /\ Separate
    BY EnrichedInit, SeparateInit
  <1>2. /\ Inv /\ Inv' /\ Enriched /\ Separate /\ [HubNext]_hubVars
        => Enriched' /\ Separate'
    BY EnrichedStep, SeparateStep
  <1>3. Inv /\ Enriched => CaptureIsEnriched
    BY EnrichedIsEnough
  <1> QED
    BY <1>1, <1>2, <1>3, InvHolds, PTL DEF HubSpec
=============================================================================
