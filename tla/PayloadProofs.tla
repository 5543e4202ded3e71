---------------------------- MODULE PayloadProofs ----------------------------
(***************************************************************************)
(* Proofs about Payload, for any items, keys and sources of tags.          *)
(***************************************************************************)
EXTENDS PayloadProperties, FiniteSetTheorems, SequenceTheorems, TLAPS

\* A set of positions that is not empty has a last one.
LEMMA LastPosition ==
  ASSUME NEW n \in Nat, NEW T \in SUBSET (1 .. n), T # {}
  PROVE  \E x \in T : \A y \in T : y <= x
  <1> DEFINE D == {d \in Nat : n - d \in T}
  <1>1. D # {} /\ D \subseteq Nat
    <2>1. PICK x \in T : TRUE
      OBVIOUS
    <2>2. n - x \in Nat /\ n - (n - x) = x
      OBVIOUS
    <2> QED
      BY <2>1, <2>2
  <1>2. PICK d \in D : \A e \in D : ~(<<e, d>> \in OpToRel(<, Nat))
    <2> HIDE DEF D
    <2> QED
      BY <1>1, NatLessThanWellFounded, WFMin, Zenon
  <1>3. \A e \in D : ~(e < d)
    BY <1>1, <1>2 DEF OpToRel
  <1>4. \A y \in T : y <= n - d
    <2> SUFFICES ASSUME NEW y \in T PROVE y <= n - d
      OBVIOUS
    <2>1. n - y \in Nat /\ n - (n - y) = y
      OBVIOUS
    <2>2. n - y \in D
      BY <2>1
    <2> QED
      BY <1>3, <2>1, <2>2
  <1> QED
    BY <1>4

\* A finite set as a sequence: each element once.
LEMMA SetToSeqFacts ==
  ASSUME NEW S, IsFiniteSet(S)
  PROVE  /\ SetToSeq(S) \in Seq(S)
         /\ \A x \in S : \E n \in DOMAIN SetToSeq(S) : SetToSeq(S)[n] = x
         /\ \A m, n \in DOMAIN SetToSeq(S) : SetToSeq(S)[m] = SetToSeq(S)[n] => m = n
  <1> DEFINE c == Cardinality(S)
             f == SetToSeq(S)
  <1>1. c \in Nat /\ ExistsBijection(1 .. c, S)
    BY FS_CardinalityType
  <1>2. \E g \in [1 .. c -> S] : IsInjective(g)
    BY <1>1 DEF ExistsBijection, Bijection, Injection
  <1>3. f \in [1 .. c -> S] /\ IsInjective(f)
    BY <1>2 DEF SetToSeq
  <1>4. IsFiniteSet(1 .. c) /\ Cardinality(1 .. c) = c
    BY <1>1, FS_Interval
  <1> HIDE DEF c, f
  <1>5. f \in Injection(1 .. c, S)
    BY <1>3 DEF Injection
  <1>6. f \in Surjection(1 .. c, S)
    BY <1>4, <1>5, FS_Injection DEF c
  <1>7. f \in Seq(S) /\ DOMAIN f = 1 .. c
    BY <1>1, <1>3
  <1> QED
    BY <1>3, <1>6, <1>7 DEF Surjection, IsInjective, f

-----------------------------------------------------------------------------
(***************************************************************************)
(* What a list of tags is made of.                                         *)
(***************************************************************************)

AllSources == {"options", "client", "scope", "span", "browser", "call", "host"}
Rank == [options |-> 1, client |-> 2, scope |-> 3, span |-> 4, browser |-> 5, call |-> 6,
         host |-> 7]

\* The list has the tags of each source in S and no others, in the order in which the
\* source gave them; the more specific sources come later, and the host's tags last.
Filed(list, keysOf, S) ==
  /\ list \in Seq(Tag)
  /\ \A n \in DOMAIN list : /\ list[n].from \in S
                            /\ list[n].nth \in DOMAIN keysOf[list[n].from]
                            /\ list[n].key = keysOf[list[n].from][list[n].nth]
  /\ \A s \in S : \A p \in DOMAIN keysOf[s] :
       \E n \in DOMAIN list : list[n].nth = p /\ list[n].from = s
  /\ \A m, n \in DOMAIN list : m <= n => Rank[list[m].from] <= Rank[list[n].from]
  /\ \A m, n \in DOMAIN list :
       m <= n /\ list[m].from = list[n].from => list[m].nth <= list[n].nth

\* The keys of each source: what an item was given, and what it has from the host.
KeysFrom(g, hostKeys) ==
  [s \in AllSources |-> IF s = "host" THEN hostKeys ELSE g[s]]

Given == [Range(Sources) -> Seq(Keys)]

\* The sources of an item that has not been enriched.
Early == {"scope", "span", "browser", "call"}

LEMMA SourcesFacts ==
  /\ Range(Sources) = {"options", "client", "scope", "span", "browser", "call"}
  /\ DOMAIN Sources = 1 .. 6
  /\ \A n \in 1 .. 6 : Sources[n] \in Range(Sources) /\ Rank[Sources[n]] = n
  /\ \A s \in Range(Sources) : Rank[s] \in 1 .. 6 /\ Sources[Rank[s]] = s
  <1>1. DOMAIN Sources = 1 .. 6
    BY DEF Sources
  <1>2. /\ Sources[1] = "options" /\ Sources[2] = "client" /\ Sources[3] = "scope"
        /\ Sources[4] = "span" /\ Sources[5] = "browser" /\ Sources[6] = "call"
    BY DEF Sources
  <1>3. 1 .. 6 = {1, 2, 3, 4, 5, 6}
    OBVIOUS
  <1>4. Range(Sources) = {"options", "client", "scope", "span", "browser", "call"}
    BY <1>1, <1>2, <1>3 DEF Range
  <1> QED
    BY <1>1, <1>2, <1>3, <1>4 DEF Rank

\* The tags of one source.
LEMMA OneSource ==
  ASSUME NEW keysOf, NEW s \in AllSources, keysOf[s] \in Seq(Keys)
  PROVE  Filed(TagsOf(keysOf[s], s), keysOf, {s})
  <1> DEFINE f == TagsOf(keysOf[s], s)
             len == Len(keysOf[s])
  <1>1. len \in Nat /\ DOMAIN keysOf[s] = 1 .. len
        /\ \A n \in 1 .. len : keysOf[s][n] \in Keys
    BY LenProperties, ElementOfSeq
  <1>2. f = [n \in 1 .. len |->
               [key |-> keysOf[s][n], from |-> s, nth |-> n, redacted |-> FALSE]]
    BY <1>1 DEF TagsOf
  <1> HIDE DEF f, len
  <1>3. DOMAIN f = 1 .. len
    BY <1>2
  <1>4. ASSUME NEW n \in 1 .. len
        PROVE  /\ f[n] \in Tag
               /\ f[n].key = keysOf[s][n] /\ f[n].from = s /\ f[n].nth = n
    <2>1. f[n] = [key |-> keysOf[s][n], from |-> s, nth |-> n, redacted |-> FALSE]
      BY <1>2
    <2>2. /\ keysOf[s][n] \in Keys /\ s \in Range(Sources) \cup {"host"}
          /\ n \in Nat \ {0} /\ FALSE \in BOOLEAN
      BY <1>1, SourcesFacts DEF AllSources
    <2> QED
      BY <2>1, <2>2 DEF Tag
  <1>5. f \in Seq(Tag)
    <2>1. f \in [1 .. len -> Tag]
      BY <1>2, <1>4
    <2> QED
      BY <1>1, <2>1, SeqDef
  <1>6. Rank[s] \in Nat
    BY DEF Rank, AllSources
  <1> QED
    BY <1>1, <1>3, <1>4, <1>5, <1>6 DEF Filed, f

\* Tags of more specific sources after those of others.
LEMMA Joined ==
  ASSUME NEW keysOf, NEW S \in SUBSET AllSources, NEW T \in SUBSET AllSources,
         \A s \in S, t \in T : Rank[s] < Rank[t],
         NEW a, NEW b, Filed(a, keysOf, S), Filed(b, keysOf, T)
  PROVE  Filed(a \o b, keysOf, S \cup T)
  <1>1. a \in Seq(Tag) /\ b \in Seq(Tag)
    BY DEF Filed
  <1>2. /\ Len(a) \in Nat /\ DOMAIN a = 1 .. Len(a)
        /\ Len(b) \in Nat /\ DOMAIN b = 1 .. Len(b)
    BY <1>1, LenProperties
  <1> DEFINE c == a \o b
  <1>3. /\ c \in Seq(Tag) /\ DOMAIN c = 1 .. Len(a) + Len(b)
        /\ \A n \in 1 .. Len(a) + Len(b) :
             c[n] = IF n <= Len(a) THEN a[n] ELSE b[n - Len(a)]
    BY <1>1, ConcatProperties, LenProperties
  <1> HIDE DEF c
  <1>4. \A n \in DOMAIN a : n \in DOMAIN c /\ c[n] = a[n]
    BY <1>2, <1>3
  <1>5. \A n \in DOMAIN b : n + Len(a) \in DOMAIN c /\ c[n + Len(a)] = b[n]
    <2> SUFFICES ASSUME NEW n \in DOMAIN b
                 PROVE  n + Len(a) \in DOMAIN c /\ c[n + Len(a)] = b[n]
      OBVIOUS
    <2>1. n + Len(a) \in 1 .. Len(a) + Len(b) /\ ~(n + Len(a) <= Len(a))
          /\ (n + Len(a)) - Len(a) = n
      BY <1>2
    <2> QED
      BY <1>3, <2>1
  <1>6. \A n \in DOMAIN c :
          \/ n \in DOMAIN a /\ c[n] = a[n]
          \/ n > Len(a) /\ n - Len(a) \in DOMAIN b /\ c[n] = b[n - Len(a)]
    BY <1>2, <1>3
  <1>7. \A n \in DOMAIN c : /\ c[n].from \in S \cup T
                            /\ c[n].nth \in DOMAIN keysOf[c[n].from]
                            /\ c[n].key = keysOf[c[n].from][c[n].nth]
    BY <1>6 DEF Filed
  <1>8. \A s \in S \cup T : \A p \in DOMAIN keysOf[s] :
          \E n \in DOMAIN c : c[n].nth = p /\ c[n].from = s
    <2> SUFFICES ASSUME NEW s \in S \cup T, NEW p \in DOMAIN keysOf[s]
                 PROVE  \E n \in DOMAIN c : c[n].nth = p /\ c[n].from = s
      OBVIOUS
    <2>1. CASE s \in S
      <3>1. PICK n \in DOMAIN a : a[n].nth = p /\ a[n].from = s
        BY <2>1 DEF Filed
      <3> QED
        BY <1>4, <3>1
    <2>2. CASE s \in T
      <3>1. PICK n \in DOMAIN b : b[n].nth = p /\ b[n].from = s
        BY <2>2 DEF Filed
      <3> QED
        BY <1>5, <3>1
    <2> QED
      BY <2>1, <2>2
  <1>9. \A s \in AllSources : Rank[s] \in Nat
    BY DEF AllSources, Rank
  <1>10. ASSUME NEW m \in DOMAIN c, NEW n \in DOMAIN c
         PROVE  /\ m <= n => Rank[c[m].from] <= Rank[c[n].from]
                /\ m <= n /\ c[m].from = c[n].from => c[m].nth <= c[n].nth
    <2>1. CASE m \in DOMAIN a /\ c[m] = a[m]
      <3>1. CASE n \in DOMAIN a /\ c[n] = a[n]
        BY <2>1, <3>1 DEF Filed
      <3>2. CASE n > Len(a) /\ n - Len(a) \in DOMAIN b /\ c[n] = b[n - Len(a)]
        <4>1. c[m].from \in S /\ c[n].from \in T
          BY <2>1, <3>2 DEF Filed
        <4>2. Rank[c[m].from] < Rank[c[n].from]
          BY <4>1
        <4> QED
          BY <1>9, <4>1, <4>2
      <3> QED
        BY <1>6, <3>1, <3>2
    <2>2. CASE m > Len(a) /\ m - Len(a) \in DOMAIN b /\ c[m] = b[m - Len(a)]
      <3>1. CASE n \in DOMAIN a /\ c[n] = a[n]
        <4>1. c[n].from \in S /\ c[m].from \in T
          BY <2>2, <3>1 DEF Filed
        <4>2. Rank[c[n].from] < Rank[c[m].from]
          BY <4>1
        <4>3. ~(m <= n)
          <5>1. n \in Int /\ m \in Int /\ n <= Len(a) /\ Len(a) \in Int
            BY <1>2, <1>3, <3>1
          <5> QED
            BY <2>2, <5>1
        <4>4. c[m].from # c[n].from
          BY <1>9, <4>1, <4>2
        <4> QED
          BY <4>3, <4>4
      <3>2. CASE n > Len(a) /\ n - Len(a) \in DOMAIN b /\ c[n] = b[n - Len(a)]
        <4>1. /\ m - Len(a) <= n - Len(a) =>
                   Rank[b[m - Len(a)].from] <= Rank[b[n - Len(a)].from]
              /\ m - Len(a) <= n - Len(a) /\ b[m - Len(a)].from = b[n - Len(a)].from =>
                   b[m - Len(a)].nth <= b[n - Len(a)].nth
          BY <2>2, <3>2 DEF Filed
        <4>2. m \in Int /\ n \in Int /\ Len(a) \in Int
          BY <1>2, <1>3
        <4> QED
          BY <2>2, <3>2, <4>1, <4>2
      <3> QED
        BY <1>6, <3>1, <3>2
    <2> QED
      BY <1>6, <2>1, <2>2
  <1> QED
    BY <1>3, <1>7, <1>8, <1>10 DEF Filed, c

\* Only the sources of the list matter, and a source without keys may be among them.
LEMMA Refiled ==
  ASSUME NEW list, NEW keysOf, NEW others, NEW S, NEW T, Filed(list, keysOf, S),
         S \subseteq T, \A s \in S : others[s] = keysOf[s],
         \A s \in T \ S : others[s] = <<>>
  PROVE  Filed(list, others, T)
  <1>1. \A n \in DOMAIN list : /\ list[n].from \in T
                               /\ list[n].nth \in DOMAIN others[list[n].from]
                               /\ list[n].key = others[list[n].from][list[n].nth]
    BY DEF Filed
  <1>2. \A s \in T : \A p \in DOMAIN others[s] :
          \E n \in DOMAIN list : list[n].nth = p /\ list[n].from = s
    <2> SUFFICES ASSUME NEW s \in T, NEW p \in DOMAIN others[s]
                 PROVE  \E n \in DOMAIN list : list[n].nth = p /\ list[n].from = s
      OBVIOUS
    <2>1. s \in S /\ p \in DOMAIN keysOf[s]
      OBVIOUS
    <2> QED
      BY <2>1 DEF Filed
  <1> QED
    BY <1>1, <1>2 DEF Filed

\* Tags with the same keys at the same places of the same sources.
LEMMA Relisted ==
  ASSUME NEW a, NEW b \in Seq(Tag), NEW keysOf, NEW S, Filed(a, keysOf, S),
         DOMAIN b = DOMAIN a,
         \A n \in DOMAIN a :
           b[n].key = a[n].key /\ b[n].from = a[n].from /\ b[n].nth = a[n].nth
  PROVE  Filed(b, keysOf, S)
  BY DEF Filed

LEMMA FiledInContext ==
  ASSUME NEW g \in Given
  PROVE  Filed(TagsOf(g.scope, "scope") \o TagsOf(g.span, "span")
                 \o TagsOf(g.browser, "browser") \o TagsOf(g.call, "call"),
               KeysFrom(g, <<>>), Early)
  <1> DEFINE keys == KeysFrom(g, <<>>)
  <1>1. /\ keys["scope"] = g.scope /\ keys["span"] = g.span
        /\ keys["browser"] = g.browser /\ keys["call"] = g.call
        /\ Early \subseteq AllSources
    BY DEF KeysFrom, AllSources, Early
  <1>2. /\ g.scope \in Seq(Keys) /\ g.span \in Seq(Keys)
        /\ g.browser \in Seq(Keys) /\ g.call \in Seq(Keys)
    BY SourcesFacts DEF Given
  <1> HIDE DEF keys
  <1> DEFINE a == TagsOf(g.scope, "scope")
             b == TagsOf(g.span, "span")
             c == TagsOf(g.browser, "browser")
             d == TagsOf(g.call, "call")
  <1>3. /\ Filed(a, keys, {"scope"}) /\ Filed(b, keys, {"span"})
        /\ Filed(c, keys, {"browser"}) /\ Filed(d, keys, {"call"})
    BY <1>1, <1>2, OneSource DEF Early
  <1> HIDE DEF a, b, c, d
  <1>4. /\ \A s \in {"scope"}, t \in {"span"} : Rank[s] < Rank[t]
        /\ \A s \in {"scope"} \cup {"span"}, t \in {"browser"} : Rank[s] < Rank[t]
        /\ \A s \in {"scope"} \cup {"span"} \cup {"browser"}, t \in {"call"} :
             Rank[s] < Rank[t]
    BY DEF Rank
  <1>5. /\ {"scope"} \in SUBSET AllSources /\ {"span"} \in SUBSET AllSources
        /\ {"browser"} \in SUBSET AllSources /\ {"call"} \in SUBSET AllSources
        /\ {"scope"} \cup {"span"} \in SUBSET AllSources
        /\ {"scope"} \cup {"span"} \cup {"browser"} \in SUBSET AllSources
    BY DEF AllSources
  <1>6. Filed(a \o b, keys, {"scope"} \cup {"span"})
    BY <1>3, <1>4, <1>5, Joined
  <1>7. Filed(a \o b \o c, keys, {"scope"} \cup {"span"} \cup {"browser"})
    BY <1>3, <1>4, <1>5, <1>6, Joined
  <1>8. Filed(a \o b \o c \o d, keys, {"scope"} \cup {"span"} \cup {"browser"} \cup {"call"})
    BY <1>3, <1>4, <1>5, <1>7, Joined
  <1>9. {"scope"} \cup {"span"} \cup {"browser"} \cup {"call"} = Early
    BY DEF Early
  <1> QED
    BY <1>8, <1>9 DEF keys, a, b, c, d

LEMMA FiledByHand ==
  ASSUME NEW g \in Given, g.scope = <<>>, g.span = <<>>, g.browser = <<>>
  PROVE  Filed(TagsOf(g.call, "call"), KeysFrom(g, <<>>), Early)
  <1> DEFINE keys == KeysFrom(g, <<>>)
  <1>1. /\ keys["scope"] = <<>> /\ keys["span"] = <<>> /\ keys["browser"] = <<>>
        /\ keys["call"] = g.call /\ "call" \in AllSources
    BY DEF KeysFrom, AllSources
  <1>2. g.call \in Seq(Keys)
    BY SourcesFacts DEF Given
  <1> HIDE DEF keys
  <1>3. Filed(TagsOf(g.call, "call"), keys, {"call"})
    BY <1>1, <1>2, OneSource
  <1>4. Filed(TagsOf(g.call, "call"), keys, Early)
    <2>1. /\ {"call"} \subseteq Early
          /\ \A s \in {"call"} : keys[s] = keys[s]
          /\ \A s \in Early \ {"call"} : keys[s] = <<>>
      BY <1>1 DEF Early
    <2> QED
      BY <1>3, <2>1, Refiled
  <1> QED
    BY <1>4 DEF keys

LEMMA FiledWithClient ==
  ASSUME NEW g \in Given, NEW h \in Given, NEW list, \A s \in Early : h[s] = g[s],
         Filed(list, KeysFrom(g, <<>>), Early)
  PROVE  Filed(TagsOf(h.options, "options") \o TagsOf(h.client, "client") \o list,
               KeysFrom(h, <<>>), Range(Sources))
  <1> DEFINE keys == KeysFrom(h, <<>>)
             old == KeysFrom(g, <<>>)
  <1>1. /\ keys["options"] = h.options /\ keys["client"] = h.client
        /\ \A s \in Early : keys[s] = old[s]
        /\ {"options"} \in SUBSET AllSources /\ {"client"} \in SUBSET AllSources
        /\ {"options"} \cup {"client"} \in SUBSET AllSources /\ Early \in SUBSET AllSources
        /\ "client" \in AllSources /\ "options" \in AllSources
    BY DEF KeysFrom, AllSources, Early
  <1>2. h.options \in Seq(Keys) /\ h.client \in Seq(Keys)
    BY SourcesFacts DEF Given
  <1>3. Filed(list, old, Early)
    OBVIOUS
  <1> HIDE DEF keys, old
  <1> DEFINE a == TagsOf(h.options, "options")
             b == TagsOf(h.client, "client")
  <1>4. Filed(a, keys, {"options"}) /\ Filed(b, keys, {"client"})
    BY <1>1, <1>2, OneSource
  <1> HIDE DEF a, b
  <1>5. Filed(list, keys, Early)
    BY <1>1, <1>3, Refiled
  <1>6. /\ \A s \in {"options"}, t \in {"client"} : Rank[s] < Rank[t]
        /\ \A s \in {"options"} \cup {"client"}, t \in Early : Rank[s] < Rank[t]
    BY DEF Rank, Early
  <1>7. Filed(a \o b, keys, {"options"} \cup {"client"})
    BY <1>1, <1>4, <1>6, Joined
  <1>8. Filed(a \o b \o list, keys, {"options"} \cup {"client"} \cup Early)
    BY <1>1, <1>5, <1>6, <1>7, Joined
  <1>9. {"options"} \cup {"client"} \cup Early = Range(Sources)
    BY SourcesFacts DEF Early
  <1> QED
    BY <1>8, <1>9 DEF keys, a, b

\* Some source has the key.
Somewhere(key, g) == \E s \in Range(Sources) : Places(g[s], key) # {}

\* The tags of an item that has been enriched: the host's only where no other
\* source has a tag, and if it is hosted, wherever no other source has one.
Complete(list, g, hosted) ==
  \E K \in SUBSET HostKeys :
    /\ Filed(list, KeysFrom(g, SetToSeq(K)), AllSources)
    /\ \A k \in K : ~Somewhere(k, g)
    /\ hosted => \A k \in HostKeys \ K : Somewhere(k, g)

LEMMA HostList ==
  ASSUME NEW K \in SUBSET HostKeys
  PROVE  /\ SetToSeq(K) \in Seq(Keys)
         /\ \A n \in DOMAIN SetToSeq(K) : SetToSeq(K)[n] \in K
         /\ \A k \in K : \E n \in DOMAIN SetToSeq(K) : SetToSeq(K)[n] = k
  <1>1. K \subseteq Keys /\ IsFiniteSet(K)
    BY PayloadAssumption, FS_Subset
  <1>2. /\ SetToSeq(K) \in Seq(K)
        /\ \A k \in K : \E n \in DOMAIN SetToSeq(K) : SetToSeq(K)[n] = k
    BY <1>1, SetToSeqFacts
  <1>3. SetToSeq(K) \in Seq(Keys)
    BY <1>1, <1>2, SeqMonotonic
  <1>4. \A n \in DOMAIN SetToSeq(K) : SetToSeq(K)[n] \in K
    BY <1>2, LenProperties, ElementOfSeq
  <1> QED
    BY <1>2, <1>3, <1>4

LEMMA CompleteWithHost ==
  ASSUME NEW g \in Given, NEW list, Filed(list, KeysFrom(g, <<>>), Range(Sources))
  PROVE  Complete(list \o HostTags(list), g, TRUE)
  <1> DEFINE K == {k \in HostKeys : ~Has(list, k)}
             f == SetToSeq(K)
             keys == KeysFrom(g, f)
             old == KeysFrom(g, <<>>)
  <1>1. /\ K \in SUBSET HostKeys
        /\ keys["host"] = f /\ "host" \in AllSources
        /\ \A s \in Range(Sources) : keys[s] = old[s] /\ keys[s] = g[s]
        /\ Range(Sources) \in SUBSET AllSources /\ {"host"} \in SUBSET AllSources
    BY SourcesFacts, PayloadAssumption DEF KeysFrom, AllSources
  <1>2. Filed(list, old, Range(Sources))
    OBVIOUS
  <1>3. f \in Seq(Keys)
    <2> HIDE DEF K
    <2> QED
      BY <1>1, HostList
  <1>4. HostTags(list) = TagsOf(f, "host")
    BY DEF HostTags
  <1> HIDE DEF keys, old, f
  <1>5. Filed(list, keys, Range(Sources))
    BY <1>1, <1>2, Refiled
  <1>6. Filed(TagsOf(f, "host"), keys, {"host"})
    BY <1>1, <1>3, OneSource
  <1>7. \A s \in Range(Sources), t \in {"host"} : Rank[s] < Rank[t]
    BY SourcesFacts DEF Rank
  <1>8. Filed(list \o TagsOf(f, "host"), keys, Range(Sources) \cup {"host"})
    BY <1>1, <1>5, <1>6, <1>7, Joined
  <1>9. Range(Sources) \cup {"host"} = AllSources
    BY SourcesFacts DEF AllSources
  <1>10. \A k \in K : ~Somewhere(k, g)
    <2> SUFFICES ASSUME NEW k \in K, NEW s \in Range(Sources), NEW p \in Places(g[s], k)
                 PROVE  FALSE
      BY DEF Somewhere
    <2>1. p \in DOMAIN keys[s] /\ keys[s][p] = k
      BY <1>1 DEF Places
    <2>2. PICK n \in DOMAIN list : list[n].nth = p /\ list[n].from = s
      BY <1>5, <2>1 DEF Filed
    <2>3. list[n].key = k
      BY <1>5, <2>1, <2>2 DEF Filed
    <2> QED
      BY <2>3 DEF Has
  <1>11. \A k \in HostKeys \ K : Somewhere(k, g)
    <2> SUFFICES ASSUME NEW k \in HostKeys \ K PROVE Somewhere(k, g)
      OBVIOUS
    <2>1. PICK n \in DOMAIN list : list[n].key = k
      BY DEF Has
    <2>2. /\ list[n].from \in Range(Sources)
          /\ list[n].nth \in DOMAIN keys[list[n].from]
          /\ keys[list[n].from][list[n].nth] = k
      BY <1>5, <2>1 DEF Filed
    <2>3. list[n].nth \in Places(g[list[n].from], k)
      BY <1>1, <2>2 DEF Places
    <2> QED
      BY <2>2, <2>3 DEF Somewhere
  <1>12. Filed(list \o HostTags(list), KeysFrom(g, SetToSeq(K)), AllSources)
    BY <1>4, <1>8, <1>9 DEF keys, f
  <1> QED
    BY <1>1, <1>10, <1>11, <1>12 DEF Complete

LEMMA CompleteRecord ==
  ASSUME NEW g \in Given, NEW list, Filed(list, KeysFrom(g, <<>>), Range(Sources))
  PROVE  Complete(list \o <<>>, g, FALSE)
  <1> DEFINE keys == KeysFrom(g, SetToSeq({}))
             old == KeysFrom(g, <<>>)
  <1>1. SetToSeq({}) = <<>>
    <2>1. {} \in SUBSET HostKeys
      OBVIOUS
    <2>2. /\ SetToSeq({}) \in Seq(Keys)
          /\ \A n \in DOMAIN SetToSeq({}) : SetToSeq({})[n] \in {}
      BY ONLY <2>1, HostList
    <2>3. PICK f \in Seq(Keys) : f = SetToSeq({})
      BY <2>2
    <2>4. Len(f) \in Nat /\ DOMAIN f = 1 .. Len(f) /\ DOMAIN f = {}
      BY <2>2, <2>3, LenProperties
    <2>5. Len(f) = 0
      BY <2>4
    <2>6. f = <<>>
      BY <2>3, <2>5, EmptySeq
    <2> QED
      BY <2>3, <2>6
  <1>2. /\ keys["host"] = <<>> /\ Range(Sources) \subseteq AllSources
        /\ AllSources \ Range(Sources) = {"host"}
        /\ \A s \in Range(Sources) : keys[s] = old[s]
    BY <1>1, SourcesFacts DEF KeysFrom, AllSources
  <1>3. Filed(list, old, Range(Sources))
    OBVIOUS
  <1> HIDE DEF keys, old
  <1>4. Filed(list, keys, AllSources)
    BY <1>2, <1>3, Refiled
  <1>5. list \o <<>> = list
    BY <1>4, ConcatEmptySeq DEF Filed
  <1>6. Filed(list \o <<>>, KeysFrom(g, SetToSeq({})), AllSources)
    BY <1>4, <1>5 DEF keys
  <1> QED
    BY <1>6 DEF Complete

\* The last of some positions.
LEMMA LastIsThere ==
  ASSUME NEW n \in Nat, NEW T \in SUBSET (1 .. n), T # {}
  PROVE  Max(T) \in T /\ \A y \in T : y <= Max(T)
  <1>1. PICK x \in T : \A y \in T : y <= x
    BY LastPosition
  <1>2. \A y \in T : x >= y
    BY <1>1
  <1>3. Max(T) \in T /\ \A y \in T : Max(T) >= y
    BY <1>1, <1>2 DEF Max
  <1> QED
    BY <1>3

\* The most specific of the sources that have the key.
Highest(s, keysOf, key) ==
  /\ Places(keysOf[s], key) # {}
  /\ \A t \in AllSources : Places(keysOf[t], key) # {} => Rank[t] <= Rank[s]

\* The last tag with a key is the last one of the most specific source that has it.
LEMMA LastTag ==
  ASSUME NEW list, NEW keysOf, NEW key, NEW s \in AllSources,
         Filed(list, keysOf, AllSources), keysOf[s] \in Seq(Keys),
         Highest(s, keysOf, key)
  PROVE  Winner(list, key).from = s /\ Winner(list, key).nth = Max(Places(keysOf[s], key))
  <1> DEFINE found == {n \in DOMAIN list : list[n].key = key}
             places == Places(keysOf[s], key)
  <1>1. Len(list) \in Nat /\ DOMAIN list = 1 .. Len(list)
    BY LenProperties DEF Filed
  <1>2. /\ Len(keysOf[s]) \in Nat /\ places \in SUBSET (1 .. Len(keysOf[s]))
        /\ places # {}
    BY LenProperties DEF Highest, Places
  <1>3. Max(places) \in places /\ \A p \in places : p <= Max(places)
    <2> HIDE DEF places
    <2> QED
      BY <1>2, LastIsThere
  <1>4. PICK top \in places : top = Max(places)
    BY <1>3
  <1>5. top \in DOMAIN keysOf[s] /\ keysOf[s][top] = key
    BY <1>4 DEF Places
  <1>6. PICK n \in DOMAIN list : list[n].nth = top /\ list[n].from = s
    BY <1>5 DEF Filed
  <1>7. n \in found
    BY <1>5, <1>6 DEF Filed
  <1>8. Max(found) \in found /\ \A y \in found : y <= Max(found)
    <2>1. found \in SUBSET (1 .. Len(list)) /\ found # {}
      BY <1>1, <1>7
    <2> HIDE DEF found
    <2> QED
      BY <1>1, <2>1, LastIsThere
  <1>9. PICK last \in found : last = Max(found)
    BY <1>8
  <1>10. Winner(list, key) = list[last]
    BY <1>9 DEF Winner
  <1>11. n <= last
    BY <1>7, <1>8, <1>9
  <1>12. /\ last \in DOMAIN list /\ list[last].key = key
         /\ list[last].from \in AllSources
         /\ list[last].nth \in Places(keysOf[list[last].from], key)
    BY <1>9 DEF Filed, Places
  <1>13. Rank[list[last].from] <= Rank[s]
    BY <1>12 DEF Highest
  <1>14. Rank[s] <= Rank[list[last].from]
    BY <1>6, <1>11, <1>12 DEF Filed
  <1>15. \A t, u \in AllSources : Rank[t] <= Rank[u] /\ Rank[u] <= Rank[t] => t = u
    BY DEF Rank, AllSources
  <1>16. list[last].from = s
    BY <1>12, <1>13, <1>14, <1>15
  <1>17. list[last].nth <= top
    BY <1>3, <1>4, <1>12, <1>16
  <1>18. top <= list[last].nth
    BY <1>6, <1>11, <1>12, <1>16 DEF Filed
  <1>19. list[last].nth = top
    <2>1. top \in Int /\ list[last].nth \in Int
      BY <1>2, <1>4, <1>12, <1>16
    <2> QED
      BY <1>17, <1>18, <2>1
  <1> QED
    BY <1>4, <1>10, <1>16, <1>19

\* The positions of the sources that have the key, and what MostSpecificTagWins asks
\* of a list.
Having(g, key) == {n \in DOMAIN Sources : Places(g[Sources[n]], key) # {}}
Answers(list, g, key, hosted) ==
  /\ Having(g, key) # {} =>
       /\ Winner(list, key).from = Sources[Max(Having(g, key))]
       /\ Winner(list, key).nth = Max(Places(g[Sources[Max(Having(g, key))]], key))
  /\ Having(g, key) = {} /\ key \in HostKeys /\ hosted => Winner(list, key).from = "host"

LEMMA CompleteWins ==
  ASSUME NEW g \in Given, NEW list, NEW hosted \in BOOLEAN, Complete(list, g, hosted),
         NEW key
  PROVE  Answers(list, g, key, hosted)
  <1> DEFINE having == Having(g, key)
  <1>1. PICK K \in SUBSET HostKeys :
          /\ Filed(list, KeysFrom(g, SetToSeq(K)), AllSources)
          /\ \A k \in K : ~Somewhere(k, g)
          /\ hosted => \A k \in HostKeys \ K : Somewhere(k, g)
    BY DEF Complete
  <1> DEFINE keys == KeysFrom(g, SetToSeq(K))
  <1>2. /\ keys["host"] = SetToSeq(K) /\ \A s \in Range(Sources) : keys[s] = g[s]
        /\ AllSources = Range(Sources) \cup {"host"}
        /\ Rank["host"] = 7
    BY SourcesFacts DEF KeysFrom, AllSources, Rank
  <1>3. Filed(list, keys, AllSources)
    BY <1>1
  <1> HIDE DEF keys
  <1>4. /\ having = {n \in DOMAIN Sources : Places(g[Sources[n]], key) # {}}
        /\ having \in SUBSET (1 .. 6)
    BY SourcesFacts DEF Having
  <1> HIDE DEF having
  <1>5. Places(keys["host"], key) # {} => key \in K
    BY <1>1, <1>2, HostList DEF Places
  <1>6. ASSUME having # {}
        PROVE  /\ Winner(list, key).from = Sources[Max(having)]
               /\ Winner(list, key).nth = Max(Places(g[Sources[Max(having)]], key))
    <2>1. Max(having) \in having /\ \A m \in having : m <= Max(having)
      <3>1. 6 \in Nat
        OBVIOUS
      <3> QED
        BY ONLY <1>4, <1>6, <3>1, LastIsThere
    <2>2. PICK last \in having : last = Max(having)
      BY <2>1
    <2>3. last \in 1 .. 6 /\ Places(g[Sources[last]], key) # {}
      BY <1>4, <2>2, SourcesFacts
    <2>4. Sources[last] \in Range(Sources) /\ Rank[Sources[last]] = last
      BY <2>3, SourcesFacts
    <2>5. PICK s \in AllSources : s = Sources[last]
      BY <1>2, <2>4
    <2>6. keys[s] = g[s] /\ keys[s] \in Seq(Keys) /\ Places(keys[s], key) # {}
      BY <1>2, <2>3, <2>4, <2>5 DEF Given
    <2>7. ASSUME NEW t \in AllSources, Places(keys[t], key) # {}
          PROVE  Rank[t] <= Rank[s]
      <3>1. CASE t \in Range(Sources)
        <4>1. Rank[t] \in 1 .. 6 /\ Sources[Rank[t]] = t /\ DOMAIN Sources = 1 .. 6
          BY <3>1, SourcesFacts
        <4>2. Places(g[Sources[Rank[t]]], key) # {}
          BY <1>2, <2>7, <3>1, <4>1
        <4>3. Rank[t] <= last
          BY <1>4, <2>1, <2>2, <4>1, <4>2
        <4> QED
          BY <2>4, <2>5, <4>3
      <3>2. CASE t = "host"
        <4>1. key \in K
          BY <1>5, <2>7, <3>2
        <4>2. Somewhere(key, g)
          BY <2>3, <2>4 DEF Somewhere
        <4> QED
          BY <1>1, <4>1, <4>2
      <3> QED
        BY <1>2, <3>1, <3>2
    <2>8. /\ Winner(list, key).from = s
          /\ Winner(list, key).nth = Max(Places(keys[s], key))
      <3>1. s \in AllSources /\ keys[s] \in Seq(Keys) /\ Highest(s, keys, key)
        BY <2>6, <2>7 DEF Highest
      <3> QED
        BY ONLY <1>3, <3>1, LastTag, Zenon
    <2> QED
      BY <2>2, <2>5, <2>6, <2>8
  <1>7. ASSUME having = {}, key \in HostKeys, hosted PROVE Winner(list, key).from = "host"
    <2>1. \A s \in Range(Sources) : Places(g[s], key) = {}
      BY <1>4, <1>7, SourcesFacts
    <2>2. key \in K
      BY <1>1, <1>7, <2>1 DEF Somewhere
    <2>3. keys["host"] \in Seq(Keys) /\ Places(keys["host"], key) # {}
      BY <1>2, <2>2, HostList DEF Places
    <2>4. \A t \in AllSources : Places(keys[t], key) # {} => Rank[t] <= Rank["host"]
      BY <1>2, <2>1
    <2>5. "host" \in AllSources /\ Highest("host", keys, key)
      BY <1>2, <2>3, <2>4 DEF Highest
    <2> QED
      BY ONLY <1>3, <2>3, <2>5, LastTag, Zenon
  <1> QED
    BY <1>6, <1>7 DEF Answers, having

-----------------------------------------------------------------------------
(***************************************************************************)
(* The invariant.                                                          *)
(***************************************************************************)

TypeInv ==
  /\ step \in [Items -> {"new", "built", "enriched", "scrubbing", "queued", "sending",
                       "marshalling", "sent", "dropped"}]
  /\ kind \in [Items -> Kinds]
  /\ tags \in [Items -> Seq(Tag)]
  /\ request \in [Items -> Requests \cup {"none"}]
  /\ headers \in [Requests -> {"raw", "redacted"}]
  /\ global \in Seq(Keys)
  /\ \A m, n \in DOMAIN global : global[m] = global[n] => m = n
  /\ given \in [Items -> Given]
  /\ crashed \in BOOLEAN

Contents(i) ==
  /\ step[i] = "new" => /\ given[i].scope = <<>> /\ given[i].span = <<>>
                        /\ given[i].browser = <<>>
  /\ step[i] = "built" => Filed(tags[i], KeysFrom(given[i], <<>>), Early)
  /\ step[i] \notin {"new", "built"} => Complete(tags[i], given[i], kind[i] # "log")

\* From the scrubber's loop over the tags on, and from its end on.
Scrubbed(i) ==
  kind[i] = "event" =>
    /\ step[i] = "scrubbing" \/ OnItsWay(i) =>
         \A n \in DOMAIN tags[i] : tags[i][n].key \in Sensitive => tags[i][n].redacted
    /\ OnItsWay(i) /\ request[i] # "none" => headers[request[i]] = "redacted"

Inv == TypeInv /\ \A i \in Items : Contents(i) /\ Scrubbed(i)

LEMMA InitInv == Init => Inv
  <1> SUFFICES ASSUME Init PROVE Inv
    OBVIOUS
  <1>1. NothingGiven \in Given
    BY DEF NothingGiven, Given
  <1>2. {"scope", "span", "browser"} \subseteq Range(Sources)
    BY SourcesFacts
  <1>3. TypeInv
    <2>1. tags \in [Items -> Seq(Tag)]
      <3>1. <<>> \in Seq(Tag)
        OBVIOUS
      <3> QED
        BY <3>1 DEF Init
    <2>2. given \in [Items -> Given] /\ crashed \in BOOLEAN
      BY <1>1 DEF Init
    <2>5. global \in Seq(Keys) /\ \A m, n \in DOMAIN global : global[m] = global[n] => m = n
      BY DEF Init
    <2>3. step \in [Items -> {"new", "built", "enriched", "scrubbing", "queued", "sending",
                             "marshalling", "sent", "dropped"}]
      BY DEF Init
    <2>4. /\ kind \in [Items -> Kinds] /\ request \in [Items -> Requests \cup {"none"}]
          /\ headers \in [Requests -> {"raw", "redacted"}]
      BY DEF Init, Kinds
    <2> QED
      BY <2>1, <2>2, <2>3, <2>4, <2>5 DEF TypeInv
  <1>4. \A i \in Items : Contents(i)
    BY <1>2 DEF Init, Contents, NothingGiven
  <1>5. \A i \in Items : Scrubbed(i)
    BY DEF Init, Scrubbed, OnItsWay
  <1> QED
    BY <1>3, <1>4, <1>5 DEF Inv

\* An item that a step leaves alone.
LEMMA Elsewhere ==
  ASSUME Inv, NEW i \in Items,
         step'[i] = step[i], kind'[i] = kind[i], tags'[i] = tags[i],
         request'[i] = request[i], given'[i] = given[i],
         \A r \in Requests : headers'[r] \in {headers[r], "redacted"}
  PROVE  (Contents(i) /\ Scrubbed(i))'
  <1>1. Contents(i) /\ Scrubbed(i) /\ request[i] \in Requests \cup {"none"}
    BY DEF Inv, TypeInv
  <1>2. Contents(i)'
    BY <1>1 DEF Contents
  <1>3. OnItsWay(i)' <=> OnItsWay(i)
    BY DEF OnItsWay
  <1>4. Scrubbed(i)'
    BY <1>1, <1>3 DEF Scrubbed
  <1> QED
    BY <1>2, <1>4

\* A step of one item: what it leaves alone keeps its invariant.
Only(i) ==
  /\ \A j \in Items \ {i} : /\ step'[j] = step[j] /\ kind'[j] = kind[j]
                            /\ tags'[j] = tags[j] /\ request'[j] = request[j]
                            /\ given'[j] = given[j]
  /\ \A r \in Requests : headers'[r] \in {headers[r], "redacted"}

LEMMA OneItem ==
  ASSUME Inv, NEW i \in Items, Only(i), TypeInv', Contents(i)', Scrubbed(i)'
  PROVE  Inv'
  <1>1. ASSUME NEW j \in Items PROVE (Contents(j) /\ Scrubbed(j))'
    <2>1. CASE j = i
      BY <2>1
    <2>2. CASE j # i
      BY <2>2, Elsewhere DEF Only
    <2> QED
      BY <2>1, <2>2
  <1> QED
    BY <1>1 DEF Inv

\* A list without one of its elements.
LEMMA RemoveAtFacts ==
  ASSUME NEW S, NEW s \in Seq(S), \A m, n \in DOMAIN s : s[m] = s[n] => m = n,
         NEW i \in DOMAIN s
  PROVE  /\ RemoveAt(s, i) \in Seq(S)
         /\ \A m, n \in DOMAIN RemoveAt(s, i) :
              RemoveAt(s, i)[m] = RemoveAt(s, i)[n] => m = n
  <1> DEFINE a == SubSeq(s, 1, i - 1)
             b == SubSeq(s, i + 1, Len(s))
             c == a \o b
  <1>1. Len(s) \in Nat /\ DOMAIN s = 1 .. Len(s) /\ i \in 1 .. Len(s)
    BY LenProperties
  <1>2. /\ a \in Seq(S) /\ Len(a) = i - 1
        /\ \A n \in 1 .. i - 1 : a[n] = s[n]
    <2>1. \A n \in 1 .. i - 1 : s[n] \in S
      BY <1>1, ElementOfSeq
    <2>2. /\ a \in Seq(S)
          /\ Len(a) = IF 1 <= i - 1 THEN (i - 1) - 1 + 1 ELSE 0
          /\ \A n \in 1 .. (i - 1) - 1 + 1 : a[n] = s[1 + n - 1]
      <3>1. 1 \in Int /\ i - 1 \in Int
        BY <1>1
      <3> QED
        BY <2>1, <3>1, SubSeqProperties DEF a
    <2> HIDE DEF a
    <2> QED
      BY <1>1, <2>2
  <1>3. /\ b \in Seq(S) /\ Len(b) = Len(s) - i
        /\ \A n \in 1 .. Len(s) - i : b[n] = s[i + n]
    <2>1. \A n \in i + 1 .. Len(s) : s[n] \in S
      BY <1>1, ElementOfSeq
    <2>2. /\ b \in Seq(S)
          /\ Len(b) = IF i + 1 <= Len(s) THEN Len(s) - (i + 1) + 1 ELSE 0
          /\ \A n \in 1 .. Len(s) - (i + 1) + 1 : b[n] = s[i + 1 + n - 1]
      <3>1. i + 1 \in Int /\ Len(s) \in Int
        BY <1>1
      <3> QED
        BY <2>1, <3>1, SubSeqProperties DEF b
    <2>3. Len(s) - (i + 1) + 1 = Len(s) - i
      BY <1>1
    <2>4. Len(b) = Len(s) - i
      <3>1. CASE i + 1 <= Len(s)
        BY <2>2, <2>3, <3>1
      <3>2. CASE ~(i + 1 <= Len(s))
        <4>1. Len(b) = 0
          BY <2>2, <3>2
        <4>2. Len(s) - i = 0
          BY <1>1, <3>2
        <4> QED
          BY <4>1, <4>2
      <3> QED
        BY <3>1, <3>2
    <2>5. ASSUME NEW n \in 1 .. Len(s) - i PROVE b[n] = s[i + n]
      <3>1. n \in 1 .. Len(s) - (i + 1) + 1
        BY <2>3
      <3>2. b[n] = s[i + 1 + n - 1]
        BY <2>2, <3>1
      <3>3. i + 1 + n - 1 = i + n
        BY <1>1
      <3> QED
        BY <3>2, <3>3
    <2> QED
      BY <2>2, <2>4, <2>5
  <1> HIDE DEF a, b
  <1>4. /\ c \in Seq(S) /\ DOMAIN c = 1 .. Len(s) - 1
        /\ \A n \in 1 .. Len(s) - 1 :
             c[n] = IF n <= i - 1 THEN a[n] ELSE b[n - (i - 1)]
    <2>1. c \in Seq(S) /\ Len(c) = Len(a) + Len(b)
          /\ \A n \in 1 .. Len(a) + Len(b) :
               c[n] = IF n <= Len(a) THEN a[n] ELSE b[n - Len(a)]
      BY <1>2, <1>3, ConcatProperties
    <2>2. DOMAIN c = 1 .. Len(c)
      BY <2>1, LenProperties
    <2> HIDE DEF c
    <2>3. Len(a) + Len(b) = Len(s) - 1
      BY <1>1, <1>2, <1>3
    <2> QED
      BY <1>2, <2>1, <2>2, <2>3
  <1> HIDE DEF c
  <1>5. ASSUME NEW n \in DOMAIN c
        PROVE  /\ n \in 1 .. Len(s) - 1
               /\ n <= i - 1 => c[n] = s[n]
               /\ ~(n <= i - 1) => c[n] = s[n + 1]
    <2>1. n \in 1 .. Len(s) - 1
      BY <1>4
    <2>2. CASE n <= i - 1
      BY <1>1, <1>2, <1>4, <2>1, <2>2
    <2>3. CASE ~(n <= i - 1)
      <3>1. n - (i - 1) \in 1 .. Len(s) - i /\ i + (n - (i - 1)) = n + 1
        BY <1>1, <2>1, <2>3
      <3>2. c[n] = b[n - (i - 1)]
        BY <1>4, <2>1, <2>3
      <3> QED
        BY <1>3, <2>1, <2>3, <3>1, <3>2
    <2> QED
      BY <2>1, <2>2, <2>3
  <1>6. ASSUME NEW m \in DOMAIN c, NEW n \in DOMAIN c, c[m] = c[n] PROVE m = n
    <2>1. m \in 1 .. Len(s) - 1 /\ n \in 1 .. Len(s) - 1
      BY <1>5
    <2>2. m \in DOMAIN s /\ m + 1 \in DOMAIN s /\ n \in DOMAIN s /\ n + 1 \in DOMAIN s
      BY <1>1, <2>1
    <2>3. CASE m <= i - 1 /\ n <= i - 1
      BY <1>5, <1>6, <2>2, <2>3
    <2>4. CASE m <= i - 1 /\ ~(n <= i - 1)
      <3>1. m = n + 1
        BY <1>5, <1>6, <2>2, <2>4
      <3> QED
        BY <1>1, <2>1, <2>4, <3>1
    <2>5. CASE ~(m <= i - 1) /\ n <= i - 1
      <3>1. m + 1 = n
        BY <1>5, <1>6, <2>2, <2>5
      <3> QED
        BY <1>1, <2>1, <2>5, <3>1
    <2>6. CASE ~(m <= i - 1) /\ ~(n <= i - 1)
      <3>1. m + 1 = n + 1
        BY <1>5, <1>6, <2>2, <2>6
      <3> QED
        BY <2>1, <3>1
    <2> QED
      BY <2>3, <2>4, <2>5, <2>6
  <1>7. RemoveAt(s, i) = c
    BY DEF RemoveAt, a, b, c
  <1> QED
    BY <1>4, <1>6, <1>7

LEMMA SetTagStep ==
  ASSUME Inv, NEW key \in Keys, SetTag(key) \/ RemoveTag(key)
  PROVE  Inv'
  <1>1. UNCHANGED <<step, kind, tags, request, headers, given, crashed>>
    BY DEF SetTag, RemoveTag
  <1>2. /\ global \in Seq(Keys)
        /\ \A m, n \in DOMAIN global : global[m] = global[n] => m = n
    BY DEF Inv, TypeInv
  <1>3. /\ global' \in Seq(Keys)
        /\ \A m, n \in DOMAIN global' : global'[m] = global'[n] => m = n
    <2>1. CASE SetTag(key)
      <3>1. global' = Append(global, key) /\ key \notin Range(global)
        BY <2>1 DEF SetTag
      <3>2. \A n \in DOMAIN global : global[n] # key
        BY <3>1 DEF Range
      <3>3. /\ global' \in Seq(Keys) /\ Len(global) \in Nat
            /\ DOMAIN global = 1 .. Len(global) /\ DOMAIN global' = 1 .. Len(global) + 1
            /\ \A n \in 1 .. Len(global) : global'[n] = global[n]
            /\ global'[Len(global) + 1] = key
        BY <1>2, <3>1, AppendProperties, LenProperties
      <3>4. ASSUME NEW n \in DOMAIN global'
            PROVE  \/ n \in DOMAIN global /\ global'[n] = global[n]
                   \/ n = Len(global) + 1 /\ global'[n] = key
        BY <3>3
      <3> QED
        BY <1>2, <3>2, <3>3, <3>4
    <2>2. CASE RemoveTag(key)
      <3>1. PICK n \in DOMAIN global : global' = RemoveAt(global, n)
        BY <2>2 DEF RemoveTag
      <3> QED
        BY <1>2, <3>1, RemoveAtFacts
    <2> QED
      BY <2>1, <2>2
  <1>4. TypeInv'
    BY <1>1, <1>3 DEF Inv, TypeInv
  <1>5. ASSUME NEW j \in Items PROVE (Contents(j) /\ Scrubbed(j))'
    BY <1>1, Elsewhere
  <1> QED
    BY <1>4, <1>5 DEF Inv

LEMMA ListsAreKeys ==
  ASSUME NEW i \in Items, NEW s \in Early, NEW list \in Lists[i][s]
  PROVE  list \in Seq(Keys)
  BY PayloadAssumption DEF Early

LEMMA BuildInContextStep ==
  ASSUME Inv, NEW i \in Items, NEW scope \in Lists[i].scope, NEW span \in Lists[i].span,
         NEW browser \in Lists[i].browser, NEW call \in Lists[i].call,
         NEW r \in {HubRequest, "none"},
         BuildInContext(i, scope, span, browser, call, r)
  PROVE  Inv'
  <1>1. /\ scope \in Seq(Keys) /\ span \in Seq(Keys) /\ browser \in Seq(Keys)
        /\ call \in Seq(Keys)
    BY ListsAreKeys DEF Early
  <1>2. given[i] \in Given /\ Early \subseteq Range(Sources)
    BY SourcesFacts DEF Inv, TypeInv, Early
  <1> DEFINE g == [given[i] EXCEPT !.scope = scope, !.span = span, !.browser = browser,
                                  !.call = call]
             list == TagsOf(scope, "scope") \o TagsOf(span, "span")
                       \o TagsOf(browser, "browser") \o TagsOf(call, "call")
  <1>3. g \in Given /\ g.scope = scope /\ g.span = span /\ g.browser = browser
        /\ g.call = call
    BY <1>1, <1>2 DEF Given, Early
  <1>4. given' = [given EXCEPT ![i] = g] /\ tags' = [tags EXCEPT ![i] = list]
    BY DEF BuildInContext
  <1> HIDE DEF g
  <1>5. Filed(list, KeysFrom(g, <<>>), Early)
    BY <1>3, FiledInContext
  <1> HIDE DEF list
  <1>6. list \in Seq(Tag)
    BY <1>5 DEF Filed
  <1>7. /\ step' = [step EXCEPT ![i] = "built"] /\ kind' = [kind EXCEPT ![i] = "event"]
        /\ request' = [request EXCEPT ![i] = r]
        /\ UNCHANGED <<headers, global, crashed>>
    BY DEF BuildInContext, Goes
  <1>8. TypeInv'
    <2>1. "event" \in Kinds /\ r \in Requests \cup {"none"}
      BY DEF Kinds, Requests
    <2> QED
      BY <1>3, <1>4, <1>6, <1>7, <2>1 DEF Inv, TypeInv
  <1>9. /\ step'[i] = "built" /\ tags'[i] = list /\ given'[i] = g
    BY <1>4, <1>7 DEF Inv, TypeInv
  <1>10. Contents(i)' /\ Scrubbed(i)'
    BY <1>5, <1>9 DEF Contents, Scrubbed, OnItsWay
  <1>11. Only(i)
    BY <1>4, <1>7 DEF Only, Inv, TypeInv
  <1> QED
    BY <1>8, <1>10, <1>11, OneItem

LEMMA BuildByHandStep ==
  ASSUME Inv, NEW i \in Items, NEW k \in Kinds, NEW call \in Lists[i].call,
         NEW r \in {i, "none"}, BuildByHand(i, k, call, r)
  PROVE  Inv'
  <1>1. call \in Seq(Keys)
    BY ListsAreKeys DEF Early
  <1>2. given[i] \in Given /\ step[i] = "new" /\ Early \subseteq Range(Sources)
    BY SourcesFacts DEF Inv, TypeInv, BuildByHand, Goes, Early
  <1>3. given[i].scope = <<>> /\ given[i].span = <<>> /\ given[i].browser = <<>>
    BY <1>2 DEF Inv, Contents
  <1> DEFINE g == [given[i] EXCEPT !.call = call]
             list == TagsOf(call, "call")
  <1>4. /\ g \in Given /\ g.scope = <<>> /\ g.span = <<>> /\ g.browser = <<>>
        /\ g.call = call
    BY <1>1, <1>2, <1>3 DEF Given, Early
  <1>5. given' = [given EXCEPT ![i] = g] /\ tags' = [tags EXCEPT ![i] = list]
    BY DEF BuildByHand
  <1> HIDE DEF g
  <1>6. Filed(list, KeysFrom(g, <<>>), Early)
    BY <1>4, FiledByHand
  <1> HIDE DEF list
  <1>7. list \in Seq(Tag)
    BY <1>6 DEF Filed
  <1>8. /\ step' = [step EXCEPT ![i] = "built"] /\ kind' = [kind EXCEPT ![i] = k]
        /\ request' = [request EXCEPT ![i] = r]
        /\ UNCHANGED <<headers, global, crashed>>
    BY DEF BuildByHand, Goes
  <1>9. TypeInv'
    <2>1. r \in Requests \cup {"none"}
      BY DEF Requests
    <2> QED
      BY <1>4, <1>5, <1>7, <1>8, <2>1 DEF Inv, TypeInv
  <1>10. /\ step'[i] = "built" /\ tags'[i] = list /\ given'[i] = g
    BY <1>5, <1>8 DEF Inv, TypeInv
  <1>11. Contents(i)' /\ Scrubbed(i)'
    BY <1>6, <1>10 DEF Contents, Scrubbed, OnItsWay
  <1>12. Only(i)
    BY <1>5, <1>8 DEF Only, Inv, TypeInv
  <1> QED
    BY <1>9, <1>11, <1>12, OneItem

LEMMA EnrichStep ==
  ASSUME Inv, NEW i \in Items, Enrich(i)
  PROVE  Inv'
  <1>1. given[i] \in Given /\ step[i] = "built" /\ global \in Seq(Keys)
        /\ kind[i] \in Kinds /\ {"options", "client"} \subseteq Range(Sources)
        /\ Early \subseteq Range(Sources) /\ "options" \notin Early /\ "client" \notin Early
    BY SourcesFacts DEF Inv, TypeInv, Enrich, Goes, Early
  <1>0. FromOptions(i) \in Seq(Keys)
    BY PayloadAssumption DEF FromOptions
  <1> DEFINE g == [given[i] EXCEPT !.client = global, !.options = FromOptions(i)]
             merged == TagsOf(FromOptions(i), "options") \o TagsOf(global, "client")
                         \o tags[i]
             list == merged \o IF kind[i] = "log" THEN <<>> ELSE HostTags(merged)
  <1>2. /\ g \in Given /\ g.client = global /\ g.options = FromOptions(i)
        /\ \A s \in Early : g[s] = given[i][s]
    BY <1>0, <1>1 DEF Given
  <1>3. given' = [given EXCEPT ![i] = g] /\ tags' = [tags EXCEPT ![i] = list]
    BY DEF Enrich, Inv, TypeInv
  <1> HIDE DEF g
  <1>4. Filed(tags[i], KeysFrom(given[i], <<>>), Early)
    BY <1>1 DEF Inv, Contents
  <1>5. Filed(merged, KeysFrom(g, <<>>), Range(Sources))
    <2>1. Filed(TagsOf(g.options, "options") \o TagsOf(g.client, "client") \o tags[i],
                KeysFrom(g, <<>>), Range(Sources))
      BY ONLY <1>1, <1>2, <1>4, FiledWithClient
    <2> QED
      BY <1>2, <2>1
  <1> HIDE DEF merged
  <1>6. CASE kind[i] = "log"
    <2>1. Complete(merged \o <<>>, g, FALSE)
      BY <1>2, <1>5, CompleteRecord
    <2>2. list = merged \o <<>>
      BY <1>6
    <2>3. Complete(list, g, FALSE)
      BY <2>1, <2>2
    <2> HIDE DEF list
    <2>4. AfterEnrich(i) = "queued"
      BY <1>6 DEF AfterEnrich
    <2>5. /\ step' = [step EXCEPT ![i] = "queued"]
          /\ UNCHANGED <<kind, request, headers, global, crashed>>
      BY <2>4 DEF Enrich, Goes
    <2>6. list \in Seq(Tag)
      BY <2>3 DEF Complete, Filed
    <2>7. TypeInv'
      BY <1>2, <1>3, <2>5, <2>6 DEF Inv, TypeInv
    <2>8. step'[i] = "queued" /\ tags'[i] = list /\ given'[i] = g /\ kind'[i] = "log"
      BY <1>3, <1>6, <2>5 DEF Inv, TypeInv
    <2>9. Complete(tags'[i], given'[i], kind'[i] # "log")
      <3>1. (kind'[i] # "log") = FALSE
        BY <2>8
      <3> QED
        BY <2>3, <2>8, <3>1, Zenon
    <2>10. Contents(i)' /\ Scrubbed(i)'
      BY <2>8, <2>9 DEF Contents, Scrubbed
    <2>11. Only(i)
      BY <1>3, <2>5 DEF Only, Inv, TypeInv
    <2> QED
      BY <2>7, <2>10, <2>11, OneItem
  <1>7. CASE kind[i] # "log"
    <2>1. Complete(merged \o HostTags(merged), g, TRUE)
      BY <1>2, <1>5, CompleteWithHost
    <2>2. list = merged \o HostTags(merged)
      BY <1>7
    <2>3. Complete(list, g, TRUE)
      BY <2>1, <2>2
    <2> HIDE DEF list
    <2>4. AfterEnrich(i) \in {"enriched", "sending"}
      BY <1>1, <1>7 DEF AfterEnrich, Kinds
    <2>5. /\ step' = [step EXCEPT ![i] = AfterEnrich(i)]
          /\ UNCHANGED <<kind, request, headers, global, crashed>>
      BY DEF Enrich, Goes
    <2>6. list \in Seq(Tag)
      BY <2>3 DEF Complete, Filed
    <2>7. TypeInv'
      BY <1>2, <1>3, <2>4, <2>5, <2>6 DEF Inv, TypeInv
    <2>8. /\ step'[i] \in {"enriched", "sending"} /\ tags'[i] = list /\ given'[i] = g
          /\ kind'[i] # "log"
      BY <1>3, <1>7, <2>4, <2>5 DEF Inv, TypeInv
    <2>9. Complete(tags'[i], given'[i], kind'[i] # "log")
      <3>1. (kind'[i] # "log") = TRUE
        BY <2>8
      <3> QED
        BY <2>3, <2>8, <3>1, Zenon
    <2>10. Contents(i)' /\ Scrubbed(i)'
      BY <2>8, <2>9 DEF Contents, Scrubbed, OnItsWay
    <2>11. Only(i)
      BY <1>3, <2>5 DEF Only, Inv, TypeInv
    <2> QED
      BY <2>7, <2>10, <2>11, OneItem
  <1> QED
    BY <1>6, <1>7

LEMMA AccessIsBoolean ==
  ASSUME NEW r, NEW W, NEW clash, clash = (W # {}), Access(r, clash)
  PROVE  crashed' \in BOOLEAN
  <1>1. (r # "none" /\ clash) \in BOOLEAN
    BY Zenon
  <1> QED
    BY <1>1, Zenon DEF Access

LEMMA ScrubTagsStep ==
  ASSUME Inv, NEW i \in Items, ScrubTags(i)
  PROVE  Inv'
  <1> DEFINE list == [n \in DOMAIN tags[i] |->
                        [tags[i][n] EXCEPT !.redacted = tags[i][n].key \in Sensitive]]
  <1>1. step[i] = "enriched" /\ tags[i] \in Seq(Tag)
    BY DEF ScrubTags, Goes, Inv, TypeInv
  <1>2. /\ step' = [step EXCEPT ![i] = "scrubbing"]
        /\ tags' = [tags EXCEPT ![i] = list]
        /\ UNCHANGED <<kind, request, headers, global, given>>
    BY DEF ScrubTags, Goes, Inv, TypeInv
  <1>3. crashed' \in BOOLEAN
    BY AccessIsBoolean DEF ScrubTags
  <1>4. DOMAIN list = DOMAIN tags[i]
    OBVIOUS
  <1>5. ASSUME NEW n \in DOMAIN tags[i]
        PROVE  /\ list[n] \in Tag
               /\ list[n].key = tags[i][n].key /\ list[n].from = tags[i][n].from
               /\ list[n].nth = tags[i][n].nth
               /\ list[n].key \in Sensitive => list[n].redacted
    <2>1. tags[i][n] \in Tag
      BY <1>1, ElementOfSeq, LenProperties
    <2>2. (tags[i][n].key \in Sensitive) \in BOOLEAN
      OBVIOUS
    <2>3. list[n] = [tags[i][n] EXCEPT !.redacted = tags[i][n].key \in Sensitive]
      OBVIOUS
    <2> HIDE DEF list
    <2>4. PICK b \in BOOLEAN : b = (tags[i][n].key \in Sensitive)
      BY <2>2
    <2>5. list[n] = [tags[i][n] EXCEPT !.redacted = b]
      BY <2>3, <2>4
    <2>6. /\ list[n] \in Tag
          /\ list[n].key = tags[i][n].key /\ list[n].from = tags[i][n].from
          /\ list[n].nth = tags[i][n].nth /\ list[n].redacted = b
      BY <2>1, <2>5 DEF Tag
    <2>7. list[n].key \in Sensitive => list[n].redacted
      BY <2>4, <2>6
    <2> QED
      BY <2>6, <2>7
  <1> HIDE DEF list
  <1>6. list \in Seq(Tag)
    <2>1. Len(tags[i]) \in Nat /\ DOMAIN tags[i] = 1 .. Len(tags[i])
      BY <1>1, LenProperties
    <2>2. list = [n \in 1 .. Len(tags[i]) |-> list[n]]
      BY <2>1 DEF list
    <2>3. \A n \in 1 .. Len(tags[i]) : list[n] \in Tag
      BY <1>5, <2>1
    <2>4. list \in [1 .. Len(tags[i]) -> Tag]
      BY <2>2, <2>3
    <2> QED
      BY <2>1, <2>4, SeqDef
  <1>7. TypeInv'
    BY <1>2, <1>3, <1>6 DEF Inv, TypeInv
  <1>8. Complete(tags[i], given[i], kind[i] # "log")
    BY <1>1 DEF Inv, Contents
  <1>9. Complete(list, given[i], kind[i] # "log")
    <2>1. PICK K \in SUBSET HostKeys :
            /\ Filed(tags[i], KeysFrom(given[i], SetToSeq(K)), AllSources)
            /\ \A k \in K : ~Somewhere(k, given[i])
            /\ kind[i] # "log" => \A k \in HostKeys \ K : Somewhere(k, given[i])
      BY <1>8 DEF Complete
    <2>2. Filed(list, KeysFrom(given[i], SetToSeq(K)), AllSources)
      BY <1>4, <1>5, <1>6, <2>1, Relisted
    <2> QED
      BY <2>1, <2>2 DEF Complete
  <1>10. step'[i] = "scrubbing" /\ tags'[i] = list /\ given'[i] = given[i]
         /\ kind'[i] = kind[i]
    BY <1>2 DEF Inv, TypeInv
  <1>11. Contents(i)'
    BY <1>9, <1>10 DEF Contents
  <1>12. Scrubbed(i)'
    BY <1>4, <1>5, <1>10 DEF Scrubbed, OnItsWay
  <1>13. Only(i)
    BY <1>2 DEF Only, Inv, TypeInv
  <1> QED
    BY <1>7, <1>11, <1>12, <1>13, OneItem

LEMMA ScrubHeadersStep ==
  ASSUME Inv, NEW i \in Items, ScrubHeaders(i)
  PROVE  Inv'
  <1>1. /\ step[i] = "scrubbing" /\ step' = [step EXCEPT ![i] = "queued"]
        /\ UNCHANGED <<kind, tags, request, global, given, crashed>>
        /\ headers' = IF request[i] = "none" THEN headers
                      ELSE [headers EXCEPT ![request[i]] = "redacted"]
    BY DEF ScrubHeaders, Goes
  <1>2. /\ headers' \in [Requests -> {"raw", "redacted"}]
        /\ \A r \in Requests : headers'[r] \in {headers[r], "redacted"}
        /\ request[i] # "none" => headers'[request[i]] = "redacted"
    BY <1>1 DEF Inv, TypeInv
  <1>3. TypeInv'
    BY <1>1, <1>2 DEF Inv, TypeInv
  <1>4. step'[i] = "queued" /\ Contents(i) /\ Scrubbed(i)
    BY <1>1 DEF Inv, TypeInv
  <1>5. Contents(i)'
    BY <1>1, <1>4 DEF Contents
  <1>6. Scrubbed(i)'
    BY <1>1, <1>2, <1>4 DEF Scrubbed
  <1>7. Only(i)
    BY <1>1, <1>2 DEF Only, Inv, TypeInv
  <1> QED
    BY <1>3, <1>5, <1>6, <1>7, OneItem

\* The rest of an item's way changes neither its tags nor its request.
LEMMA OnwardStep ==
  ASSUME Inv, NEW i \in Items, Drop(i) \/ Marshal(i) \/ EndMarshal(i)
  PROVE  Inv'
  <1>1. UNCHANGED <<kind, tags, request, headers, global, given>>
    BY DEF Drop, Marshal, EndMarshal
  <1>2. crashed' \in BOOLEAN
    BY AccessIsBoolean DEF Drop, Marshal, EndMarshal, Inv, TypeInv
  <1>3. PICK next \in {"marshalling", "sent", "dropped"} :
          /\ step' = [step EXCEPT ![i] = next]
          /\ kind[i] = "event" /\ next # "dropped" => OnItsWay(i)
          /\ step[i] \notin {"new", "built"}
    BY DEF Drop, Marshal, EndMarshal, Goes, OnItsWay
  <1>4. TypeInv'
    BY <1>1, <1>2, <1>3 DEF Inv, TypeInv
  <1>5. step'[i] = next /\ Contents(i) /\ Scrubbed(i)
    BY <1>3 DEF Inv, TypeInv
  <1>6. Contents(i)'
    BY <1>1, <1>3, <1>5 DEF Contents
  <1>7. Scrubbed(i)'
    <2>1. OnItsWay(i)' => next # "dropped"
      BY <1>5 DEF OnItsWay
    <2>2. step'[i] # "scrubbing"
      BY <1>5
    <2> QED
      BY <1>1, <1>3, <1>5, <2>1, <2>2 DEF Scrubbed
  <1>8. Only(i)
    BY <1>1, <1>3 DEF Only, Inv, TypeInv
  <1> QED
    BY <1>4, <1>6, <1>7, <1>8, OneItem

LEMMA Preserved == Inv /\ [Next]_vars => Inv'
  <1> SUFFICES ASSUME Inv, [Next]_vars PROVE Inv'
    OBVIOUS
  <1>1. ASSUME NEW key \in Keys, SetTag(key) \/ RemoveTag(key) PROVE Inv'
    BY <1>1, SetTagStep
  <1>0. ClientKeys \subseteq Keys
    BY PayloadAssumption
  <1>2. ASSUME NEW i \in Items, Handle(i) PROVE Inv'
    <2>1. ASSUME NEW scope \in Lists[i].scope, NEW span \in Lists[i].span,
                 NEW browser \in Lists[i].browser, NEW call \in Lists[i].call,
                 NEW r \in {HubRequest, "none"},
                 BuildInContext(i, scope, span, browser, call, r)
          PROVE  Inv'
      BY <2>1, BuildInContextStep
    <2>2. ASSUME NEW k \in Kinds, NEW call \in Lists[i].call, NEW r \in {i, "none"},
                 BuildByHand(i, k, call, r)
          PROVE  Inv'
      BY <2>2, BuildByHandStep
    <2>3. CASE Enrich(i)
      BY <2>3, EnrichStep
    <2>4. CASE ScrubTags(i)
      BY <2>4, ScrubTagsStep
    <2>5. CASE ScrubHeaders(i)
      BY <2>5, ScrubHeadersStep
    <2>6. CASE Drop(i) \/ Marshal(i) \/ EndMarshal(i)
      BY <2>6, OnwardStep
    <2> QED
      BY <1>2, <2>1, <2>2, <2>3, <2>4, <2>5, <2>6 DEF Handle
  <1>3. CASE UNCHANGED vars
    <2>1. UNCHANGED <<step, kind, tags, request, headers, global, given, crashed>>
      BY <1>3 DEF vars
    <2>2. TypeInv'
      BY <2>1 DEF Inv, TypeInv
    <2>3. ASSUME NEW j \in Items PROVE (Contents(j) /\ Scrubbed(j))'
      BY <2>1, Elsewhere
    <2> QED
      BY <2>2, <2>3 DEF Inv
  <1> QED
    BY <1>0, <1>1, <1>2, <1>3 DEF Next

\* Every state of a run satisfies the invariant.
THEOREM InvHolds == Spec => []Inv
  BY InitInv, Preserved, PTL DEF Spec

-----------------------------------------------------------------------------
(***************************************************************************)
(* What it says of the properties.                                         *)
(***************************************************************************)

\* Every variable keeps its type, and the client's own tags have a key once
\* (client.go:535-541).
THEOREM TypeCorrect == Spec => []TypeOK
  <1>1. Inv => TypeOK
    BY DEF Inv, TypeInv, TypeOK, Given
  <1> QED
    BY <1>1, InvHolds, PTL

\* Nothing that BeforeSend withholds is queued or sent with an event.
THEOREM EventsScrubbed == Spec => []EventsAreScrubbed
  <1>1. Inv => EventsAreScrubbed
    BY DEF Inv, Scrubbed, EventsAreScrubbed
  <1> QED
    BY <1>1, InvHolds, PTL

\* "per-event tags take precedence", for any keys and any host.
THEOREM PrecedenceHolds == Spec => []MostSpecificTagWins
  <1>1. Inv => MostSpecificTagWins
    <2> SUFFICES ASSUME Inv, NEW i \in Items, step[i] \notin {"new", "built"}, NEW key \in Keys
                 PROVE  Answers(tags[i], given[i], key, kind[i] # "log")
      BY DEF MostSpecificTagWins, Answers, Having
    <2>1. Complete(tags[i], given[i], kind[i] # "log") /\ given[i] \in Given
      BY DEF Inv, TypeInv, Contents
    <2>2. PICK hosted \in BOOLEAN : hosted = (kind[i] # "log")
      OBVIOUS
    <2>3. Complete(tags[i], given[i], hosted) /\ hosted \in BOOLEAN
      BY <2>1, <2>2
    <2>4. Answers(tags[i], given[i], key, hosted)
      BY ONLY <2>1, <2>3, CompleteWins, Zenon
    <2> QED
      BY <2>2, <2>4
  <1> QED
    BY <1>1, InvHolds, PTL
=============================================================================
