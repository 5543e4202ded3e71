---------------------------- MODULE OriginProofs ----------------------------
(***************************************************************************)
(* Proofs about Origin, for any stacks of the application and any number   *)
(* of frames that are taken of them.                                       *)
(***************************************************************************)
EXTENDS OriginProperties, SequenceTheorems, WellFoundedInduction, TLAPS

(***************************************************************************)
(* Selections from a sequence, by induction on its length.                 *)
(***************************************************************************)
\* Induction over the numbers, for a set of them: the library's theorem, which takes a
\* predicate, has no instance that the provers can make.
LEMMA SetInduction ==
  ASSUME NEW T \in SUBSET Nat, 0 \in T, \A n \in T : n + 1 \in T
  PROVE  T = Nat
  <1> SUFFICES ASSUME Nat \ T # {} PROVE FALSE
    OBVIOUS
  <1>1. PICK less : less = OpToRel(<, Nat)
    OBVIOUS
  <1>2. PICK x \in Nat \ T : \A y \in Nat \ T : ~ (<<y, x>> \in less)
    BY <1>1, NatLessThanWellFounded, WFMin
  <1>3. x - 1 \in Nat \ T
    BY <1>2
  <1>4. <<x - 1, x>> \in less
    BY <1>1, <1>3 DEF OpToRel
  <1> QED
    BY <1>2, <1>3, <1>4

\* A turn of the loop, from what has been kept before it.
Turn(seq, places, before, n) ==
  IF n = 0 THEN <<>>
  ELSE IF n \in places THEN Append(before, seq[n]) ELSE before

IsLoop(f, seq, places, m) ==
  f = [n \in 0 .. m |-> Turn(seq, places, f[n - 1], n)]

LEMMA LoopExists ==
  ASSUME NEW seq, NEW places, NEW m \in Nat
  PROVE  \E f : IsLoop(f, seq, places, m)
  <1> DEFINE T == {k \in Nat : \E f : IsLoop(f, seq, places, k)}
  <1>1. 0 \in T
    <2> DEFINE f == [n \in 0 .. 0 |-> <<>>]
    <2>1. \A n \in 0 .. 0 : Turn(seq, places, f[n - 1], n) = <<>>
      BY DEF Turn
    <2>2. IsLoop(f, seq, places, 0)
      BY <2>1 DEF IsLoop
    <2> QED
      BY <2>2
  <1>2. ASSUME NEW k \in T PROVE k + 1 \in T
    <2>1. PICK f : IsLoop(f, seq, places, k)
      BY <1>2
    <2>2. PICK g : g = [n \in 0 .. k + 1 |->
                          IF n = k + 1 THEN Turn(seq, places, f[k], n) ELSE f[n]]
      OBVIOUS
    <2>3. ASSUME NEW n \in 0 .. k + 1
          PROVE  g[n] = Turn(seq, places, g[n - 1], n)
      <3>1. CASE n = k + 1
        <4>1. g[n] = Turn(seq, places, f[k], n)
          BY <2>2, <3>1
        <4>2. n - 1 \in 0 .. k + 1 /\ n - 1 # k + 1 /\ n - 1 = k
          BY <3>1, <1>2
        <4>3. g[n - 1] = f[k]
          BY <2>2, <4>2
        <4> QED
          BY <4>1, <4>3
      <3>2. CASE n = 0
        <4>1. g[n] = f[0] /\ 0 \in 0 .. k
          BY <2>2, <3>2, <1>2
        <4>2. f[0] = Turn(seq, places, f[0 - 1], 0)
          BY <2>1, <4>1 DEF IsLoop
        <4> QED
          BY <3>2, <4>1, <4>2 DEF Turn
      <3>3. CASE n # k + 1 /\ n # 0
        <4>1. n \in 0 .. k /\ n - 1 \in 0 .. k + 1 /\ n - 1 # k + 1
          BY <3>3, <1>2
        <4>2. g[n] = f[n] /\ g[n - 1] = f[n - 1]
          BY <2>2, <3>3, <4>1
        <4>3. f[n] = Turn(seq, places, f[n - 1], n)
          BY <2>1, <4>1 DEF IsLoop
        <4> QED
          BY <4>2, <4>3
      <3> QED
        BY <3>1, <3>2, <3>3
    <2>4. g = [n \in 0 .. k + 1 |-> Turn(seq, places, g[n - 1], n)]
      BY <2>2, <2>3
    <2> QED
      BY <2>4 DEF IsLoop
  <1>3. T = Nat
    <2> HIDE DEF T
    <2>1. T \in SUBSET Nat
      BY DEF T
    <2> QED
      BY <1>1, <1>2, <2>1, SetInduction
  <1> QED
    BY <1>3

LEMMA KeptTurns ==
  ASSUME NEW S, NEW seq \in Seq(S), NEW places
  PROVE  /\ Kept(seq, places)[0] = <<>>
         /\ \A n \in 1 .. Len(seq) :
              Kept(seq, places)[n] =
                IF n \in places THEN Append(Kept(seq, places)[n - 1], seq[n])
                ELSE Kept(seq, places)[n - 1]
  <1>1. PICK k : k = Kept(seq, places)
    OBVIOUS
  <1>2. PICK m \in Nat : m = Len(seq)
    BY LenProperties
  <1>3. k = CHOOSE f : f = [n \in 0 .. m |->
                              IF n = 0 THEN <<>>
                              ELSE IF n \in places THEN Append(f[n - 1], seq[n])
                              ELSE f[n - 1]]
    BY <1>1, <1>2, Zenon DEF Kept
  <1>4. \E f : f = [n \in 0 .. m |->
                      IF n = 0 THEN <<>>
                      ELSE IF n \in places THEN Append(f[n - 1], seq[n]) ELSE f[n - 1]]
    <2>1. \E f : IsLoop(f, seq, places, m)
      BY LoopExists
    <2> QED
      BY <2>1, Zenon DEF IsLoop, Turn
  <1>5. k = [n \in 0 .. m |->
               IF n = 0 THEN <<>>
               ELSE IF n \in places THEN Append(k[n - 1], seq[n]) ELSE k[n - 1]]
    BY <1>3, <1>4, Zenon
  <1>6. \A n \in 0 .. m : k[n] = IF n = 0 THEN <<>>
                                 ELSE IF n \in places THEN Append(k[n - 1], seq[n])
                                 ELSE k[n - 1]
    BY <1>5, Zenon
  <1>7. 0 \in 0 .. m /\ \A n \in 1 .. m : n \in 0 .. m /\ n # 0
    OBVIOUS
  <1> QED
    BY <1>1, <1>2, <1>6, <1>7

\* What is kept is of the elements at the places, and no longer than the sequence.
LEMMA KeptType ==
  ASSUME NEW S, NEW seq \in Seq(S), NEW places, NEW n \in 0 .. Len(seq)
  PROVE  /\ Kept(seq, places)[n] \in Seq({seq[i] : i \in places \cap (1 .. Len(seq))})
         /\ Len(Kept(seq, places)[n]) <= n
  <1>1. PICK k, m, R : /\ k = Kept(seq, places) /\ m = Len(seq)
                       /\ R = {seq[i] : i \in places \cap (1 .. Len(seq))}
    OBVIOUS
  <1>2. m \in Nat
    BY <1>1, LenProperties
  <1>3. /\ k[0] = <<>>
        /\ \A i \in 1 .. m : k[i] = IF i \in places THEN Append(k[i - 1], seq[i])
                                    ELSE k[i - 1]
    BY <1>1, KeptTurns
  <1>4. PICK T : T = {i \in Nat : i <= m => k[i] \in Seq(R) /\ Len(k[i]) <= i}
    OBVIOUS
  <1>5. T \in SUBSET Nat
    BY <1>4
  <1>6. 0 \in T
    <2>1. k[0] \in Seq(R) /\ Len(k[0]) = 0
      BY <1>3, EmptySeq
    <2> QED
      BY <1>4, <2>1
  <1>7. ASSUME NEW i \in T PROVE i + 1 \in T
    <2> SUFFICES ASSUME i + 1 <= m
                 PROVE  k[i + 1] \in Seq(R) /\ Len(k[i + 1]) <= i + 1
      BY <1>4
    <2>1. i \in Nat /\ k[i] \in Seq(R) /\ Len(k[i]) <= i /\ Len(k[i]) \in Nat
      BY <1>2, <1>4
    <2>2. k[i + 1] = IF i + 1 \in places THEN Append(k[i], seq[i + 1]) ELSE k[i]
      <3>1. i + 1 \in 1 .. m /\ (i + 1) - 1 = i
        BY <1>2, <2>1
      <3> QED
        BY <1>3, <3>1
    <2>3. CASE i + 1 \in places
      <3>1. seq[i + 1] \in R
        BY <1>1, <1>2, <2>1, <2>3
      <3>2. /\ Append(k[i], seq[i + 1]) \in Seq(R)
            /\ Len(Append(k[i], seq[i + 1])) = Len(k[i]) + 1
        BY <2>1, <3>1, AppendProperties
      <3> QED
        BY <2>1, <2>2, <2>3, <3>2
    <2>4. CASE i + 1 \notin places
      BY <2>1, <2>2, <2>4
    <2> QED
      BY <2>3, <2>4
  <1>8. T = Nat
    BY <1>5, <1>6, <1>7, SetInduction
  <1> QED
    BY <1>1, <1>2, <1>4, <1>8

LEMMA SelectType ==
  ASSUME NEW S, NEW seq \in Seq(S), NEW places
  PROVE  /\ Select(seq, places) \in Seq({seq[i] : i \in places \cap (1 .. Len(seq))})
         /\ Len(Select(seq, places)) <= Len(seq)
  <1>1. Len(seq) \in 0 .. Len(seq)
    BY LenProperties
  <1> QED
    BY <1>1, KeptType, Zenon DEF Select

LEMMA SelectIn ==
  ASSUME NEW S, NEW seq \in Seq(S), NEW places
  PROVE  Select(seq, places) \in Seq(S)
  <1>1. PICK R : R = {seq[i] : i \in places \cap (1 .. Len(seq))}
    OBVIOUS
  <1>2. R \subseteq S
    BY <1>1, ElementOfSeq
  <1>3. Select(seq, places) \in Seq(R)
    BY <1>1, SelectType
  <1> QED
    BY ONLY <1>2, <1>3, SeqMonotonic

\* Whatever is at one of the places is kept.
LEMMA SelectHas ==
  ASSUME NEW S, NEW seq \in Seq(S), NEW places, NEW at \in 1 .. Len(seq), at \in places
  PROVE  \E i \in DOMAIN Select(seq, places) : Select(seq, places)[i] = seq[at]
  <1>1. PICK k, m : k = Kept(seq, places) /\ m = Len(seq)
    OBVIOUS
  <1>2. m \in Nat /\ at \in 1 .. m
    BY <1>1, LenProperties
  <1>3. \A i \in 1 .. m : k[i] = IF i \in places THEN Append(k[i - 1], seq[i]) ELSE k[i - 1]
    BY <1>1, KeptTurns
  <1>4. \A i \in 0 .. m : k[i] \in Seq(S)
    <2> SUFFICES ASSUME NEW i \in 0 .. m PROVE k[i] \in Seq(S)
      OBVIOUS
    <2>1. k[i] \in Seq({seq[j] : j \in places \cap (1 .. m)})
      BY <1>1, KeptType, Zenon
    <2>2. {seq[j] : j \in places \cap (1 .. m)} \subseteq S
      BY <1>1, ElementOfSeq
    <2> QED
      BY ONLY <2>1, <2>2, SeqMonotonic
  <1>5. \A i \in 1 .. m : seq[i] \in S
    BY <1>1, ElementOfSeq
  <1>6. PICK T : T = {i \in Nat : at + i <= m =>
                        \E j \in 1 .. Len(k[at + i]) : k[at + i][j] = seq[at]}
    OBVIOUS
  <1>7. 0 \in T
    <2>1. PICK before : before = k[at - 1]
      OBVIOUS
    <2>2. before \in Seq(S) /\ seq[at] \in S
      BY <1>2, <1>4, <1>5, <2>1
    <2>3. k[at] = Append(before, seq[at])
      BY <1>2, <1>3, <2>1
    <2>4. /\ Len(k[at]) = Len(before) + 1 /\ Len(before) \in Nat
          /\ k[at][Len(before) + 1] = seq[at]
      BY <2>2, <2>3, AppendProperties, LenProperties
    <2>5. \E j \in 1 .. Len(k[at]) : k[at][j] = seq[at]
      BY <2>4
    <2>6. at + 0 = at
      BY <1>2
    <2> QED
      BY <1>6, <2>5, <2>6
  <1>8. ASSUME NEW i \in T PROVE i + 1 \in T
    <2> SUFFICES ASSUME at + (i + 1) <= m
                 PROVE  \E j \in 1 .. Len(k[at + (i + 1)]) : k[at + (i + 1)][j] = seq[at]
      BY <1>6
    <2>1. i \in Nat
      BY <1>6
    <2>2. PICK n : n = at + (i + 1)
      OBVIOUS
    <2>3. n \in 1 .. m /\ n - 1 \in 0 .. m /\ at + i = n - 1 /\ at + i <= m
      BY <1>2, <2>1, <2>2
    <2>4. PICK before : before = k[n - 1]
      OBVIOUS
    <2>5. \E j \in 1 .. Len(before) : before[j] = seq[at]
      BY <1>6, <2>1, <2>3, <2>4
    <2>6. k[n] = IF n \in places THEN Append(before, seq[n]) ELSE before
      BY <1>3, <2>3, <2>4
    <2>7. before \in Seq(S) /\ seq[n] \in S
      BY <1>4, <1>5, <2>3, <2>4
    <2>8. /\ Len(Append(before, seq[n])) = Len(before) + 1 /\ Len(before) \in Nat
          /\ \A j \in 1 .. Len(before) : Append(before, seq[n])[j] = before[j]
      BY <2>7, AppendProperties, LenProperties
    <2>9. \E j \in 1 .. Len(k[n]) : k[n][j] = seq[at]
      BY <2>5, <2>6, <2>8
    <2> QED
      BY <2>2, <2>9
  <1>9. T = Nat
    BY <1>6, <1>7, <1>8, SetInduction
  <1>10. m - at \in Nat /\ at + (m - at) = m
    BY <1>2
  <1>11. \E j \in 1 .. Len(k[m]) : k[m][j] = seq[at]
    <2>1. PICK n \in Nat : n = m - at /\ at + n = m /\ at + n <= m
      BY <1>2, <1>10
    <2>2. \E j \in 1 .. Len(k[at + n]) : k[at + n][j] = seq[at]
      BY <1>6, <1>9, <2>1
    <2> QED
      BY <2>1, <2>2
  <1>12. DOMAIN k[m] = 1 .. Len(k[m])
    BY <1>2, <1>4, LenProperties
  <1> QED
    BY <1>1, <1>11, <1>12 DEF Select

\* A selection from two sequences one after the other is one from each.
LEMMA SelectConcat ==
  ASSUME NEW S, NEW a \in Seq(S), NEW b \in Seq(S), NEW places, NEW first, NEW second,
         \A i \in 1 .. Len(a) : i \in places <=> i \in first,
         \A i \in 1 .. Len(b) : Len(a) + i \in places <=> i \in second
  PROVE  Select(a \o b, places) = Select(a, first) \o Select(b, second)
  <1>1. PICK c, k, ka, kb, m, n :
          /\ c = a \o b /\ k = Kept(c, places) /\ ka = Kept(a, first)
          /\ kb = Kept(b, second) /\ m = Len(a) /\ n = Len(b)
    OBVIOUS
  <1>2. /\ m \in Nat /\ n \in Nat /\ c \in Seq(S) /\ Len(c) = m + n
        /\ \A i \in 1 .. m : c[i] = a[i]
        /\ \A i \in 1 .. n : c[m + i] = b[i] /\ b[i] \in S
        /\ \A i \in 1 .. m : a[i] \in S
    <2>1. m \in Nat /\ n \in Nat /\ \A i \in 1 .. n : b[i] \in S
      BY <1>1, LenProperties, ElementOfSeq
    <2>2. \A i \in 1 .. m : a[i] \in S
      BY <1>1, LenProperties, ElementOfSeq
    <2>3. /\ c \in Seq(S) /\ Len(c) = m + n
          /\ \A i \in 1 .. m + n : c[i] = IF i <= m THEN a[i] ELSE b[i - m]
      BY <1>1, ConcatProperties
    <2>4. \A i \in 1 .. m : i \in 1 .. m + n /\ i <= m
      BY <2>1
    <2>5. \A i \in 1 .. n : m + i \in 1 .. m + n /\ ~(m + i <= m) /\ (m + i) - m = i
      BY <2>1
    <2> QED
      BY <2>1, <2>2, <2>3, <2>4, <2>5
  <1>3. /\ k[0] = <<>> /\ ka[0] = <<>> /\ kb[0] = <<>>
        /\ \A i \in 1 .. m + n : k[i] = IF i \in places THEN Append(k[i - 1], c[i])
                                        ELSE k[i - 1]
        /\ \A i \in 1 .. m : ka[i] = IF i \in first THEN Append(ka[i - 1], a[i])
                                     ELSE ka[i - 1]
        /\ \A i \in 1 .. n : kb[i] = IF i \in second THEN Append(kb[i - 1], b[i])
                                     ELSE kb[i - 1]
    <2>1. /\ k[0] = <<>>
          /\ \A i \in 1 .. m + n : k[i] = IF i \in places THEN Append(k[i - 1], c[i])
                                          ELSE k[i - 1]
      <3>1. c \in Seq(S) /\ Len(c) = m + n
        BY <1>2
      <3>2. k = Kept(c, places)
        BY <1>1
      <3>3. /\ k[0] = <<>>
            /\ \A i \in 1 .. Len(c) : k[i] = IF i \in places THEN Append(k[i - 1], c[i])
                                            ELSE k[i - 1]
        BY ONLY <3>1, <3>2, KeptTurns
      <3> QED
        BY <3>1, <3>3
    <2>2. /\ ka[0] = <<>>
          /\ \A i \in 1 .. m : ka[i] = IF i \in first THEN Append(ka[i - 1], a[i])
                                       ELSE ka[i - 1]
      BY <1>1, KeptTurns
    <2>3. /\ kb[0] = <<>>
          /\ \A i \in 1 .. n : kb[i] = IF i \in second THEN Append(kb[i - 1], b[i])
                                       ELSE kb[i - 1]
      BY <1>1, KeptTurns
    <2> QED
      BY <2>1, <2>2, <2>3
  <1>4. /\ \A i \in 0 .. m : ka[i] \in Seq(S)
        /\ \A i \in 0 .. n : kb[i] \in Seq(S)
    <2>1. ASSUME NEW i \in 0 .. m PROVE ka[i] \in Seq(S)
      <3>1. ka[i] \in Seq({a[j] : j \in first \cap (1 .. m)})
        BY <1>1, KeptType, Zenon
      <3>2. {a[j] : j \in first \cap (1 .. m)} \subseteq S
        BY <1>2
      <3> QED
        BY ONLY <3>1, <3>2, SeqMonotonic
    <2>2. ASSUME NEW i \in 0 .. n PROVE kb[i] \in Seq(S)
      <3>1. kb[i] \in Seq({b[j] : j \in second \cap (1 .. n)})
        BY <1>1, KeptType, Zenon
      <3>2. {b[j] : j \in second \cap (1 .. n)} \subseteq S
        BY <1>2
      <3> QED
        BY ONLY <3>1, <3>2, SeqMonotonic
    <2> QED
      BY <2>1, <2>2
  <1>5. k[m] = ka[m]
    <2>1. PICK T : T = {i \in Nat : i <= m => k[i] = ka[i]}
      OBVIOUS
    <2>2. T \in SUBSET Nat /\ 0 \in T
      BY <1>3, <2>1
    <2>3. ASSUME NEW i \in T PROVE i + 1 \in T
      <3> SUFFICES ASSUME i + 1 <= m PROVE k[i + 1] = ka[i + 1]
        BY <2>1
      <3>1. /\ i \in Nat /\ k[i] = ka[i] /\ (i + 1) - 1 = i
            /\ i + 1 \in 1 .. m /\ i + 1 \in 1 .. m + n
        BY <1>2, <2>1
      <3>2. c[i + 1] = a[i + 1] /\ (i + 1 \in places <=> i + 1 \in first)
        BY <1>1, <1>2, <3>1
      <3> QED
        BY <1>3, <3>1, <3>2
    <2>4. T = Nat
      BY <2>2, <2>3, SetInduction
    <2> QED
      BY <1>2, <2>1, <2>4
  <1>6. PICK both : both = [i \in 0 .. n |-> ka[m] \o kb[i]]
    OBVIOUS
  <1>7. /\ both[0] = ka[m]
        /\ \A i \in 1 .. n : both[i] = IF i \in second THEN Append(both[i - 1], b[i])
                                       ELSE both[i - 1]
    <2>1. PICK u \in Seq(S) : u = ka[m]
      BY <1>2, <1>4
    <2>2. \A i \in 0 .. n : both[i] = u \o kb[i]
      BY <1>6, <2>1
    <2>3. both[0] = u
      <3>1. u \o <<>> = u
        BY ONLY u \in Seq(S), ConcatEmptySeq
      <3>2. 0 \in 0 .. n
        BY <1>2
      <3>3. both[0] = u \o kb[0] /\ kb[0] = <<>>
        BY <1>3, <2>2, <3>2, Zenon
      <3> QED
        BY <3>1, <3>3, Zenon
    <2>4. ASSUME NEW i \in 1 .. n
          PROVE  both[i] = IF i \in second THEN Append(both[i - 1], b[i]) ELSE both[i - 1]
      <3>1. PICK v, x : v = kb[i - 1] /\ x = b[i]
        OBVIOUS
      <3>2. i \in 0 .. n /\ i - 1 \in 0 .. n
        BY <1>2
      <3>3. u \in Seq(S) /\ v \in Seq(S) /\ x \in S
        BY <1>2, <1>4, <3>1, <3>2
      <3>4. kb[i] = IF i \in second THEN Append(v, x) ELSE v
        BY <1>3, <3>1
      <3>5. both[i] = u \o kb[i] /\ both[i - 1] = u \o v
        BY <2>2, <3>1, <3>2
      <3>6. Append(u \o v, x) = u \o Append(v, x)
        <4>1. PICK w : w = <<x>>
          OBVIOUS
        <4>2. u \o v \in Seq(S) /\ w \in Seq(S)
          BY <3>3, <4>1, ConcatProperties
        <4>3. Append(u \o v, x) = (u \o v) \o w
          BY ONLY <3>3, <4>1, <4>2, AppendIsConcat
        <4>4. Append(v, x) = v \o w
          BY ONLY <3>3, <4>1, AppendIsConcat
        <4>5. (u \o v) \o w = u \o (v \o w)
          BY ONLY <3>3, <4>2, ConcatAssociative
        <4> QED
          BY <4>3, <4>4, <4>5
      <3>7. CASE i \in second
        BY <3>1, <3>4, <3>5, <3>6, <3>7, Zenon
      <3>8. CASE i \notin second
        BY <3>4, <3>5, <3>8, Zenon
      <3> QED
        BY <3>7, <3>8
    <2> QED
      BY <2>1, <2>3, <2>4
  <1>8. k[m + n] = both[n]
    <2>1. PICK T : T = {i \in Nat : i <= n => k[m + i] = both[i]}
      OBVIOUS
    <2>2. T \in SUBSET Nat
      BY <2>1
    <2>3. 0 \in T
      BY <1>2, <1>5, <1>7, <2>1
    <2>4. ASSUME NEW i \in T PROVE i + 1 \in T
      <3> SUFFICES ASSUME i + 1 <= n PROVE k[m + (i + 1)] = both[i + 1]
        BY <2>1
      <3>1. /\ i \in Nat /\ k[m + i] = both[i] /\ (i + 1) - 1 = i
            /\ (m + (i + 1)) - 1 = m + i /\ i + 1 \in 1 .. n
            /\ m + (i + 1) \in 1 .. m + n
        BY <1>2, <2>1
      <3>2. c[m + (i + 1)] = b[i + 1] /\ (m + (i + 1) \in places <=> i + 1 \in second)
        BY <1>1, <1>2, <3>1
      <3>3. k[m + (i + 1)] = IF i + 1 \in second THEN Append(both[i], b[i + 1]) ELSE both[i]
        BY <1>3, <3>1, <3>2
      <3>4. both[i + 1] = IF i + 1 \in second THEN Append(both[i], b[i + 1]) ELSE both[i]
        BY <1>7, <3>1
      <3> QED
        BY <3>3, <3>4
    <2>5. T = Nat
      BY <2>2, <2>3, <2>4, SetInduction
    <2>6. n \in Nat /\ n <= n
      BY <1>2
    <2> QED
      BY <2>1, <2>5, <2>6
  <1>9. both[n] = ka[m] \o kb[n]
    <2>1. n \in 0 .. n
      BY <1>2
    <2> QED
      BY <1>6, <2>1, Zenon
  <1> QED
    BY <1>1, <1>2, <1>8, <1>9 DEF Select

\* Where there is nothing to select, nothing is.
LEMMA SelectNothing ==
  ASSUME NEW S, NEW seq \in Seq(S), NEW places, \A i \in 1 .. Len(seq) : i \notin places
  PROVE  Select(seq, places) = <<>>
  <1>1. {seq[i] : i \in places \cap (1 .. Len(seq))} = {}
    OBVIOUS
  <1>2. Select(seq, places) \in Seq({})
    BY <1>1, SelectType
  <1> QED
    BY <1>2

-----------------------------------------------------------------------------
(***************************************************************************)
(* What a capture is made of.                                              *)
(***************************************************************************)

Functions == DOMAIN CallsNext \cup {"Callers"}
Names == Functions \cup {"New.func", "gopanic", "LogEntry.Emit", "Core.Write",
                        "CheckedEntry.Write", "Logger.Error", "panicmem", "sigpanic"}

\* The frames that a way to capture puts between the application and itself.
AddedPlaces == {"sdk", "dep", "bare", "runtime"}
Added == {Frame(f, place) : f \in Names, place \in AddedPlaces}
Frames == CallerFrames \cup Added

\* What stood on the stack when a way to capture was taken; for a panic, when it began.
Calling(c) ==
  (IF c.path.panic THEN <<>> ELSE c.path.between) \o Raised(c.path, c.error) \o c.app

\* By how much the SDK's frames on the stack are ahead of the frames to leave out,
\* while a function runs: those that it and the functions below it still make up for.
Ahead(function) ==
  CASE function = "Callers" -> 0
    [] function = "capturePanicEvent" -> 3
    [] OTHER -> 1

LEMMA Calls ==
  /\ DOMAIN CallsNext =
     {"ClientException", "ClientMessage", "HubException", "HubMessage", "FiberException",
      "FiberMessage", "capturePanicEvent", "captureException", "captureMessage",
      "BuildExceptionValue", "BuildMessageExceptionValue",
      "BuildPanicExceptionValue", "buildPanicExceptionValue", "buildExceptionEvent",
      "buildMessageEvent", "buildExceptionValue", "captureStacktrace"}
  /\ CallsNext["ClientException"] = "buildExceptionEvent"
  /\ CallsNext["ClientMessage"] = "buildMessageEvent"
  /\ CallsNext["HubException"] = "captureException"
  /\ CallsNext["HubMessage"] = "captureMessage"
  /\ CallsNext["FiberException"] = "BuildExceptionValue"
  /\ CallsNext["FiberMessage"] = "BuildMessageExceptionValue"
  /\ CallsNext["capturePanicEvent"] = "BuildPanicExceptionValue"
  /\ CallsNext["captureException"] = "buildExceptionEvent"
  /\ CallsNext["captureMessage"] = "buildMessageEvent"
  /\ CallsNext["BuildExceptionValue"] = "buildExceptionValue"
  /\ CallsNext["BuildMessageExceptionValue"] = "captureStacktrace"
  /\ CallsNext["BuildPanicExceptionValue"] = "buildPanicExceptionValue"
  /\ CallsNext["buildPanicExceptionValue"] = "buildExceptionValue"
  /\ CallsNext["buildExceptionEvent"] = "buildExceptionValue"
  /\ CallsNext["buildMessageEvent"] = "captureStacktrace"
  /\ CallsNext["buildExceptionValue"] = "captureStacktrace"
  /\ CallsNext["captureStacktrace"] = "Callers"
  BY DEF CallsNext

LEMMA FunctionFacts ==
  ASSUME NEW f \in DOMAIN CallsNext
  PROVE  /\ CallsNext[f] \in Functions
         /\ AddedSkip(f) \in Nat
         /\ AddedSkip(f) + Ahead(CallsNext[f]) = 1 + Ahead(f)
  <1>1. f # "Callers"
    BY Calls
  <1>2. CallsNext[f] \in Functions
    BY Calls DEF Functions
  <1>3. AddedSkip(f) \in Nat
    BY DEF AddedSkip
  <1>4. CASE f = "captureStacktrace"
    <2>1. CallsNext[f] = "Callers"
      BY <1>4, Calls
    <2> QED
      BY <1>1, <1>2, <1>3, <1>4, <2>1 DEF AddedSkip, Ahead
  <1>5. CASE f = "capturePanicEvent"
    <2>1. CallsNext[f] = "BuildPanicExceptionValue"
      BY <1>5, Calls
    <2> QED
      BY <1>1, <1>2, <1>3, <1>5, <2>1 DEF AddedSkip, Ahead
  <1>6. CASE f # "captureStacktrace" /\ f # "capturePanicEvent"
    <2>1. CallsNext[f] # "Callers" /\ CallsNext[f] # "capturePanicEvent"
      BY <1>6, Calls
    <2>2. AddedSkip(f) = 1 /\ Ahead(CallsNext[f]) = 1 /\ Ahead(f) = 1
      BY <1>1, <1>6, <2>1 DEF AddedSkip, Ahead
    <2> QED
      BY <1>1, <1>2, <1>3, <2>2
  <1> QED
    BY <1>4, <1>5, <1>6

LEMMA AddedIsFrames == Added \subseteq Frames
  BY DEF Frames

LEMMA FrameType ==
  ASSUME NEW f \in Names, NEW place \in AddedPlaces
  PROVE  /\ Frame(f, place) \in Added /\ <<Frame(f, place)>> \in Seq(Added)
         /\ <<Frame(f, place)>> \in Seq(Frames)
  <1>1. Frame(f, place) \in Added
    BY DEF Added
  <1> QED
    BY <1>1 DEF Frames

\* What a path is made of.
OfPath(p, entry, error, panic, between) ==
  p.entry = entry /\ p.error = error /\ p.panic = panic /\ p.between = between

LEMMA PathParts ==
  ASSUME NEW entry, NEW error, NEW panic, NEW from, NEW between
  PROVE  OfPath(Path(entry, error, panic, from, between), entry, error, panic, between)
  BY Zenon DEF OfPath, Path

ThroughLog == <<Frame("LogEntry.Emit", "sdk")>>
ThroughZap == <<Frame("Core.Write", "sdk"), Frame("CheckedEntry.Write", "dep"),
                Frame("Logger.Error", "dep")>>

LEMMA PathFacts ==
  ASSUME NEW p \in Paths
  PROVE  /\ p.entry \in DOMAIN CallsNext
         /\ p.between \in Seq(Added) /\ p.between \in Seq(Frames)
         /\ p.error \in BOOLEAN
         /\ \/ p.panic = TRUE /\ p.entry = "capturePanicEvent" /\ p.between = Panicking
            \/ p.panic = FALSE /\ p.entry # "capturePanicEvent"
  <1> DEFINE Good == \E entry \in DOMAIN CallsNext, error \in BOOLEAN,
                        panic \in BOOLEAN, between \in Seq(Added) :
                       /\ OfPath(p, entry, error, panic, between)
                       /\ \/ panic = TRUE /\ entry = "capturePanicEvent" /\ between = Panicking
                          \/ panic = FALSE /\ entry # "capturePanicEvent"
  <1>1. /\ {"New.func", "gopanic", "LogEntry.Emit", "Core.Write", "CheckedEntry.Write",
            "Logger.Error"} \subseteq Names
        /\ {"sdk", "bare", "dep"} \subseteq AddedPlaces
    BY DEF Names, AddedPlaces
  <1>2. Panicking \in Seq(Added)
    <2>1. Frame("New.func", "sdk") \in Added /\ Frame("gopanic", "bare") \in Added
      BY <1>1, FrameType
    <2> QED
      BY <2>1 DEF Panicking
  <1>3. <<>> \in Seq(Added) /\ ThroughLog \in Seq(Added)
    BY <1>1, FrameType DEF ThroughLog
  <1>4. ThroughZap \in Seq(Added)
    <2>1. /\ Frame("Core.Write", "sdk") \in Added
          /\ Frame("CheckedEntry.Write", "dep") \in Added
          /\ Frame("Logger.Error", "dep") \in Added
      BY <1>1, FrameType
    <2> QED
      BY <2>1 DEF ThroughZap
  <1>5. {"ClientException", "HubException", "FiberException", "capturePanicEvent",
         "ClientMessage", "HubMessage", "FiberMessage"} \subseteq DOMAIN CallsNext
    BY Calls
  <1>6. \/ p = Path("ClientException", TRUE, FALSE, "context", <<>>)
        \/ p = Path("HubException", TRUE, FALSE, "hub", <<>>)
        \/ p = Path("FiberException", TRUE, FALSE, "fiber", <<>>)
        \/ p = Path("capturePanicEvent", TRUE, TRUE, "fiber", Panicking)
        \/ p = Path("ClientMessage", FALSE, FALSE, "context", <<>>)
        \/ p = Path("HubMessage", FALSE, FALSE, "hub", <<>>)
        \/ p = Path("FiberMessage", FALSE, FALSE, "fiber", <<>>)
        \/ p = Path("ClientMessage", FALSE, FALSE, "context", ThroughLog)
        \/ p = Path("ClientMessage", FALSE, FALSE, "context", ThroughZap)
    BY DEF Paths, ThroughLog, ThroughZap
  <1>7. ASSUME p = Path("ClientException", TRUE, FALSE, "context", <<>>)
        PROVE  Good
    <2>1. OfPath(p, "ClientException", TRUE, FALSE, <<>>)
      BY <1>7, PathParts
    <2> QED
      BY <1>5, <1>3, <2>1
  <1>8. ASSUME p = Path("HubException", TRUE, FALSE, "hub", <<>>)
        PROVE  Good
    <2>1. OfPath(p, "HubException", TRUE, FALSE, <<>>)
      BY <1>8, PathParts
    <2> QED
      BY <1>5, <1>3, <2>1
  <1>9. ASSUME p = Path("FiberException", TRUE, FALSE, "fiber", <<>>)
        PROVE  Good
    <2>1. OfPath(p, "FiberException", TRUE, FALSE, <<>>)
      BY <1>9, PathParts
    <2> QED
      BY <1>5, <1>3, <2>1
  <1>10. ASSUME p = Path("capturePanicEvent", TRUE, TRUE, "fiber", Panicking)
         PROVE  Good
    <2>1. OfPath(p, "capturePanicEvent", TRUE, TRUE, Panicking)
      BY <1>10, PathParts
    <2> QED
      BY <1>5, <1>2, <2>1
  <1>11. ASSUME p = Path("ClientMessage", FALSE, FALSE, "context", <<>>)
         PROVE  Good
    <2>1. OfPath(p, "ClientMessage", FALSE, FALSE, <<>>)
      BY <1>11, PathParts
    <2> QED
      BY <1>5, <1>3, <2>1
  <1>12. ASSUME p = Path("HubMessage", FALSE, FALSE, "hub", <<>>)
         PROVE  Good
    <2>1. OfPath(p, "HubMessage", FALSE, FALSE, <<>>)
      BY <1>12, PathParts
    <2> QED
      BY <1>5, <1>3, <2>1
  <1>13. ASSUME p = Path("FiberMessage", FALSE, FALSE, "fiber", <<>>)
         PROVE  Good
    <2>1. OfPath(p, "FiberMessage", FALSE, FALSE, <<>>)
      BY <1>13, PathParts
    <2> QED
      BY <1>5, <1>3, <2>1
  <1>14. ASSUME p = Path("ClientMessage", FALSE, FALSE, "context", ThroughLog)
         PROVE  Good
    <2>1. OfPath(p, "ClientMessage", FALSE, FALSE, ThroughLog)
      BY <1>14, PathParts
    <2> QED
      BY <1>5, <1>3, <2>1
  <1>15. ASSUME p = Path("ClientMessage", FALSE, FALSE, "context", ThroughZap)
         PROVE  Good
    <2>1. OfPath(p, "ClientMessage", FALSE, FALSE, ThroughZap)
      BY <1>15, PathParts
    <2> QED
      BY <1>5, <1>4, <2>1
  <1>16. Good
    BY <1>6, <1>7, <1>8, <1>9, <1>10, <1>11, <1>12, <1>13, <1>14, <1>15
  <1>17. PICK entry \in DOMAIN CallsNext, error \in BOOLEAN, panic \in BOOLEAN,
              between \in Seq(Added) :
           /\ OfPath(p, entry, error, panic, between)
           /\ \/ panic = TRUE /\ entry = "capturePanicEvent" /\ between = Panicking
              \/ panic = FALSE /\ entry # "capturePanicEvent"
    BY <1>16
  <1>18. Seq(Added) \subseteq Seq(Frames)
    BY AddedIsFrames, SeqMonotonic
  <1> QED
    BY <1>17, <1>18, Zenon DEF OfPath

LEMMA RaisedType ==
  ASSUME NEW p, NEW error
  PROVE  Raised(p, error) \in Seq(Added) /\ Raised(p, error) \in Seq(Frames)
  <1>1. {"panicmem", "sigpanic"} \subseteq Names /\ {"runtime", "bare"} \subseteq AddedPlaces
    BY DEF Names, AddedPlaces
  <1>2. Frame("panicmem", "runtime") \in Added /\ Frame("sigpanic", "bare") \in Added
    BY <1>1, FrameType
  <1>3. /\ <<Frame("panicmem", "runtime"), Frame("sigpanic", "bare")>> \in Seq(Added)
        /\ <<>> \in Seq(Added)
    BY <1>2
  <1>4. Seq(Added) \subseteq Seq(Frames)
    BY AddedIsFrames, SeqMonotonic
  <1> QED
    BY <1>3, <1>4, Zenon DEF Raised

LEMMA StackType ==
  ASSUME NEW stack \in Stacks
  PROVE  stack \in Seq(Frames)
  <1>1. stack \in Seq(CallerFrames) /\ CallerFrames \subseteq Frames
    BY OriginAssumption DEF Frames
  <1> QED
    BY <1>1, SeqMonotonic

LEMMA CallerType ==
  ASSUME NEW c, c.path \in Paths, c.app \in Stacks
  PROVE  Calling(c) \in Seq(Frames)
  <1>1. c.path.between \in Seq(Frames) /\ <<>> \in Seq(Frames)
    <2>1. c.path.between \in Seq(Frames)
      BY PathFacts, Zenon
    <2>2. <<>> \in Seq(Frames)
      OBVIOUS
    <2> QED
      BY <2>1, <2>2
  <1>2. (IF c.path.panic THEN <<>> ELSE c.path.between) \in Seq(Frames)
    BY <1>1, Zenon
  <1>3. Raised(c.path, c.error) \in Seq(Frames) /\ c.app \in Seq(Frames)
    BY RaisedType, StackType
  <1>4. (IF c.path.panic THEN <<>> ELSE c.path.between) \o Raised(c.path, c.error)
          \in Seq(Frames)
    BY <1>2, <1>3, ConcatProperties
  <1> QED
    BY <1>3, <1>4, ConcatProperties DEF Calling

\* The stack when a public function has been called: its own frame, for a panic the
\* deferred closure and gopanic as well, and then the caller's.
LEMMA FirstStack ==
  ASSUME NEW c, c.path \in Paths, c.app \in Stacks,
         c.stack = <<Frame(c.path.entry, "sdk")>> \o c.path.between
                     \o Raised(c.path, c.error) \o c.app
  PROVE  \E prefix \in Seq(Frames) :
           c.stack = prefix \o Calling(c) /\ Len(prefix) = Ahead(c.path.entry)
  <1>1. PICK own, between, raised, app :
          /\ own = <<Frame(c.path.entry, "sdk")>> /\ between = c.path.between
          /\ raised = Raised(c.path, c.error) /\ app = c.app
    OBVIOUS
  <1>2. c.path.entry \in DOMAIN CallsNext /\ between \in Seq(Frames)
    BY <1>1, PathFacts, Zenon
  <1>3. own \in Seq(Frames) /\ Len(own) = 1
    <2>1. c.path.entry \in Names /\ "sdk" \in AddedPlaces
      BY <1>2 DEF Names, Functions, AddedPlaces
    <2> QED
      BY <1>1, <2>1, FrameType
  <1>4. raised \in Seq(Frames) /\ app \in Seq(Frames)
    BY <1>1, RaisedType, StackType
  <1>5. c.stack = ((own \o between) \o raised) \o app
    BY <1>1
  <1>6. Calling(c) = ((IF c.path.panic THEN <<>> ELSE between) \o raised) \o app
    BY <1>1 DEF Calling
  <1>7. CASE c.path.panic = TRUE /\ c.path.entry = "capturePanicEvent"
             /\ c.path.between = Panicking
    <2>1. Calling(c) = (<<>> \o raised) \o app
      BY <1>6, <1>7, Zenon
    <2>2. <<>> \o raised = raised
      BY <1>4, ConcatEmptySeq
    <2>3. Calling(c) = raised \o app
      BY <2>1, <2>2
    <2>4. own \o between \in Seq(Frames)
      BY <1>2, <1>3, ConcatProperties
    <2>5. ((own \o between) \o raised) \o app = (own \o between) \o (raised \o app)
      BY ONLY <1>4, <2>4, ConcatAssociative
    <2>6. c.stack = (own \o between) \o Calling(c)
      BY <1>5, <2>3, <2>5
    <2>7. Len(between) = 2
      BY <1>1, <1>7 DEF Panicking
    <2>8. Len(own \o between) = Len(own) + Len(between)
      BY ONLY <1>2, <1>3, ConcatProperties
    <2>9. Ahead(c.path.entry) = 3
      BY <1>7 DEF Ahead
    <2>10. Len(own \o between) = Ahead(c.path.entry)
      BY <1>3, <2>7, <2>8, <2>9
    <2> QED
      BY <2>4, <2>6, <2>10, Zenon
  <1>8. CASE c.path.panic = FALSE /\ c.path.entry # "capturePanicEvent"
    <2>1. Calling(c) = (between \o raised) \o app
      BY <1>6, <1>8, Zenon
    <2>2. (own \o between) \o raised = own \o (between \o raised)
      BY ONLY <1>2, <1>3, <1>4, ConcatAssociative
    <2>3. between \o raised \in Seq(Frames)
      BY ONLY <1>2, <1>4, ConcatProperties
    <2>4. (own \o (between \o raised)) \o app = own \o ((between \o raised) \o app)
      <3>1. PICK mid : mid = between \o raised
        OBVIOUS
      <3>2. mid \in Seq(Frames)
        BY <2>3, <3>1
      <3>3. (own \o mid) \o app = own \o (mid \o app)
        BY ONLY <1>3, <1>4, <3>2, ConcatAssociative
      <3> QED
        BY <3>1, <3>3
    <2>5. c.stack = own \o Calling(c)
      BY <1>5, <2>1, <2>2, <2>4
    <2>6. Ahead(c.path.entry) = 1
      <3>1. c.path.entry # "Callers"
        BY <1>2, Calls
      <3> QED
        BY <1>8, <3>1 DEF Ahead
    <2> QED
      BY <1>3, <2>5, <2>6
  <1> QED
    BY <1>7, <1>8, PathFacts, Zenon

\* What Callers takes from behind the prefix is the top of what follows it.
LEMMA Cut ==
  ASSUME NEW a \in Seq(Frames), NEW b \in Seq(Frames)
  PROVE  SubSeq(a \o b, Len(a) + 1,
                IF Len(a) + Depth < Len(a \o b) THEN Len(a) + Depth ELSE Len(a \o b))
           = FirstOf(b)
  <1>1. PICK n : n = IF Len(b) < Depth THEN Len(b) ELSE Depth
    OBVIOUS
  <1>2. /\ Len(a) \in Nat /\ Len(b) \in Nat /\ Depth \in Nat
        /\ Len(a \o b) = Len(a) + Len(b)
        /\ \A i \in 1 .. Len(a) + Len(b) :
             (a \o b)[i] = IF i <= Len(a) THEN a[i] ELSE b[i - Len(a)]
        /\ \A i \in 1 .. Len(b) : b[i] \in Frames
    BY OriginAssumption, LenProperties, ConcatProperties, ElementOfSeq
  <1>3. n \in Nat /\ n <= Len(b)
    BY <1>1, <1>2
  <1>4. PICK f, lo, hi : f = a \o b /\ lo = Len(a) + 1 /\ hi = Len(a) + n
    OBVIOUS
  <1>5. (IF Len(a) + Depth < Len(a \o b) THEN Len(a) + Depth ELSE Len(a \o b)) = hi
    <2>1. /\ Len(a) \in Nat /\ Len(b) \in Nat /\ Depth \in Nat
          /\ Len(a \o b) = Len(a) + Len(b)
      BY <1>2
    <2>2. CASE Len(b) < Depth
      <3>1. n = Len(b) /\ ~(Len(a) + Depth < Len(a) + Len(b))
        BY <1>1, <2>1, <2>2
      <3> QED
        BY <1>4, <2>1, <3>1
    <2>3. CASE ~(Len(b) < Depth)
      <3>1. n = Depth /\ (Len(a) + Depth < Len(a) + Len(b) \/ Len(b) = Depth)
        BY <1>1, <2>1, <2>3
      <3> QED
        BY <1>4, <2>1, <3>1
    <2> QED
      BY <2>2, <2>3
  <1>6. lo \in Int /\ hi \in Int /\ hi - lo + 1 = n /\ (lo <= hi <=> 1 <= n)
    BY <1>2, <1>3, <1>4
  <1>7. \A i \in 1 .. n : f[lo + i - 1] = b[i] /\ b[i] \in Frames
    <2> SUFFICES ASSUME NEW i \in 1 .. n
                 PROVE  f[lo + i - 1] = b[i] /\ b[i] \in Frames
      OBVIOUS
    <2>1. /\ lo + i - 1 = Len(a) + i
          /\ Len(a) + i \in 1 .. Len(a) + Len(b) /\ i \in 1 .. Len(b)
          /\ ~(Len(a) + i <= Len(a)) /\ (Len(a) + i) - Len(a) = i
      BY <1>2, <1>3, <1>4
    <2> QED
      BY <1>2, <1>4, <2>1
  <1>8. \A k \in lo .. hi : f[k] \in Frames
    <2> SUFFICES ASSUME NEW k \in lo .. hi PROVE f[k] \in Frames
      OBVIOUS
    <2>1. k - lo + 1 \in 1 .. n /\ lo + (k - lo + 1) - 1 = k
      BY <1>6
    <2> QED
      BY <1>7, <2>1
  <1> DEFINE left == SubSeq(f, lo, hi)
             right == SubSeq(b, 1, n)
  <1>9. /\ left \in Seq(Frames)
        /\ Len(left) = (IF lo <= hi THEN hi - lo + 1 ELSE 0)
        /\ \A i \in 1 .. hi - lo + 1 : left[i] = f[lo + i - 1]
    BY ONLY <1>6, <1>8, SubSeqProperties
  <1>10. /\ right \in Seq(Frames)
         /\ Len(right) = (IF 1 <= n THEN n - 1 + 1 ELSE 0)
         /\ \A i \in 1 .. n - 1 + 1 : right[i] = b[1 + i - 1]
    <2>1. 1 \in Int /\ n \in Int /\ \A i \in 1 .. n : b[i] \in Frames
      BY <1>3, <1>7
    <2> QED
      BY ONLY <2>1, SubSeqProperties
  <1> HIDE DEF left, right
  <1>11. Len(left) = n /\ Len(right) = n
    BY <1>3, <1>6, <1>9, <1>10
  <1>12. \A i \in 1 .. n : left[i] = right[i]
    BY <1>3, <1>6, <1>7, <1>9, <1>10
  <1>13. left = right
    BY <1>9, <1>10, <1>11, <1>12, SeqEqual
  <1> QED
    BY <1>1, <1>4, <1>5, <1>13 DEF FirstOf, left, right

LEMMA FirstOfType ==
  ASSUME NEW b \in Seq(Frames)
  PROVE  /\ FirstOf(b) \in Seq(Frames)
         /\ Len(FirstOf(b)) <= Len(b) /\ Len(FirstOf(b)) <= Depth
         /\ \A i \in 1 .. Len(FirstOf(b)) : FirstOf(b)[i] = b[i]
  <1>1. PICK n : n = IF Len(b) < Depth THEN Len(b) ELSE Depth
    OBVIOUS
  <1>2. n \in Nat /\ n <= Len(b) /\ n <= Depth /\ Len(b) \in Nat /\ Depth \in Nat
    BY <1>1, OriginAssumption, LenProperties
  <1>3. \A i \in 1 .. n : b[i] \in Frames
    BY <1>2, ElementOfSeq
  <1>4. PICK f : f = SubSeq(b, 1, n)
    OBVIOUS
  <1>5. /\ f \in Seq(Frames)
        /\ Len(f) = (IF 1 <= n THEN n - 1 + 1 ELSE 0)
        /\ \A i \in 1 .. n - 1 + 1 : f[i] = b[1 + i - 1]
    BY <1>2, <1>3, <1>4, SubSeqProperties
  <1>6. Len(f) = n /\ \A i \in 1 .. n : f[i] = b[i]
    BY <1>2, <1>5
  <1>7. FirstOf(b) = f
    BY <1>1, <1>4 DEF FirstOf
  <1> QED
    BY <1>2, <1>5, <1>6, <1>7

-----------------------------------------------------------------------------
(***************************************************************************)
(* The invariant.                                                          *)
(***************************************************************************)

\* How far down a capture has got, and what it is going to leave out.
Under(c) ==
  /\ c.path \in Paths /\ c.app \in Stacks
  /\ c.path.error <=> c.error # "none"
  /\ c.at \in Functions
  /\ c.skip \in Nat
  /\ \E prefix \in Seq(Frames) :
       c.stack = prefix \o Calling(c) /\ Len(prefix) = c.skip + Ahead(c.at)

Fields == {"path", "hub", "error", "app", "at", "skip", "stack"}

\* An event is made of the top of its caller's stack.
Told(e) ==
  LET frames == CaptureStacktrace(FirstOf(Calling(e)))
      type == EventType(e.path, e.error, frames)
  IN /\ e.path \in Paths /\ e.app \in Stacks
     /\ e.path.error <=> e.error # "none"
     /\ e.frames = frames
     /\ e.fingerprint = IF Grouped(e) THEN e.custom ELSE ComputedFingerprint(type, frames)

Inv ==
  /\ call # NoCall => DOMAIN call = Fields /\ Under(call)
  /\ \A e \in events : Told(e)

LEMMA BeginStep ==
  ASSUME Inv, NEW path \in Paths, NEW hub, NEW error, NEW stack \in Stacks,
         Begin(path, hub, error, stack)
  PROVE  Inv'
  <1>1. PICK c : c = call'
    OBVIOUS
  <1>2. PICK whole : whole = <<Frame(path.entry, "sdk")>> \o path.between
                               \o Raised(path, error) \o stack
    OBVIOUS
  <1>3. c = [path |-> path, hub |-> hub, error |-> error, app |-> stack,
             at |-> path.entry, skip |-> 0, stack |-> whole]
    BY <1>1, <1>2 DEF Begin
  <1>4. /\ DOMAIN c = Fields
        /\ c.path = path /\ c.error = error /\ c.app = stack /\ c.at = path.entry
        /\ c.skip = 0 /\ c.stack = whole
    BY <1>3 DEF Fields
  <1>5. path.error <=> error # "none"
    BY DEF Begin
  <1>6. \E prefix \in Seq(Frames) :
          c.stack = prefix \o Calling(c) /\ Len(prefix) = Ahead(c.path.entry)
    <2>1. /\ c.path \in Paths /\ c.app \in Stacks
          /\ c.stack = <<Frame(c.path.entry, "sdk")>> \o c.path.between
                         \o Raised(c.path, c.error) \o c.app
      BY <1>2, <1>4
    <2> QED
      BY <2>1, FirstStack
  <1>7. \E prefix \in Seq(Frames) :
          c.stack = prefix \o Calling(c) /\ Len(prefix) = c.skip + Ahead(c.at)
    <2>1. PICK prefix \in Seq(Frames) :
            c.stack = prefix \o Calling(c) /\ Len(prefix) = Ahead(c.path.entry)
      BY <1>6
    <2>2. Len(prefix) = c.skip + Ahead(c.at)
      BY <1>4, <2>1, LenProperties
    <2> QED
      BY <2>1, <2>2
  <1>8. c.at \in Functions /\ c.skip \in Nat
    <2>1. path.entry \in DOMAIN CallsNext
      BY PathFacts, Zenon
    <2> QED
      BY <1>4, <2>1 DEF Functions
  <1>9. c.path.error <=> c.error # "none"
    BY <1>4, <1>5, Zenon
  <1>10. Under(c)
    BY <1>4, <1>7, <1>8, <1>9, Zenon DEF Under
  <1>11. events' = events
    BY DEF Begin
  <1> QED
    BY <1>1, <1>4, <1>10, <1>11 DEF Inv

LEMMA DescendStep ==
  ASSUME Inv, Descend
  PROVE  Inv'
  <1>1. PICK c, d : c = call /\ d = call'
    OBVIOUS
  <1>2. /\ DOMAIN c = Fields /\ Under(c) /\ c.at # "Callers"
        /\ d = [c EXCEPT !.at = CallsNext[@], !.skip = @ + AddedSkip(c.at),
                         !.stack = <<Frame(CallsNext[c.at], "sdk")>> \o @]
        /\ events' = events
    BY <1>1 DEF Inv, Descend
  <1>3. PICK next, own : next = CallsNext[c.at] /\ own = <<Frame(next, "sdk")>>
    OBVIOUS
  <1>4. c.at \in DOMAIN CallsNext /\ c.skip \in Nat /\ c.path \in Paths /\ c.app \in Stacks
    BY <1>2 DEF Under, Functions
  <1>5. /\ next \in Functions /\ AddedSkip(c.at) \in Nat
        /\ AddedSkip(c.at) + Ahead(next) = 1 + Ahead(c.at)
    BY <1>3, <1>4, FunctionFacts
  <1>6. /\ DOMAIN d = Fields
        /\ d.path = c.path /\ d.error = c.error /\ d.app = c.app
        /\ d.at = next /\ d.skip = c.skip + AddedSkip(c.at)
        /\ d.stack = own \o c.stack
    BY <1>2, <1>3 DEF Fields
  <1>7. own \in Seq(Frames) /\ Len(own) = 1
    <2>1. next \in Names /\ "sdk" \in AddedPlaces
      BY <1>5 DEF Names, AddedPlaces
    <2> QED
      BY <1>3, <2>1, FrameType
  <1>8. PICK prefix \in Seq(Frames) :
          c.stack = prefix \o Calling(c) /\ Len(prefix) = c.skip + Ahead(c.at)
    BY <1>2 DEF Under
  <1>9. PICK caller : caller = Calling(c)
    OBVIOUS
  <1>10. caller \in Seq(Frames) /\ Calling(d) = caller
    <2>1. Calling(d) = Calling(c)
      BY <1>6, Zenon DEF Calling
    <2> QED
      BY <1>4, <1>9, <2>1, CallerType
  <1>11. own \o prefix \in Seq(Frames) /\ Len(own \o prefix) = Len(own) + Len(prefix)
    BY <1>7, <1>8, ConcatProperties
  <1>12. (own \o prefix) \o caller = own \o (prefix \o caller)
    BY ONLY <1>7, <1>8, <1>10, ConcatAssociative
  <1>13. d.stack = (own \o prefix) \o Calling(d)
    BY <1>6, <1>8, <1>9, <1>10, <1>12
  <1>14. Len(own \o prefix) = d.skip + Ahead(d.at)
    <2>1. Ahead(c.at) \in Nat /\ Ahead(next) \in Nat
      BY DEF Ahead
    <2> QED
      BY <1>4, <1>5, <1>6, <1>7, <1>8, <1>11, <2>1
  <1>15. d.at \in Functions /\ d.skip \in Nat
    BY <1>4, <1>5, <1>6
  <1>16. d.path.error <=> d.error # "none"
    <2>1. c.path.error <=> c.error # "none"
      BY <1>2, Zenon DEF Under
    <2> QED
      BY <1>6, <2>1, Zenon
  <1>17. d.path \in Paths /\ d.app \in Stacks
    BY <1>4, <1>6
  <1>18. \E longer \in Seq(Frames) :
           d.stack = longer \o Calling(d) /\ Len(longer) = d.skip + Ahead(d.at)
    BY <1>11, <1>13, <1>14, Zenon
  <1>19. Under(d)
    BY <1>15, <1>16, <1>17, <1>18, Zenon DEF Under
  <1> QED
    BY <1>1, <1>2, <1>6, <1>19 DEF Inv

LEMMA BuildStep ==
  ASSUME Inv, Build
  PROVE  Inv'
  <1>1. PICK c : c = call
    OBVIOUS
  <1>2. DOMAIN c = Fields /\ Under(c) /\ c.at = "Callers"
    BY <1>1 DEF Inv, Build
  <1>3. PICK last : last = IF c.skip + Depth < Len(c.stack) THEN c.skip + Depth
                           ELSE Len(c.stack)
    OBVIOUS
  <1>4. PICK top : top = SubSeq(c.stack, c.skip + 1, last)
    OBVIOUS
  <1>5. PICK frames : frames = CaptureStacktrace(top)
    OBVIOUS
  <1>6. PICK type : type = EventType(c.path, c.error, frames)
    OBVIOUS
  <1>7. PICK fingerprint : fingerprint = EventFingerprint(c.hub, type, frames)
    OBVIOUS
  <1>8. PICK client : client = EventClient(c.path, c.hub)
    OBVIOUS
  <1>9. PICK e : e = [path |-> c.path, hub |-> c.hub, app |-> c.app, error |-> c.error,
                      frames |-> frames, type |-> type, custom |-> customFingerprint,
                      fingerprint |-> fingerprint, client |-> client]
    OBVIOUS
  <1>10. events' = events \cup {e} /\ call' = NoCall
    BY <1>1, <1>3, <1>4, <1>5, <1>6, <1>7, <1>8, <1>9, Zenon DEF Build
  <1>11. top = FirstOf(Calling(c))
    <2>1. PICK prefix \in Seq(Frames) :
            c.stack = prefix \o Calling(c) /\ Len(prefix) = c.skip + Ahead(c.at)
      BY <1>2 DEF Under
    <2>2. PICK caller : caller = Calling(c)
      OBVIOUS
    <2>3. caller \in Seq(Frames)
      BY <1>2, <2>2, CallerType DEF Under
    <2>4. Len(prefix) = c.skip
      BY <1>2, <2>1, LenProperties DEF Ahead, Under
    <2>5. SubSeq(prefix \o caller, Len(prefix) + 1,
                 IF Len(prefix) + Depth < Len(prefix \o caller)
                 THEN Len(prefix) + Depth ELSE Len(prefix \o caller)) = FirstOf(caller)
      BY <2>3, Cut
    <2> QED
      BY <1>3, <1>4, <2>1, <2>2, <2>4, <2>5
  <1>12. Told(e)
    <2>1. /\ e.path = c.path /\ e.app = c.app /\ e.error = c.error /\ e.frames = frames
          /\ e.fingerprint = fingerprint /\ e.custom = customFingerprint
      BY <1>9
    <2>5. e.hub <=> c.hub
      BY <1>9, Zenon
    <2>6. e.fingerprint = IF Grouped(e) THEN e.custom ELSE ComputedFingerprint(type, frames)
      BY <1>7, <2>1, <2>5, Zenon DEF EventFingerprint, Grouped
    <2>2. Calling(e) = Calling(c)
      BY <2>1, Zenon DEF Calling
    <2>3. frames = CaptureStacktrace(FirstOf(Calling(e)))
      BY <1>5, <1>11, <2>2
    <2>4. c.path \in Paths /\ c.app \in Stacks /\ (c.path.error <=> c.error # "none")
      BY <1>2, Zenon DEF Under
    <2> QED
      BY <1>6, <2>1, <2>3, <2>4, <2>6, Zenon DEF Told
  <1> QED
    BY <1>10, <1>12 DEF Inv

\* Every state of a run satisfies the invariant.
THEOREM InvHolds == Spec => []Inv
  <1>1. Init => Inv
    BY DEF Init, Inv
  <1>2. Inv /\ [Next]_vars => Inv'
    <2> SUFFICES ASSUME Inv, [Next]_vars PROVE Inv'
      OBVIOUS
    <2>1. ASSUME NEW path \in Paths, NEW error \in Errors \cup {"none"},
                 NEW stack \in Stacks, NEW hub \in HubOf[path.from],
                 Begin(path, hub, error, stack)
          PROVE  Inv'
      BY <2>1, BeginStep
    <2>2. CASE Descend
      BY <2>2, DescendStep
    <2>3. CASE Build
      BY <2>3, BuildStep
    <2>4. ASSUME UNCHANGED <<call, events>> PROVE Inv'
      BY <2>4 DEF Inv, Under, Told, Calling
    <2>5. ASSUME NEW parts, SetFingerprint(parts) PROVE Inv'
      BY <2>4, <2>5 DEF SetFingerprint
    <2>6. CASE UNCHANGED vars
      BY <2>4, <2>6 DEF vars
    <2> QED
      BY <2>1, <2>2, <2>3, <2>5, <2>6 DEF Next
  <1> QED
    BY <1>1, <1>2, PTL DEF Spec

-----------------------------------------------------------------------------
LEMMA CallerOfCalled ==
  ASSUME NEW e, e.path \in Paths, e.app \in Stacks, Called(e)
  PROVE  Calling(e) = Raised(e.path, e.error) \o e.app
  <1>1. PICK before, raised :
          /\ before = IF e.path.panic THEN <<>> ELSE e.path.between
          /\ raised = Raised(e.path, e.error)
    OBVIOUS
  <1>2. before = <<>>
    BY <1>1, Zenon DEF Called
  <1>3. Calling(e) = (before \o raised) \o e.app
    BY <1>1, Zenon DEF Calling
  <1>4. raised \in Seq(Frames)
    BY <1>1, RaisedType
  <1>5. <<>> \o raised = raised
    BY <1>4, ConcatEmptySeq
  <1> QED
    BY <1>1, <1>2, <1>3, <1>5

\* The frames of every event that the application has captured itself, or by a panic,
\* are those of its caller, however deep the stack and however many frames are taken of
\* it.
THEOREM CallerComesFirst == Spec => []CallSiteFirst
  <1>1. ASSUME NEW stack
        PROVE  /\ DOMAIN CaptureStacktrace(FirstOf(stack)) = DOMAIN Shown(stack)
               /\ \A i \in DOMAIN Shown(stack) :
                    CaptureStacktrace(FirstOf(stack))[i] = StackFrame(Shown(stack)[i])
    BY DEF CaptureStacktrace, Shown
  <1>2. ASSUME NEW f
        PROVE  /\ StackFrame(f).module = f.module /\ StackFrame(f).function = f.function
               /\ StackFrame(f).line = f.line
    BY DEF StackFrame
  <1>3. Inv => CallSiteFirst
    <2> SUFFICES ASSUME Inv, NEW e \in events, Called(e)
                 PROVE  LET shown == Shown(Raised(e.path, e.error) \o e.app) IN
                        /\ DOMAIN e.frames = DOMAIN shown
                        /\ \A i \in DOMAIN shown :
                             /\ e.frames[i].module = shown[i].module
                             /\ e.frames[i].function = shown[i].function
                             /\ e.frames[i].line = shown[i].line
      BY Zenon DEF CallSiteFirst
    <2>1. PICK stack : stack = Raised(e.path, e.error) \o e.app
      OBVIOUS
    <2>2. e.frames = CaptureStacktrace(FirstOf(stack))
      <3>1. /\ e.path \in Paths /\ e.app \in Stacks
            /\ e.frames = CaptureStacktrace(FirstOf(Calling(e)))
        BY DEF Inv, Told
      <3>2. Calling(e) = stack
        BY <2>1, <3>1, CallerOfCalled
      <3> QED
        BY <3>1, <3>2
    <2> QED
      BY <1>1, <1>2, <2>1, <2>2
  <1> QED
    BY <1>3, InvHolds, PTL

\* Where nothing stands between the application and the way to capture, one failure
\* at one place is one issue to both fingerprints, by whichever way it is reported,
\* unless the application has set one that one of the ways takes.
DirectlyOneIssue ==
  \A d, e \in events :
    /\ d.app = e.app /\ d.error = e.error /\ Direct(d) /\ Direct(e)
    /\ ~Grouped(d) /\ ~Grouped(e)
    => d.fingerprint = e.fingerprint

LEMMA DirectCaller ==
  ASSUME NEW e, e.path \in Paths, Direct(e)
  PROVE  Calling(e) = (<<>> \o <<>>) \o e.app
  <1>1. CASE e.path.panic = TRUE /\ e.path.between = Panicking
    <2>1. Panicking # <<>>
      BY DEF Panicking
    <2>2. Raised(e.path, e.error) = <<>>
      BY <1>1, <2>1, Zenon DEF Direct, Called
    <2> QED
      BY <1>1, <2>2, Zenon DEF Calling
  <1>2. CASE e.path.panic = FALSE
    <2>1. e.path.between = <<>>
      BY <1>2, Zenon DEF Direct, Called
    <2>2. Raised(e.path, e.error) = <<>>
      BY <1>2, Zenon DEF Raised
    <2> QED
      BY <1>2, <2>1, <2>2, Zenon DEF Calling
  <1> QED
    BY <1>1, <1>2, PathFacts, Zenon

\* Two direct captures of one error from one stack of the application have the same
\* two fingerprints, neither of them grouped by hand.
THEOREM DirectIsOneIssue == Spec => []DirectlyOneIssue
  <1>1. Inv => DirectlyOneIssue
    <2> SUFFICES ASSUME Inv, NEW d \in events, NEW e \in events,
                        d.app = e.app, d.error = e.error, Direct(d), Direct(e),
                        ~Grouped(d), ~Grouped(e)
                 PROVE  d.fingerprint = e.fingerprint
      BY DEF DirectlyOneIssue
    <2>1. Told(d) /\ Told(e)
      BY DEF Inv
    <2>2. d.path \in Paths /\ e.path \in Paths
      BY <2>1, Zenon DEF Told
    <2>3. Calling(d) = Calling(e)
      BY <2>2, DirectCaller, Zenon
    <2>4. d.path.error <=> e.path.error
      BY <2>1, Zenon DEF Told
    <2>5. PICK frames : frames = CaptureStacktrace(FirstOf(Calling(e)))
      OBVIOUS
    <2>6. PICK type : type = EventType(e.path, e.error, frames)
      OBVIOUS
    <2>7. EventType(d.path, d.error, frames) = type
      BY <2>4, <2>6, Zenon DEF EventType
    <2>8. e.fingerprint = ComputedFingerprint(type, frames)
      BY <2>1, <2>5, <2>6, Zenon DEF Told
    <2>9. d.fingerprint = ComputedFingerprint(type, frames)
      BY <2>1, <2>3, <2>5, <2>7, Zenon DEF Told
    <2> QED
      BY <2>8, <2>9
  <1> QED
    BY <1>1, InvHolds, PTL

-----------------------------------------------------------------------------
(***************************************************************************)
(* The frames of the application are the same whatever stands before them. *)
(***************************************************************************)

Mapped(stack) == [i \in DOMAIN stack |-> StackFrame(stack[i])]
Reported == {StackFrame(f) : f \in Frames}

LEMMA MappedType ==
  ASSUME NEW stack \in Seq(Frames)
  PROVE  /\ Mapped(stack) \in Seq(Reported) /\ Len(Mapped(stack)) = Len(stack)
         /\ \A i \in 1 .. Len(stack) : Mapped(stack)[i] = StackFrame(stack[i])
  <1>1. PICK n \in Nat : n = Len(stack) /\ DOMAIN stack = 1 .. n
    BY LenProperties
  <1>2. \A i \in 1 .. n : stack[i] \in Frames
    BY <1>1, ElementOfSeq
  <1>3. \A i \in 1 .. n : StackFrame(stack[i]) \in Reported
    BY <1>2 DEF Reported
  <1>4. Mapped(stack) = [i \in 1 .. n |-> StackFrame(stack[i])]
    BY <1>1 DEF Mapped
  <1> QED
    BY <1>1, <1>3, <1>4

LEMMA MappedConcat ==
  ASSUME NEW a \in Seq(Frames), NEW b \in Seq(Frames)
  PROVE  Mapped(a \o b) = Mapped(a) \o Mapped(b)
  <1>1. PICK c, ma, mb, mc, m, n :
          /\ c = a \o b /\ ma = Mapped(a) /\ mb = Mapped(b) /\ mc = Mapped(c)
          /\ m = Len(a) /\ n = Len(b)
    OBVIOUS
  <1>2. /\ m \in Nat /\ n \in Nat /\ c \in Seq(Frames) /\ Len(c) = m + n
        /\ \A i \in 1 .. m + n : c[i] = IF i <= m THEN a[i] ELSE b[i - m]
    BY <1>1, LenProperties, ConcatProperties
  <1>3. /\ ma \in Seq(Reported) /\ Len(ma) = m
        /\ \A i \in 1 .. m : ma[i] = StackFrame(a[i])
    BY <1>1, MappedType
  <1>4. /\ mb \in Seq(Reported) /\ Len(mb) = n
        /\ \A i \in 1 .. n : mb[i] = StackFrame(b[i])
    BY <1>1, MappedType
  <1>5. /\ mc \in Seq(Reported) /\ Len(mc) = m + n
        /\ \A i \in 1 .. m + n : mc[i] = StackFrame(c[i])
    BY <1>1, <1>2, MappedType
  <1>6. PICK d : d = ma \o mb
    OBVIOUS
  <1>7. /\ d \in Seq(Reported) /\ Len(d) = m + n
        /\ \A i \in 1 .. m + n : d[i] = IF i <= m THEN ma[i] ELSE mb[i - m]
    BY <1>3, <1>4, <1>6, ConcatProperties
  <1>8. ASSUME NEW i \in 1 .. m + n PROVE mc[i] = d[i]
    <2>1. CASE i <= m
      <3>1. i \in 1 .. m
        BY <1>2, <2>1
      <3> QED
        BY <1>2, <1>3, <1>5, <1>7, <2>1, <3>1
    <2>2. CASE ~(i <= m)
      <3>1. i - m \in 1 .. n
        BY <1>2, <2>2
      <3> QED
        BY <1>2, <1>4, <1>5, <1>7, <2>2, <3>1
    <2> QED
      BY <2>1, <2>2
  <1>9. mc = d
    BY ONLY <1>5, <1>7, <1>8, SeqEqual
  <1> QED
    BY <1>1, <1>6, <1>9

LEMMA Capturing ==
  ASSUME NEW stack
  PROVE  CaptureStacktrace(stack) =
           Mapped(Select(stack, {i \in DOMAIN stack : stack[i].place # "bare"}))
  BY DEF CaptureStacktrace, Mapped

LEMMA CapturingConcat ==
  ASSUME NEW a \in Seq(Frames), NEW b \in Seq(Frames)
  PROVE  CaptureStacktrace(a \o b) = CaptureStacktrace(a) \o CaptureStacktrace(b)
  <1>1. PICK c, m, n : c = a \o b /\ m = Len(a) /\ n = Len(b)
    OBVIOUS
  <1>2. /\ m \in Nat /\ n \in Nat /\ DOMAIN a = 1 .. m /\ DOMAIN b = 1 .. n
        /\ c \in Seq(Frames) /\ Len(c) = m + n
        /\ \A i \in 1 .. m + n : c[i] = IF i <= m THEN a[i] ELSE b[i - m]
    BY <1>1, LenProperties, ConcatProperties
  <1>3. DOMAIN c = 1 .. m + n
    BY <1>2, LenProperties
  <1>4. PICK all, first, second :
          /\ all = {i \in DOMAIN c : c[i].place # "bare"}
          /\ first = {i \in DOMAIN a : a[i].place # "bare"}
          /\ second = {i \in DOMAIN b : b[i].place # "bare"}
    OBVIOUS
  <1>5. ASSUME NEW i \in 1 .. m PROVE i \in all <=> i \in first
    <2>1. i \in 1 .. m + n /\ c[i] = a[i]
      BY <1>2
    <2> QED
      BY <1>2, <1>3, <1>4, <2>1
  <1>6. ASSUME NEW i \in 1 .. n PROVE m + i \in all <=> i \in second
    <2>1. m + i \in 1 .. m + n /\ c[m + i] = b[i]
      <3>1. m + i \in 1 .. m + n /\ ~(m + i <= m) /\ (m + i) - m = i
        BY <1>2
      <3> QED
        BY <1>2, <3>1
    <2> QED
      BY <1>2, <1>3, <1>4, <2>1
  <1>7. Select(c, all) = Select(a, first) \o Select(b, second)
    BY <1>1, <1>5, <1>6, SelectConcat
  <1>8. Select(a, first) \in Seq(Frames) /\ Select(b, second) \in Seq(Frames)
    BY SelectIn
  <1>9. Mapped(Select(c, all)) = Mapped(Select(a, first)) \o Mapped(Select(b, second))
    BY <1>7, <1>8, MappedConcat
  <1> QED
    BY <1>1, <1>4, <1>9, Capturing

LEMMA CapturingType ==
  ASSUME NEW stack \in Seq(Frames)
  PROVE  /\ CaptureStacktrace(stack) \in Seq(Reported)
         /\ Len(CaptureStacktrace(stack)) <= Len(stack)
         /\ \A i \in 1 .. Len(CaptureStacktrace(stack)) : \E j \in 1 .. Len(stack) :
              CaptureStacktrace(stack)[i] = StackFrame(stack[j])
  <1>1. PICK s, places : /\ places = {i \in DOMAIN stack : stack[i].place # "bare"}
                         /\ s = Select(stack, places)
    OBVIOUS
  <1>2. PICK these : these = {stack[i] : i \in places \cap (1 .. Len(stack))}
    OBVIOUS
  <1>3. s \in Seq(these) /\ Len(s) <= Len(stack)
    BY <1>1, <1>2, SelectType
  <1>4. s \in Seq(Frames)
    BY <1>1, SelectIn
  <1>5. PICK c : c = CaptureStacktrace(stack)
    OBVIOUS
  <1>6. c = Mapped(s)
    BY <1>1, <1>5, Capturing
  <1>7. /\ c \in Seq(Reported) /\ Len(c) = Len(s)
        /\ \A i \in 1 .. Len(s) : c[i] = StackFrame(s[i])
    BY <1>4, <1>6, MappedType
  <1>8. ASSUME NEW i \in 1 .. Len(c)
        PROVE  \E j \in 1 .. Len(stack) : c[i] = StackFrame(stack[j])
    <2>1. i \in 1 .. Len(s) /\ s[i] \in these
      BY <1>3, <1>7, ElementOfSeq
    <2>2. PICK j \in 1 .. Len(stack) : s[i] = stack[j]
      BY <1>2, <2>1
    <2> QED
      BY <1>7, <2>1, <2>2
  <1> QED
    BY <1>3, <1>5, <1>7, <1>8

\* Frames that are not in-app, before a stack, add no in-app frame.
LEMMA InAppConcat ==
  ASSUME NEW a \in Seq(Reported), NEW b \in Seq(Reported),
         \A i \in 1 .. Len(a) : ~ a[i].inApp
  PROVE  InAppFrames(a \o b) = InAppFrames(b)
  <1>1. PICK c, m, n : c = a \o b /\ m = Len(a) /\ n = Len(b)
    OBVIOUS
  <1>2. /\ m \in Nat /\ n \in Nat /\ DOMAIN b = 1 .. n
        /\ c \in Seq(Reported) /\ Len(c) = m + n
        /\ \A i \in 1 .. m + n : c[i] = IF i <= m THEN a[i] ELSE b[i - m]
    BY <1>1, LenProperties, ConcatProperties
  <1>3. DOMAIN c = 1 .. m + n
    BY <1>2, LenProperties
  <1>4. PICK all, none, second :
          /\ none = {}
          /\ all = {i \in DOMAIN c : c[i].inApp}
          /\ second = {i \in DOMAIN b : b[i].inApp}
    OBVIOUS
  <1>5. ASSUME NEW i \in 1 .. m PROVE i \in all <=> i \in none
    <2>1. i \in 1 .. m + n /\ c[i] = a[i]
      BY <1>2
    <2>2. ~ a[i].inApp
      BY <1>1
    <2>3. ~ c[i].inApp
      BY <2>1, <2>2, Zenon
    <2> QED
      BY <1>4, <2>3, Zenon
  <1>6. ASSUME NEW i \in 1 .. n PROVE m + i \in all <=> i \in second
    <2>1. m + i \in 1 .. m + n /\ c[m + i] = b[i]
      <3>1. m + i \in 1 .. m + n /\ ~(m + i <= m) /\ (m + i) - m = i
        BY <1>2
      <3> QED
        BY <1>2, <3>1
    <2>2. m + i \in all <=> c[m + i].inApp
      BY <1>3, <1>4, <2>1, Zenon
    <2>3. i \in second <=> b[i].inApp
      BY <1>2, <1>4, Zenon
    <2> QED
      BY <2>1, <2>2, <2>3, Zenon
  <1>7. Select(c, all) = Select(a, none) \o Select(b, second)
    BY <1>1, <1>5, <1>6, SelectConcat
  <1>8. Select(a, none) = <<>>
    BY <1>4, SelectNothing
  <1>9. Select(b, second) \in Seq(Reported)
    BY SelectIn
  <1>10. <<>> \o Select(b, second) = Select(b, second)
    BY <1>9, ConcatEmptySeq
  <1> QED
    BY <1>1, <1>4, <1>7, <1>8, <1>10 DEF InAppFrames

\* What the caller's stack has before the application's is none of the application's.
LEMMA AboveTheApp ==
  ASSUME NEW c, c.path \in Paths, c.app \in Stacks
  PROVE  \E above \in Seq(Frames) :
           /\ Calling(c) = above \o c.app
           /\ Len(above) <= Len(c.path.between \o Raised(c.path, c.error))
           /\ \A i \in 1 .. Len(above) : ~ IsInApp(above[i].place)
  <1>1. PICK before, raised :
          /\ before = IF c.path.panic THEN <<>> ELSE c.path.between
          /\ raised = Raised(c.path, c.error)
    OBVIOUS
  <1>2. PICK between \in Seq(Added) : between = c.path.between
    BY PathFacts, Zenon
  <1>3. before \in Seq(Added) /\ Len(before) <= Len(between)
    <2>1. <<>> \in Seq(Added) /\ Len(<<>>) = 0 /\ Len(between) \in Nat
      BY <1>2, EmptySeq, LenProperties
    <2>2. before = <<>> \/ before = between
      BY <1>1, <1>2, Zenon
    <2>3. CASE before = <<>>
      <3>1. Len(before) = 0
        BY <2>1, <2>3, Zenon
      <3>2. before \in Seq(Added)
        BY <2>1, <2>3, Zenon
      <3> QED
        BY <2>1, <3>1, <3>2
    <2>4. CASE before = between
      BY <2>1, <2>4
    <2> QED
      BY <2>2, <2>3, <2>4
  <1>4. raised \in Seq(Added)
    BY <1>1, RaisedType
  <1>5. PICK above : above = before \o raised
    OBVIOUS
  <1>6. /\ above \in Seq(Added) /\ Len(above) = Len(before) + Len(raised)
        /\ Len(between \o raised) = Len(between) + Len(raised)
    BY <1>2, <1>3, <1>4, <1>5, ConcatProperties
  <1>7. Len(above) <= Len(between \o raised)
    BY <1>2, <1>3, <1>4, <1>6, LenProperties
  <1>8. above \in Seq(Frames)
    BY <1>6, AddedIsFrames, SeqMonotonic
  <1>9. ASSUME NEW i \in 1 .. Len(above) PROVE ~ IsInApp(above[i].place)
    <2>1. above[i] \in Added
      BY <1>6, ElementOfSeq
    <2>2. above[i].place \in AddedPlaces
      BY <2>1 DEF Added, Frame
    <2> QED
      BY <2>2 DEF IsInApp, AddedPlaces
  <1>10. Calling(c) = above \o c.app
    BY <1>1, <1>5, Zenon DEF Calling
  <1> QED
    BY <1>1, <1>2, <1>7, <1>8, <1>9, <1>10

LEMMA FrameInApp ==
  ASSUME NEW f
  PROVE  StackFrame(f).inApp <=> IsInApp(f.place)
  BY Zenon DEF StackFrame

LEMMA WholeCaller ==
  ASSUME NEW c, c.path \in Paths, c.app \in Stacks, Whole(c)
  PROVE  InAppFrames(CaptureStacktrace(FirstOf(Calling(c)))) =
           InAppFrames(CaptureStacktrace(c.app))
  <1>1. PICK above \in Seq(Frames) :
          /\ Calling(c) = above \o c.app
          /\ Len(above) <= Len(c.path.between \o Raised(c.path, c.error))
          /\ \A i \in 1 .. Len(above) : ~ IsInApp(above[i].place)
    BY AboveTheApp
  <1>2. PICK app : app = c.app
    OBVIOUS
  <1>3. app \in Seq(Frames)
    BY <1>2, StackType
  <1>4. PICK before : before = c.path.between \o Raised(c.path, c.error)
    OBVIOUS
  <1>5. before \in Seq(Frames)
    <2>1. PICK between \in Seq(Frames) : between = c.path.between
      BY PathFacts, Zenon
    <2>2. PICK raised \in Seq(Frames) : raised = Raised(c.path, c.error)
      BY RaisedType
    <2> QED
      BY <1>4, <2>1, <2>2, ConcatProperties
  <1>6. Len(before) + Len(app) <= Depth
    <2>1. Len(before \o app) <= Depth
      <3>1. c.path.between \o Raised(c.path, c.error) \o c.app = before \o app
        BY <1>2, <1>4
      <3> QED
        BY <3>1, Zenon DEF Whole
    <2>2. Len(before \o app) = Len(before) + Len(app)
      BY ONLY <1>3, <1>5, ConcatProperties
    <2> QED
      BY <2>1, <2>2
  <1>7. PICK caller : caller = above \o app
    OBVIOUS
  <1>8. /\ caller \in Seq(Frames) /\ Len(caller) = Len(above) + Len(app)
        /\ Len(above) \in Nat /\ Len(app) \in Nat /\ Len(before) \in Nat
    BY <1>3, <1>5, <1>7, ConcatProperties, LenProperties
  <1>9. FirstOf(caller) = caller
    <2>1. Len(caller) <= Depth /\ Depth \in Nat
      <3>1. Depth \in Nat
        BY OriginAssumption
      <3>2. Len(above) <= Len(before)
        BY <1>1, <1>4, Zenon
      <3>3. PICK x, y, z : x = Len(above) /\ y = Len(before) /\ z = Len(app)
        OBVIOUS
      <3> QED
        BY <1>6, <1>8, <3>1, <3>2, <3>3
    <2>2. (IF Len(caller) < Depth THEN Len(caller) ELSE Depth) = Len(caller)
      BY <1>8, <2>1
    <2>3. SubSeq(caller, 1, Len(caller)) = caller
      BY ONLY <1>8, SubSeqFull
    <2> QED
      BY <2>2, <2>3, Zenon DEF FirstOf
  <1>10. PICK a, b : a = CaptureStacktrace(above) /\ b = CaptureStacktrace(app)
    OBVIOUS
  <1>11. CaptureStacktrace(caller) = a \o b
    BY <1>3, <1>7, <1>10, CapturingConcat
  <1>12. a \in Seq(Reported) /\ b \in Seq(Reported)
    BY <1>3, <1>10, CapturingType
  <1>13. ASSUME NEW i \in 1 .. Len(a) PROVE ~ a[i].inApp
    <2>1. PICK j \in 1 .. Len(above) : a[i] = StackFrame(above[j])
      BY <1>10, CapturingType
    <2>2. ~ IsInApp(above[j].place)
      BY <1>1
    <2>3. StackFrame(above[j]).inApp <=> IsInApp(above[j].place)
      BY FrameInApp
    <2> QED
      BY <2>1, <2>2, <2>3, Zenon
  <1>14. InAppFrames(a \o b) = InAppFrames(b)
    BY ONLY <1>12, <1>13, InAppConcat
  <1> QED
    BY <1>1, <1>2, <1>7, <1>9, <1>10, <1>11, <1>14, Zenon

\* One failure at one place has one fingerprint of the application's frames, by
\* whichever way it is reported, and one of all frames where nothing stands between.
THEOREM OneFailure == Spec => []OneFailureIsOneIssue
  <1>1. ASSUME NEW e, Told(e), Whole(e), ~Grouped(e), e.fingerprint # <<>>
        PROVE  e.fingerprint[2] =
                 <<EventType(e.path, e.error, CaptureStacktrace(e.app))>>
                   \o Parts(InAppFrames(CaptureStacktrace(e.app)))
    <2>1. PICK frames : frames = CaptureStacktrace(FirstOf(Calling(e)))
      OBVIOUS
    <2>2. PICK type : type = EventType(e.path, e.error, frames)
      OBVIOUS
    <2>3. e.fingerprint = IF frames = <<>> THEN <<>>
                          ELSE <<ComputeAllFramesGroupingHash(type, frames),
                                 ComputeGroupingHash(type, frames)>>
      BY <1>1, <2>1, <2>2, Zenon DEF Told, ComputedFingerprint
    <2>4. e.fingerprint = <<ComputeAllFramesGroupingHash(type, frames),
                            ComputeGroupingHash(type, frames)>>
      BY <1>1, <2>3
    <2>5. e.fingerprint[2] = <<type>> \o Parts(InAppFrames(frames))
      BY <2>4 DEF ComputeGroupingHash
    <2>6. InAppFrames(frames) = InAppFrames(CaptureStacktrace(e.app))
      <3>1. e.path \in Paths /\ e.app \in Stacks
        BY <1>1, Zenon DEF Told
      <3> QED
        BY <1>1, <2>1, <3>1, WholeCaller
    <2>7. CallerFunctionName(frames) = CallerFunctionName(CaptureStacktrace(e.app))
      BY <2>6, Zenon DEF CallerFunctionName
    <2>8. type = EventType(e.path, e.error, CaptureStacktrace(e.app))
      BY <2>2, <2>7, Zenon DEF EventType
    <2> QED
      BY <2>5, <2>6, <2>8, Zenon
  <1>2. Inv /\ DirectlyOneIssue => OneFailureIsOneIssue
    <2> SUFFICES ASSUME Inv, DirectlyOneIssue, NEW d \in events, NEW e \in events
                 PROVE  /\ d.app = e.app /\ d.error = e.error /\ ~Grouped(d) /\ ~Grouped(e) =>
                             /\ Whole(d) /\ Whole(e) /\ d.fingerprint # <<>>
                                  /\ e.fingerprint # <<>> =>
                                  d.fingerprint[2] = e.fingerprint[2]
                             /\ Direct(d) /\ Direct(e) => d.fingerprint = e.fingerprint
                        /\ Grouped(d) /\ Grouped(e) /\ d.custom = e.custom =>
                             d.fingerprint = e.fingerprint
      BY Zenon DEF OneFailureIsOneIssue
    <2>1. Told(d) /\ Told(e)
      BY DEF Inv
    <2>3. ASSUME d.app = e.app, d.error = e.error, ~Grouped(d), ~Grouped(e),
                 Whole(d), Whole(e), d.fingerprint # <<>>, e.fingerprint # <<>>
          PROVE  d.fingerprint[2] = e.fingerprint[2]
      <3>1. PICK s, t, x, y :
              /\ s = EventType(d.path, d.error, CaptureStacktrace(d.app))
              /\ t = EventType(e.path, e.error, CaptureStacktrace(e.app))
              /\ x = Parts(InAppFrames(CaptureStacktrace(d.app)))
              /\ y = Parts(InAppFrames(CaptureStacktrace(e.app)))
        OBVIOUS
      <3>2. d.path.error <=> e.path.error
        BY <2>1, <2>3, Zenon DEF Told
      <3>3. s = t /\ x = y
        BY <2>3, <3>1, <3>2, Zenon DEF EventType
      <3>4. d.fingerprint[2] = <<s>> \o x
        BY <1>1, <2>1, <2>3, <3>1
      <3>5. e.fingerprint[2] = <<t>> \o y
        BY <1>1, <2>1, <2>3, <3>1
      <3> QED
        BY <3>3, <3>4, <3>5
    <2>4. ASSUME d.app = e.app, d.error = e.error, ~Grouped(d), ~Grouped(e),
                 Direct(d), Direct(e)
          PROVE  d.fingerprint = e.fingerprint
      BY <2>4, Zenon DEF DirectlyOneIssue
    <2>5. ASSUME Grouped(d), Grouped(e), d.custom = e.custom
          PROVE  d.fingerprint = e.fingerprint
      BY <2>1, <2>5, Zenon DEF Told
    <2> QED
      BY <2>3, <2>4, <2>5, Zenon
  <1> QED
    BY <1>2, InvHolds, DirectIsOneIssue, PTL

-----------------------------------------------------------------------------
(***************************************************************************)
(* The lines of source that are shown.                                     *)
(***************************************************************************)

LEMMA ContextLines ==
  ASSUME NEW lines \in Nat, NEW line \in Nat, line = 0 => lines = 0
  PROVE  LET context == IF line > 0 THEN SourceContext(lines, line, 4) ELSE {}
         IN /\ {c.line : c \in context} =
                 IF line <= lines THEN {l \in 1 .. lines : l - line \in -4 .. 4} ELSE {}
            /\ \A c \in context : c.current <=> c.line = line
  <1> DEFINE context == IF line > 0 THEN SourceContext(lines, line, 4) ELSE {}
  <1>1. CASE line = 0 \/ line > lines
    <2>1. context = {}
      <3>1. CASE line = 0
        BY <3>1
      <3>2. CASE line > lines
        <4>1. line - 1 >= lines
          BY <3>2
        <4> QED
          BY <4>1 DEF SourceContext
      <3> QED
        BY <1>1, <3>1, <3>2
    <2>2. (IF line <= lines THEN {l \in 1 .. lines : l - line \in -4 .. 4} ELSE {}) = {}
      BY <1>1
    <2> QED
      BY <2>1, <2>2
  <1>2. CASE line # 0 /\ line <= lines
    <2>1. PICK lower, upper :
            /\ lower = IF line - 1 < 4 THEN 0 ELSE (line - 1) - 4
            /\ upper = IF (line - 1) + 4 > lines - 1 THEN lines - 1 ELSE (line - 1) + 4
      OBVIOUS
    <2>2. lower \in Nat /\ upper \in Nat
      BY <1>2, <2>1
    <2>3. context = {[line |-> i + 1, current |-> i = line - 1] : i \in lower .. upper}
      <3>1. line > 0 /\ ~(line - 1 < 0 \/ line - 1 >= lines)
        BY <1>2
      <3> QED
        BY <2>1, <3>1, Zenon DEF SourceContext
    <2>4. ASSUME NEW c \in context
          PROVE  /\ c.line \in {l \in 1 .. lines : l - line \in -4 .. 4}
                 /\ c.current <=> c.line = line
      <3>1. PICK i \in lower .. upper : c = [line |-> i + 1, current |-> i = line - 1]
        BY <2>3, <2>4
      <3>2. c.line = i + 1 /\ (c.current <=> i = line - 1)
        BY <3>1, Zenon
      <3>3. i + 1 \in {l \in 1 .. lines : l - line \in -4 .. 4}
        BY <1>2, <2>1, <2>2
      <3>4. i = line - 1 <=> i + 1 = line
        BY <2>2
      <3> QED
        BY <3>2, <3>3, <3>4, Zenon
    <2>5. ASSUME NEW l \in 1 .. lines, l - line \in -4 .. 4
          PROVE  \E c \in context : c.line = l
      <3>1. l - 1 \in lower .. upper
        BY <1>2, <2>1, <2>2, <2>5
      <3>2. PICK c : c = [line |-> (l - 1) + 1, current |-> l - 1 = line - 1]
        OBVIOUS
      <3>3. c \in context
        BY <2>3, <3>1, <3>2
      <3>4. c.line = (l - 1) + 1 /\ (l - 1) + 1 = l
        BY <3>2
      <3> QED
        BY <3>3, <3>4
    <2>6. {c.line : c \in context} = {l \in 1 .. lines : l - line \in -4 .. 4}
      <3> HIDE DEF context
      <3> QED
        BY <2>4, <2>5
    <2> HIDE DEF context
    <2>7. \A c \in context : c.current <=> c.line = line
      BY <2>4, Zenon
    <2>8. {c.line : c \in context} =
            IF line <= lines THEN {l \in 1 .. lines : l - line \in -4 .. 4} ELSE {}
      BY <1>2, <2>6
    <2> QED
      BY <2>7, <2>8, Zenon DEF context
  <1> QED
    BY <1>1, <1>2

\* Every in-app frame of an event is one of its application's stack.
LEMMA InAppIsOfTheApp ==
  ASSUME NEW e, Told(e), NEW i \in DOMAIN e.frames, e.frames[i].inApp
  PROVE  \E k \in DOMAIN e.app : e.frames[i] = StackFrame(e.app[k]) /\ IsInApp(e.app[k].place)
  <1>1. e.path \in Paths /\ e.app \in Stacks /\ e.frames = CaptureStacktrace(FirstOf(Calling(e)))
    BY DEF Told
  <1>2. PICK caller, app, first :
          caller = Calling(e) /\ app = e.app /\ first = FirstOf(caller)
    OBVIOUS
  <1>3. PICK above \in Seq(Frames) :
          /\ caller = above \o app
          /\ \A j \in 1 .. Len(above) : ~ IsInApp(above[j].place)
    BY <1>1, <1>2, AboveTheApp
  <1>4. app \in Seq(Frames)
    BY <1>1, <1>2, StackType
  <1>5. PICK m, n : m = Len(above) /\ n = Len(app)
    OBVIOUS
  <1>6. /\ m \in Nat /\ n \in Nat /\ caller \in Seq(Frames) /\ Len(caller) = m + n
        /\ \A j \in 1 .. m + n : caller[j] = IF j <= m THEN above[j] ELSE app[j - m]
        /\ DOMAIN app = 1 .. n
    BY <1>3, <1>4, <1>5, ConcatProperties, LenProperties
  <1>7. /\ first \in Seq(Frames) /\ Len(first) <= m + n
        /\ \A j \in 1 .. Len(first) : first[j] = caller[j]
    BY <1>2, <1>6, FirstOfType
  <1>8. /\ e.frames = CaptureStacktrace(first) /\ e.frames \in Seq(Reported)
        /\ DOMAIN e.frames = 1 .. Len(e.frames)
    BY <1>1, <1>2, <1>7, CapturingType, LenProperties
  <1>9. PICK j \in 1 .. Len(first) : e.frames[i] = StackFrame(first[j])
    BY <1>7, <1>8, CapturingType
  <1>10. IsInApp(first[j].place)
    <2>1. StackFrame(first[j]).inApp <=> IsInApp(first[j].place)
      BY FrameInApp
    <2> QED
      BY <1>9, <2>1, Zenon
  <1>11. j \in 1 .. m + n /\ first[j] = caller[j]
    BY <1>6, <1>7, LenProperties
  <1>12. ~(j <= m)
    <2> SUFFICES ASSUME j <= m PROVE FALSE
      OBVIOUS
    <2>1. j \in 1 .. Len(above) /\ first[j] = above[j]
      BY <1>5, <1>6, <1>11
    <2> QED
      BY <1>3, <1>10, <2>1
  <1>13. j - m \in DOMAIN app /\ first[j] = app[j - m]
    BY <1>6, <1>11, <1>12
  <1> QED
    BY <1>2, <1>9, <1>10, <1>13

\* The lines shown around an in-app frame are those of its file, whatever files there
\* are and wherever in them the frame is.
THEOREM ContextIsTheFrames == Spec => []ContextShowsTheLine
  <1>1. Inv => ContextShowsTheLine
    <2> SUFFICES ASSUME Inv, NEW e \in events, NEW i \in DOMAIN e.frames,
                        e.frames[i].inApp,
                        NEW g \in {e.app[k] : k \in DOMAIN e.app},
                        g.module = e.frames[i].module,
                        g.function = e.frames[i].function,
                        g.line = e.frames[i].line
                 PROVE  /\ {c.line : c \in e.frames[i].context} =
                             IF g.line <= g.lines
                             THEN {l \in 1 .. g.lines : l - g.line \in -4 .. 4} ELSE {}
                        /\ \A c \in e.frames[i].context :
                             c.current <=> c.line = e.frames[i].line
      BY DEF ContextShowsTheLine
    <2>1. Told(e)
      BY DEF Inv
    <2>2. PICK k \in DOMAIN e.app :
            e.frames[i] = StackFrame(e.app[k]) /\ IsInApp(e.app[k].place)
      BY <2>1, InAppIsOfTheApp
    <2>3. PICK f : f = e.app[k]
      OBVIOUS
    <2>4. /\ e.frames[i].module = f.module /\ e.frames[i].function = f.function
          /\ e.frames[i].line = f.line
          /\ e.frames[i].context = IF IsInApp(f.place) /\ f.line > 0
                                   THEN SourceContext(f.lines, f.line, 4) ELSE {}
      BY <2>2, <2>3 DEF StackFrame
    <2>5. /\ f.line \in Nat /\ f.lines \in Nat /\ (f.line = 0 => f.lines = 0)
          /\ f.lines = g.lines /\ f.line = g.line
      <3>1. e.app \in Stacks
        BY <2>1 DEF Told
      <3>2. PICK j \in DOMAIN e.app : g = e.app[j]
        OBVIOUS
      <3> QED
        BY <2>3, <2>4, <3>1, <3>2, SourceAssumption
    <2>6. e.frames[i].context = IF f.line > 0 THEN SourceContext(f.lines, f.line, 4) ELSE {}
      BY <2>2, <2>3, <2>4
    <2>7. /\ {c.line : c \in e.frames[i].context} =
               IF f.line <= f.lines
               THEN {l \in 1 .. f.lines : l - f.line \in -4 .. 4} ELSE {}
          /\ \A c \in e.frames[i].context : c.current <=> c.line = f.line
      <3>1. PICK line, lines, context :
              /\ line = f.line /\ lines = f.lines
              /\ context = IF line > 0 THEN SourceContext(lines, line, 4) ELSE {}
        OBVIOUS
      <3>2. line \in Nat /\ lines \in Nat /\ (line = 0 => lines = 0)
        BY <2>5, <3>1
      <3>3. /\ {c.line : c \in context} =
                 IF line <= lines THEN {l \in 1 .. lines : l - line \in -4 .. 4} ELSE {}
            /\ \A c \in context : c.current <=> c.line = line
        BY <3>1, <3>2, ContextLines, Zenon
      <3>4. e.frames[i].context = context
        BY <2>6, <3>1, Zenon
      <3> QED
        BY <3>1, <3>3, <3>4, Zenon
    <2> QED
      BY <2>4, <2>5, <2>7, Zenon
  <1> QED
    BY <1>1, InvHolds, PTL

-----------------------------------------------------------------------------
(***************************************************************************)
(* The browser and the system of a request.                                *)
(***************************************************************************)

LEMMA LeastExists ==
  ASSUME NEW T \in SUBSET Nat, T # {}
  PROVE  \E x \in T : \A y \in T : x <= y
  <1>1. PICK less : less = OpToRel(<, Nat)
    OBVIOUS
  <1>2. PICK x \in T : \A y \in T : ~ (<<y, x>> \in less)
    BY <1>1, NatLessThanWellFounded, WFMin
  <1>3. ASSUME NEW y \in T PROVE x <= y
    <2>1. ~(y < x)
      BY <1>1, <1>2 DEF OpToRel
    <2> QED
      BY <2>1
  <1> QED
    BY <1>3

Brands == [name : STRING, version : STRING]
Usable(brands) ==
  Select(brands, {i \in DOMAIN brands :
                    /\ brands[i].name \notin {"Not", "Chromium"}
                    /\ brands[i].version # "none"})

Beats(real, i, j) ==
  \/ BrandPriority(real[i].name) > BrandPriority(real[j].name)
  \/ BrandPriority(real[i].name) = BrandPriority(real[j].name) /\ i <= j

LEMMA PriorityType ==
  ASSUME NEW name
  PROVE  BrandPriority(name) \in 0 .. 4
  BY DEF BrandPriority

\* Of any brands there is one that beats every other.
LEMMA BestBrand ==
  ASSUME NEW real \in Seq(Brands), real # <<>>
  PROVE  \E i \in DOMAIN real : \A j \in DOMAIN real : Beats(real, i, j)
  <1>1. DOMAIN real = 1 .. Len(real) /\ Len(real) \in Nat \ {0}
    BY EmptySeq, LenProperties
  <1>2. PICK d : d = [i \in DOMAIN real |-> BrandPriority(real[i].name)]
    OBVIOUS
  <1>3. \A i \in DOMAIN real : d[i] \in 0 .. 4
    BY <1>2, PriorityType
  <1>4. PICK lacks : lacks = {4 - d[i] : i \in DOMAIN real}
    OBVIOUS
  <1>5. PICK top : top \in DOMAIN real /\ \A y \in lacks : 4 - d[top] <= y
    <2>1. lacks \in SUBSET Nat
      BY <1>3, <1>4
    <2>2. 1 \in DOMAIN real
      BY <1>1
    <2>3. 4 - d[1] \in lacks
      BY <1>4, <2>2
    <2>4. PICK low \in lacks : \A y \in lacks : low <= y
      BY <2>1, <2>3, LeastExists
    <2>5. PICK t \in DOMAIN real : low = 4 - d[t]
      BY <1>4, <2>4
    <2> QED
      BY <2>4, <2>5
  <1>6. ASSUME NEW j \in DOMAIN real PROVE d[j] <= d[top]
    <2>1. 4 - d[j] \in lacks
      BY <1>4
    <2>2. 4 - d[top] <= 4 - d[j]
      BY <1>5, <2>1
    <2>3. d[j] \in 0 .. 4 /\ d[top] \in 0 .. 4
      BY <1>3, <1>5
    <2> QED
      BY <2>2, <2>3
  <1>7. PICK i \in {k \in DOMAIN real : d[k] = d[top]} :
          \A j \in {k \in DOMAIN real : d[k] = d[top]} : i <= j
    <2>1. {k \in DOMAIN real : d[k] = d[top]} \in SUBSET Nat
      BY <1>1
    <2>2. {k \in DOMAIN real : d[k] = d[top]} # {}
      BY <1>5
    <2> QED
      BY <2>1, <2>2, LeastExists
  <1>8. ASSUME NEW j \in DOMAIN real PROVE Beats(real, i, j)
    <2>1. d[i] > d[j] \/ (d[i] = d[j] /\ i <= j)
      BY <1>3, <1>5, <1>6, <1>7
    <2>2. d[i] = BrandPriority(real[i].name) /\ d[j] = BrandPriority(real[j].name)
      BY <1>2, <1>7
    <2> QED
      BY <2>1, <2>2 DEF Beats
  <1> QED
    BY <1>7, <1>8

\* The brand that is taken is a usable one, and no usable one has a higher priority.
LEMMA ParsedBrand ==
  ASSUME NEW brands, Usable(brands) \in Seq(Brands)
  PROVE  IF Usable(brands) = <<>> THEN ParseBrandHeader(brands) = NoBrowser
         ELSE \E i \in DOMAIN Usable(brands) :
                /\ ParseBrandHeader(brands) = Usable(brands)[i]
                /\ \A j \in DOMAIN Usable(brands) :
                     BrandPriority(Usable(brands)[j].name)
                       <= BrandPriority(Usable(brands)[i].name)
  <1>1. PICK real : real = Usable(brands)
    OBVIOUS
  <1>2. ParseBrandHeader(brands) =
          IF real = <<>> THEN NoBrowser
          ELSE real[CHOOSE i \in DOMAIN real : \A j \in DOMAIN real : Beats(real, i, j)]
    <2>1. ParseBrandHeader(brands) =
            IF Usable(brands) = <<>> THEN NoBrowser
            ELSE Usable(brands)[CHOOSE i \in DOMAIN Usable(brands) :
                                  \A j \in DOMAIN Usable(brands) : Beats(Usable(brands), i, j)]
      BY DEF ParseBrandHeader, Usable, Beats
    <2> QED
      BY <1>1, <2>1, Zenon
  <1>3. CASE real = <<>>
    BY <1>1, <1>2, <1>3
  <1>4. CASE real # <<>>
    <2>1. PICK i : i = CHOOSE k \in DOMAIN real : \A j \in DOMAIN real : Beats(real, k, j)
      OBVIOUS
    <2>2. i \in DOMAIN real /\ \A j \in DOMAIN real : Beats(real, i, j)
      <3>1. \E k \in DOMAIN real : \A j \in DOMAIN real : Beats(real, k, j)
        BY <1>1, <1>4, BestBrand
      <3> QED
        BY <2>1, <3>1, Zenon
    <2>3. ParseBrandHeader(brands) = real[i]
      BY <1>2, <1>4, <2>1, Zenon
    <2>4. ASSUME NEW j \in DOMAIN real
          PROVE  BrandPriority(real[j].name) <= BrandPriority(real[i].name)
      <3>1. BrandPriority(real[j].name) \in Int /\ BrandPriority(real[i].name) \in Int
        BY PriorityType
      <3> QED
        BY <2>2, <3>1 DEF Beats
    <2> QED
      BY <1>1, <1>4, <2>2, <2>3, <2>4
  <1> QED
    BY <1>3, <1>4

LEMMA UsableType ==
  ASSUME NEW brands \in Seq(Brands)
  PROVE  /\ Usable(brands) \in Seq(Brands)
         /\ \A i \in DOMAIN Usable(brands) : \E j \in DOMAIN brands :
              /\ Usable(brands)[i] = brands[j]
              /\ brands[j].name \notin {"Not", "Chromium"} /\ brands[j].version # "none"
         /\ \A j \in DOMAIN brands :
              brands[j].name \notin {"Not", "Chromium"} /\ brands[j].version # "none" =>
                \E i \in DOMAIN Usable(brands) : Usable(brands)[i] = brands[j]
  <1>1. PICK places : places = {i \in DOMAIN brands :
                                  /\ brands[i].name \notin {"Not", "Chromium"}
                                  /\ brands[i].version # "none"}
    OBVIOUS
  <1>2. PICK real, R : /\ real = Select(brands, places)
                       /\ R = {brands[i] : i \in places \cap (1 .. Len(brands))}
    OBVIOUS
  <1>3. real = Usable(brands)
    BY <1>1, <1>2 DEF Usable
  <1>4. real \in Seq(Brands)
    BY <1>2, SelectIn
  <1>5. real \in Seq(R) /\ DOMAIN real = 1 .. Len(real)
    BY <1>2, SelectType, LenProperties
  <1>6. DOMAIN brands = 1 .. Len(brands)
    BY LenProperties
  <1>7. ASSUME NEW i \in DOMAIN real
        PROVE  \E j \in DOMAIN brands :
                 /\ real[i] = brands[j]
                 /\ brands[j].name \notin {"Not", "Chromium"} /\ brands[j].version # "none"
    <2>1. real[i] \in R
      BY <1>5, ElementOfSeq
    <2> QED
      BY <1>1, <1>2, <1>6, <2>1
  <1>8. ASSUME NEW j \in DOMAIN brands, brands[j].name \notin {"Not", "Chromium"},
               brands[j].version # "none"
        PROVE  \E i \in DOMAIN real : real[i] = brands[j]
    <2>1. j \in places /\ j \in 1 .. Len(brands)
      BY <1>1, <1>6, <1>8
    <2> QED
      BY <1>2, <2>1, SelectHas
  <1> QED
    BY <1>3, <1>4, <1>7, <1>8

LEMMA LeastIs ==
  ASSUME NEW T \in SUBSET Nat, NEW x \in T, \A y \in T : x <= y
  PROVE  (CHOOSE k \in T : \A y \in T : k <= y) = x
  <1>1. PICK k : k = CHOOSE z \in T : \A y \in T : z <= y
    OBVIOUS
  <1>2. k \in T /\ \A y \in T : k <= y
    BY <1>1, Zenon
  <1>3. k = x
    BY <1>2
  <1> QED
    BY <1>1, <1>3

\* The tables of the two switches.
LEMMA SystemTable ==
  /\ DOMAIN SystemWords = 1 .. 6
  /\ SystemWords[1] = {"iPhone", "iPad"}
  /\ SystemWords[2] = {"Android"}
  /\ SystemWords[3] = {"Macintosh", "Mac_OS_X"}
  /\ SystemWords[4] = {"Windows_NT"}
  /\ SystemWords[5] = {"CrOS"}
  /\ SystemWords[6] = {"Linux"}
  /\ SystemNames[1] = "iOS" /\ SystemNames[2] = "Android" /\ SystemNames[3] = "macOS"
  /\ SystemNames[4] = "Windows" /\ SystemNames[5] = "Chrome_OS" /\ SystemNames[6] = "Linux"
  <1>1. DOMAIN SystemWords = 1 .. 6
    BY DEF SystemWords
  <1>2. SystemWords[1] = {"iPhone", "iPad"} /\ SystemWords[2] = {"Android"}
    BY DEF SystemWords
  <1>3. SystemWords[3] = {"Macintosh", "Mac_OS_X"} /\ SystemWords[4] = {"Windows_NT"}
    BY DEF SystemWords
  <1>4. SystemWords[5] = {"CrOS"} /\ SystemWords[6] = {"Linux"}
    BY DEF SystemWords
  <1>5. /\ SystemNames[1] = "iOS" /\ SystemNames[2] = "Android" /\ SystemNames[3] = "macOS"
        /\ SystemNames[4] = "Windows" /\ SystemNames[5] = "Chrome_OS"
        /\ SystemNames[6] = "Linux"
    BY DEF SystemNames
  <1> QED
    BY <1>1, <1>2, <1>3, <1>4, <1>5

\* The words of the switch that an agent holds; the first of them decides.
FoundSystems(agent) == {i \in DOMAIN SystemWords : SystemWords[i] \cap DOMAIN agent # {}}

LEMMA SystemsFound ==
  ASSUME NEW agent
  PROVE  /\ \A i \in FoundSystems(agent) : i \in 1 .. 6
         /\ 1 \in FoundSystems(agent) <=> "iPhone" \in DOMAIN agent \/ "iPad" \in DOMAIN agent
         /\ 2 \in FoundSystems(agent) <=> "Android" \in DOMAIN agent
         /\ 3 \in FoundSystems(agent) <=>
              "Macintosh" \in DOMAIN agent \/ "Mac_OS_X" \in DOMAIN agent
         /\ 4 \in FoundSystems(agent) <=> "Windows_NT" \in DOMAIN agent
         /\ 5 \in FoundSystems(agent) <=> "CrOS" \in DOMAIN agent
         /\ 6 \in FoundSystems(agent) <=> "Linux" \in DOMAIN agent
  <1>1. PICK words, found, table :
          words = DOMAIN agent /\ found = FoundSystems(agent) /\ table = SystemWords
    OBVIOUS
  <1>2. found = {i \in 1 .. 6 : table[i] \cap words # {}}
    BY <1>1, SystemTable, Zenon DEF FoundSystems
  <1>3. \A i \in found : i \in 1 .. 6
    BY <1>2, Zenon
  <1>4. \A i \in 1 .. 6 : i \in found <=> \E w \in words : w \in table[i]
    BY <1>2, Zenon
  <1>5. 1 \in 1 .. 6 /\ 2 \in 1 .. 6 /\ 3 \in 1 .. 6 /\ 4 \in 1 .. 6 /\ 5 \in 1 .. 6 /\ 6 \in 1 .. 6
    OBVIOUS
  <1>6. 1 \in found <=> "iPhone" \in words \/ "iPad" \in words
    BY <1>1, <1>4, <1>5, SystemTable
  <1>7. 2 \in found <=> "Android" \in words
    BY <1>1, <1>4, <1>5, SystemTable
  <1>8. 3 \in found <=> "Macintosh" \in words \/ "Mac_OS_X" \in words
    BY <1>1, <1>4, <1>5, SystemTable
  <1>9. 4 \in found <=> "Windows_NT" \in words
    BY <1>1, <1>4, <1>5, SystemTable
  <1>10. 5 \in found <=> "CrOS" \in words
    BY <1>1, <1>4, <1>5, SystemTable
  <1>11. 6 \in found <=> "Linux" \in words
    BY <1>1, <1>4, <1>5, SystemTable
  <1> QED
    BY <1>1, <1>3, <1>6, <1>7, <1>8, <1>9, <1>10, <1>11, Zenon

LEMMA DetectedSystem ==
  ASSUME NEW agent
  PROVE  /\ FoundSystems(agent) = {} => DetectOSFromUA(agent) = ""
         /\ \A i \in FoundSystems(agent) : (\A j \in FoundSystems(agent) : i <= j) =>
              DetectOSFromUA(agent) = SystemNames[i]
  <1>1. PICK found : found = FoundSystems(agent)
    OBVIOUS
  <1>2. DetectOSFromUA(agent) =
          IF found = {} THEN ""
          ELSE SystemNames[CHOOSE i \in found : \A j \in found : i <= j]
    BY <1>1 DEF DetectOSFromUA, FoundSystems
  <1>3. found \in SUBSET Nat
    BY <1>1, SystemsFound
  <1>4. ASSUME NEW i \in found, \A j \in found : i <= j
        PROVE  DetectOSFromUA(agent) = SystemNames[i]
    <2>1. (CHOOSE k \in found : \A j \in found : k <= j) = i
      BY <1>3, <1>4, LeastIs
    <2> QED
      BY <1>2, <2>1, Zenon
  <1> QED
    BY <1>1, <1>2, <1>4

\* The words of a system's agents, without the others, tell it.
LEMMA SystemIsTold ==
  ASSUME NEW agent, NEW s \in SystemAgents,
         s.words = DOMAIN agent \cap {"iPhone", "iPad", "Android", "Macintosh", "Mac_OS_X",
                                      "Windows_NT", "CrOS", "Linux"}
  PROVE  DetectOSFromUA(agent) = s.os
  <1>1. PICK given, words, os, found :
          given = DOMAIN agent /\ words = s.words /\ os = s.os /\ found = FoundSystems(agent)
    OBVIOUS
  <1>2. words = given \cap {"iPhone", "iPad", "Android", "Macintosh", "Mac_OS_X",
                            "Windows_NT", "CrOS", "Linux"}
    BY <1>1
  <1>3. /\ \A i \in found : i \in 1 .. 6
        /\ 1 \in found <=> "iPhone" \in given \/ "iPad" \in given
        /\ 2 \in found <=> "Android" \in given
        /\ 3 \in found <=> "Macintosh" \in given \/ "Mac_OS_X" \in given
        /\ 4 \in found <=> "Windows_NT" \in given
        /\ 5 \in found <=> "CrOS" \in given
        /\ 6 \in found <=> "Linux" \in given
    BY <1>1, SystemsFound, Zenon
  <1>4. /\ 1 \in found <=> "iPhone" \in words \/ "iPad" \in words
        /\ 2 \in found <=> "Android" \in words
        /\ 3 \in found <=> "Macintosh" \in words \/ "Mac_OS_X" \in words
        /\ 4 \in found <=> "Windows_NT" \in words
        /\ 5 \in found <=> "CrOS" \in words
        /\ 6 \in found <=> "Linux" \in words
    BY ONLY <1>2, <1>3
  <1>5. \/ os = "iOS" /\ words = {"iPhone", "Mac_OS_X"}
        \/ os = "iOS" /\ words = {"iPad", "Mac_OS_X"}
        \/ os = "Android" /\ words = {"Linux", "Android"}
        \/ os = "macOS" /\ words = {"Macintosh", "Mac_OS_X"}
        \/ os = "Windows" /\ words = {"Windows_NT"}
        \/ os = "Chrome_OS" /\ words = {"CrOS"}
        \/ os = "Linux" /\ words = {"Linux"}
        \/ os = "" /\ words = {}
    <2>1. PICK o, w : /\ s = [os |-> o, words |-> w]
                      /\ \/ o = "iOS" /\ w = {"iPhone", "Mac_OS_X"}
                         \/ o = "iOS" /\ w = {"iPad", "Mac_OS_X"}
                         \/ o = "Android" /\ w = {"Linux", "Android"}
                         \/ o = "macOS" /\ w = {"Macintosh", "Mac_OS_X"}
                         \/ o = "Windows" /\ w = {"Windows_NT"}
                         \/ o = "Chrome_OS" /\ w = {"CrOS"}
                         \/ o = "Linux" /\ w = {"Linux"}
                         \/ o = "" /\ w = {}
      BY Zenon DEF SystemAgents
    <2>2. os = o /\ words = w
      BY <1>1, <2>1
    <2> QED
      BY <2>1, <2>2, Zenon
  <1>6. CASE os = "iOS" /\ ("iPhone" \in words \/ "iPad" \in words)
    <2>1. 1 \in found /\ \A j \in found : 1 <= j
      BY ONLY <1>3, <1>4, <1>6
    <2> QED
      BY <1>1, <1>6, <2>1, DetectedSystem, SystemTable
  <1>7. CASE os = "Android" /\ words = {"Linux", "Android"}
    <2>1. 2 \in found /\ 1 \notin found
      BY ONLY <1>4, <1>7
    <2>2. \A j \in found : 2 <= j
      BY ONLY <1>3, <2>1
    <2> QED
      BY <1>1, <1>7, <2>1, <2>2, DetectedSystem, SystemTable
  <1>8. CASE os = "macOS" /\ words = {"Macintosh", "Mac_OS_X"}
    <2>1. 3 \in found /\ 1 \notin found /\ 2 \notin found
      BY ONLY <1>4, <1>8
    <2>2. \A j \in found : 3 <= j
      BY ONLY <1>3, <2>1
    <2> QED
      BY <1>1, <1>8, <2>1, <2>2, DetectedSystem, SystemTable
  <1>9. CASE os = "Windows" /\ words = {"Windows_NT"}
    <2>1. 4 \in found /\ 1 \notin found /\ 2 \notin found /\ 3 \notin found
      BY ONLY <1>4, <1>9
    <2>2. \A j \in found : 4 <= j
      BY ONLY <1>3, <2>1
    <2> QED
      BY <1>1, <1>9, <2>1, <2>2, DetectedSystem, SystemTable
  <1>10. CASE os = "Chrome_OS" /\ words = {"CrOS"}
    <2>1. 5 \in found /\ 1 \notin found /\ 2 \notin found /\ 3 \notin found /\ 4 \notin found
      BY ONLY <1>4, <1>10
    <2>2. \A j \in found : 5 <= j
      BY ONLY <1>3, <2>1
    <2> QED
      BY <1>1, <1>10, <2>1, <2>2, DetectedSystem, SystemTable
  <1>11. CASE os = "Linux" /\ words = {"Linux"}
    <2>1. /\ 6 \in found /\ 1 \notin found /\ 2 \notin found /\ 3 \notin found
          /\ 4 \notin found /\ 5 \notin found
      BY ONLY <1>4, <1>11
    <2>2. \A j \in found : 6 <= j
      BY ONLY <1>3, <2>1
    <2> QED
      BY <1>1, <1>11, <2>1, <2>2, DetectedSystem, SystemTable
  <1>12. CASE os = "" /\ words = {}
    <2>1. ASSUME NEW j \in found PROVE FALSE
      <3>1. j = 1 \/ j = 2 \/ j = 3 \/ j = 4 \/ j = 5 \/ j = 6
        BY <1>3
      <3> QED
        BY <1>4, <1>12, <3>1
    <2>2. found = {}
      BY <2>1
    <2> QED
      BY <1>1, <1>12, <2>2, DetectedSystem
  <1>13. words = {"iPhone", "Mac_OS_X"} \/ words = {"iPad", "Mac_OS_X"} =>
           "iPhone" \in words \/ "iPad" \in words
    OBVIOUS
  <1> QED
    BY <1>1, <1>13, Zenon, <1>5, <1>6, <1>7, <1>8, <1>9, <1>10, <1>11, <1>12

LEMMA BrowserTable ==
  /\ DOMAIN AgentWords = 1 .. 5
  /\ AgentWords[1] = "Firefox/" /\ AgentNames[1] = "Firefox"
  /\ AgentWords[2] = "Edg/" /\ AgentNames[2] = "Edge"
  /\ AgentWords[3] = "OPR/" /\ AgentNames[3] = "Opera"
  /\ AgentWords[4] = "Chrome/" /\ AgentNames[4] = "Chrome"
  /\ AgentWords[5] = "Version/" /\ AgentNames[5] = "Safari"
  <1>1. DOMAIN AgentWords = 1 .. 5
    BY DEF AgentWords
  <1>2. /\ AgentWords[1] = "Firefox/" /\ AgentWords[2] = "Edg/" /\ AgentWords[3] = "OPR/"
        /\ AgentWords[4] = "Chrome/" /\ AgentWords[5] = "Version/"
    BY DEF AgentWords
  <1>3. /\ AgentNames[1] = "Firefox" /\ AgentNames[2] = "Edge" /\ AgentNames[3] = "Opera"
        /\ AgentNames[4] = "Chrome" /\ AgentNames[5] = "Safari"
    BY DEF AgentNames
  <1> QED
    BY <1>1, <1>2, <1>3

\* Likewise for the browsers.
FoundBrowsers(agent) ==
  {i \in DOMAIN AgentWords :
     /\ AgentWords[i] \in DOMAIN agent
     /\ AgentWords[i] = "Version/" => "Safari/" \in DOMAIN agent}

LEMMA BrowsersFound ==
  ASSUME NEW agent
  PROVE  /\ \A i \in FoundBrowsers(agent) : i \in 1 .. 5 /\ AgentWords[i] \in DOMAIN agent
         /\ 1 \in FoundBrowsers(agent) <=> "Firefox/" \in DOMAIN agent
         /\ 2 \in FoundBrowsers(agent) <=> "Edg/" \in DOMAIN agent
         /\ 3 \in FoundBrowsers(agent) <=> "OPR/" \in DOMAIN agent
         /\ 4 \in FoundBrowsers(agent) <=> "Chrome/" \in DOMAIN agent
         /\ 5 \in FoundBrowsers(agent) <=>
              "Version/" \in DOMAIN agent /\ "Safari/" \in DOMAIN agent
  <1>1. PICK words, found, table :
          words = DOMAIN agent /\ found = FoundBrowsers(agent) /\ table = AgentWords
    OBVIOUS
  <1>2. found = {i \in 1 .. 5 : /\ table[i] \in words
                                /\ table[i] = "Version/" => "Safari/" \in words}
    BY <1>1, BrowserTable, Zenon DEF FoundBrowsers
  <1>3. \A i \in found : i \in 1 .. 5 /\ table[i] \in words
    BY <1>2
  <1>4. /\ 1 \in found <=> "Firefox/" \in words
        /\ 2 \in found <=> "Edg/" \in words
        /\ 3 \in found <=> "OPR/" \in words
        /\ 4 \in found <=> "Chrome/" \in words
        /\ 5 \in found <=> "Version/" \in words /\ "Safari/" \in words
    BY <1>1, <1>2, BrowserTable
  <1> QED
    BY <1>1, <1>3, <1>4, Zenon

LEMMA DetectedBrowser ==
  ASSUME NEW agent
  PROVE  /\ FoundBrowsers(agent) = {} => DetectBrowserFromUA(agent) = NoBrowser
         /\ \A i \in FoundBrowsers(agent) : (\A j \in FoundBrowsers(agent) : i <= j) =>
              DetectBrowserFromUA(agent) =
                [name |-> AgentNames[i], version |-> agent[AgentWords[i]]]
  <1>1. PICK found : found = FoundBrowsers(agent)
    OBVIOUS
  <1>2. DetectBrowserFromUA(agent) =
          IF found = {} THEN NoBrowser
          ELSE LET first == CHOOSE i \in found : \A j \in found : i <= j
               IN [name |-> AgentNames[first], version |-> agent[AgentWords[first]]]
    BY <1>1 DEF DetectBrowserFromUA, FoundBrowsers
  <1>3. found \in SUBSET Nat
    BY <1>1, BrowsersFound
  <1>4. ASSUME NEW i \in found, \A j \in found : i <= j
        PROVE  DetectBrowserFromUA(agent) =
                 [name |-> AgentNames[i], version |-> agent[AgentWords[i]]]
    <2>1. (CHOOSE k \in found : \A j \in found : k <= j) = i
      BY <1>3, <1>4, LeastIs
    <2> QED
      BY <1>2, <2>1, Zenon
  <1> QED
    BY <1>1, <1>2, <1>4

\* The words of a browser's agents tell it, whatever else the agent holds.
LEMMA BrowserIsTold ==
  ASSUME NEW agent, NEW a \in BrowserAgents,
         a.words = DOMAIN agent \cap
                     {"Firefox/", "Edg/", "OPR/", "Chrome/", "Version/", "Safari/"}
  PROVE  DetectBrowserFromUA(agent) = [name |-> a.name, version |-> agent[a.word]]
  <1>1. PICK given, words, name, word, found :
          /\ given = DOMAIN agent /\ words = a.words /\ name = a.name /\ word = a.word
          /\ found = FoundBrowsers(agent)
    OBVIOUS
  <1>2. words = given \cap {"Firefox/", "Edg/", "OPR/", "Chrome/", "Version/", "Safari/"}
    BY <1>1
  <1>3. /\ \A i \in found : i \in 1 .. 5
        /\ 1 \in found <=> "Firefox/" \in given
        /\ 2 \in found <=> "Edg/" \in given
        /\ 3 \in found <=> "OPR/" \in given
        /\ 4 \in found <=> "Chrome/" \in given
        /\ 5 \in found <=> "Version/" \in given /\ "Safari/" \in given
    BY <1>1, BrowsersFound, Zenon
  <1>4. /\ 1 \in found <=> "Firefox/" \in words
        /\ 2 \in found <=> "Edg/" \in words
        /\ 3 \in found <=> "OPR/" \in words
        /\ 4 \in found <=> "Chrome/" \in words
        /\ 5 \in found <=> "Version/" \in words /\ "Safari/" \in words
    BY ONLY <1>2, <1>3
  <1>5. \/ name = "Chrome" /\ words = {"Chrome/", "Safari/"} /\ word = "Chrome/"
        \/ name = "Edge" /\ words = {"Chrome/", "Safari/", "Edg/"} /\ word = "Edg/"
        \/ name = "Opera" /\ words = {"Chrome/", "Safari/", "OPR/"} /\ word = "OPR/"
        \/ name = "Safari" /\ words = {"Version/", "Safari/"} /\ word = "Version/"
        \/ name = "Firefox" /\ words = {"Firefox/"} /\ word = "Firefox/"
    <2>1. PICK n, w, v : /\ a = [name |-> n, words |-> w, word |-> v]
                         /\ \/ n = "Chrome" /\ w = {"Chrome/", "Safari/"} /\ v = "Chrome/"
                            \/ n = "Edge" /\ w = {"Chrome/", "Safari/", "Edg/"} /\ v = "Edg/"
                            \/ n = "Opera" /\ w = {"Chrome/", "Safari/", "OPR/"} /\ v = "OPR/"
                            \/ n = "Safari" /\ w = {"Version/", "Safari/"} /\ v = "Version/"
                            \/ n = "Firefox" /\ w = {"Firefox/"} /\ v = "Firefox/"
      BY Zenon DEF BrowserAgents
    <2>2. name = n /\ words = w /\ word = v
      BY <1>1, <2>1
    <2> QED
      BY <2>1, <2>2, Zenon
  <1>6. ASSUME NEW i \in found, \A j \in found : i <= j, AgentNames[i] = name,
               AgentWords[i] = word
        PROVE  DetectBrowserFromUA(agent) = [name |-> a.name, version |-> agent[a.word]]
    <2>1. DetectBrowserFromUA(agent) =
            [name |-> AgentNames[i], version |-> agent[AgentWords[i]]]
      BY <1>1, <1>6, DetectedBrowser
    <2> QED
      BY <1>1, <1>6, <2>1
  <1>7. CASE name = "Firefox" /\ words = {"Firefox/"} /\ word = "Firefox/"
    <2>1. 1 \in found /\ \A j \in found : 1 <= j
      BY ONLY <1>3, <1>4, <1>7
    <2> QED
      BY <1>6, <1>7, <2>1, BrowserTable
  <1>8. CASE name = "Edge" /\ words = {"Chrome/", "Safari/", "Edg/"} /\ word = "Edg/"
    <2>1. 2 \in found /\ 1 \notin found
      BY ONLY <1>4, <1>8
    <2>2. \A j \in found : 2 <= j
      BY ONLY <1>3, <2>1
    <2> QED
      BY <1>6, <1>8, <2>1, <2>2, BrowserTable
  <1>9. CASE name = "Opera" /\ words = {"Chrome/", "Safari/", "OPR/"} /\ word = "OPR/"
    <2>1. 3 \in found /\ 1 \notin found /\ 2 \notin found
      BY ONLY <1>4, <1>9
    <2>2. \A j \in found : 3 <= j
      BY ONLY <1>3, <2>1
    <2> QED
      BY <1>6, <1>9, <2>1, <2>2, BrowserTable
  <1>10. CASE name = "Chrome" /\ words = {"Chrome/", "Safari/"} /\ word = "Chrome/"
    <2>1. 4 \in found /\ 1 \notin found /\ 2 \notin found /\ 3 \notin found
      BY ONLY <1>4, <1>10
    <2>2. \A j \in found : 4 <= j
      BY ONLY <1>3, <2>1
    <2> QED
      BY <1>6, <1>10, <2>1, <2>2, BrowserTable
  <1>11. CASE name = "Safari" /\ words = {"Version/", "Safari/"} /\ word = "Version/"
    <2>1. 5 \in found /\ 1 \notin found /\ 2 \notin found /\ 3 \notin found /\ 4 \notin found
      BY ONLY <1>4, <1>11
    <2>2. \A j \in found : 5 <= j
      BY ONLY <1>3, <2>1
    <2> QED
      BY <1>6, <1>11, <2>1, <2>2, BrowserTable
  <1> QED
    BY <1>5, <1>7, <1>8, <1>9, <1>10, <1>11, Zenon

\* A browser with client hints is told by its own brand, wherever that stands.
LEMMA HintedIsTold ==
  ASSUME NEW h \in Headers, Hinted(h)
  PROVE  /\ ParseBrandHeader(h.brands).name # ""
         /\ ParseBrandHeader(h.brands).version = h.version
         /\ ShortName(ParseBrandHeader(h.brands).name) = h.name
  <1>1. PICK brands : brands = h.brands
    OBVIOUS
  <1>2. brands \in Seq(Brands)
    BY <1>1, HeaderAssumption DEF Brands
  <1>3. PICK real : real = Usable(brands)
    OBVIOUS
  <1>4. PICK own \in OwnBrands :
          /\ h.name = own.name
          /\ \E i \in DOMAIN brands :
               brands[i].name = own.brand /\ brands[i].version # "none"
          /\ \A i \in DOMAIN brands :
               brands[i].name \in KnownBrands =>
                 brands[i].name = own.brand /\ brands[i].version \in {h.version, "none"}
    BY <1>1 DEF Hinted
  <1>5. PICK n, b : /\ own = [name |-> n, brand |-> b]
                    /\ \/ n = "Chrome" /\ b = "Google_Chrome"
                       \/ n = "Edge" /\ b = "Microsoft_Edge"
                       \/ n = "Opera" /\ b = "Opera"
                       \/ n = "Brave" /\ b = "Brave"
    BY Zenon DEF OwnBrands
  <1>6. own.name = n /\ own.brand = b
    BY <1>5
  <1>7. b \notin {"Not", "Chromium", ""} /\ BrandPriority(b) \in 1 .. 4 /\ ShortName(b) = n
    <2>1. /\ BrandPriority("Google_Chrome") = 1 /\ BrandPriority("Microsoft_Edge") = 2
          /\ BrandPriority("Opera") = 3 /\ BrandPriority("Brave") = 4
      BY DEF BrandPriority
    <2>2. /\ ShortName("Google_Chrome") = "Chrome" /\ ShortName("Microsoft_Edge") = "Edge"
          /\ ShortName("Opera") = "Opera" /\ ShortName("Brave") = "Brave"
      BY DEF ShortName
    <2>3. BrandPriority(b) \in 1 .. 4
      BY <1>5, <2>1
    <2>4. b \notin {"Not", "Chromium", ""}
      BY <1>5
    <2>5. ShortName(b) = n
      BY <1>5, <2>2
    <2> QED
      BY <2>3, <2>4, <2>5
  <1>8. PICK k \in DOMAIN brands : brands[k].name = b /\ brands[k].version # "none"
    BY <1>4, <1>6
  <1>9. PICK l \in DOMAIN real : real[l] = brands[k]
    BY <1>2, <1>3, <1>7, <1>8, UsableType
  <1>10. real \in Seq(Brands) /\ real # <<>>
    <2>1. real \in Seq(Brands)
      BY <1>2, <1>3, UsableType
    <2>2. real # <<>>
      BY <1>9
    <2> QED
      BY <2>1, <2>2
  <1>11. PICK i \in DOMAIN real :
           /\ ParseBrandHeader(brands) = real[i]
           /\ \A j \in DOMAIN real : BrandPriority(real[j].name) <= BrandPriority(real[i].name)
    BY <1>3, <1>10, ParsedBrand
  <1>12. PICK best : best = real[i].name
    OBVIOUS
  <1>13. BrandPriority(best) > 0
    <2>1. BrandPriority(b) <= BrandPriority(best)
      BY <1>8, <1>9, <1>11, <1>12
    <2>2. BrandPriority(b) \in Int /\ BrandPriority(best) \in Int
      BY PriorityType
    <2>3. PICK p, q : p = BrandPriority(b) /\ q = BrandPriority(best)
      OBVIOUS
    <2>4. p <= q /\ p \in 1 .. 4 /\ q \in Int
      BY <1>7, <2>1, <2>2, <2>3
    <2>5. q > 0
      BY <2>4
    <2> QED
      BY <2>3, <2>5
  <1>14. best \in KnownBrands
    BY <1>13 DEF BrandPriority, KnownBrands
  <1>15. best = b /\ real[i].version = h.version
    <2>1. PICK j \in DOMAIN brands : real[i] = brands[j] /\ brands[j].version # "none"
      BY <1>2, <1>3, <1>11, UsableType
    <2> QED
      BY <1>4, <1>6, <1>12, <1>14, <2>1
  <1> QED
    BY <1>1, <1>4, <1>6, <1>7, <1>11, <1>12, <1>15

\* Without hints no brand is read.
LEMMA UnhintedHasNone ==
  ASSUME NEW h \in Headers, Unhinted(h)
  PROVE  ParseBrandHeader(h.brands) = NoBrowser
  <1>1. PICK brands, real : brands = h.brands /\ real = Usable(brands)
    OBVIOUS
  <1>2. brands \in Seq(Brands)
    BY <1>1, HeaderAssumption DEF Brands
  <1>3. real \in Seq(Brands)
    BY <1>1, <1>2, UsableType
  <1>4. ASSUME NEW i \in DOMAIN real PROVE FALSE
    <2>1. PICK j \in DOMAIN brands : brands[j].name \notin {"Not", "Chromium"}
      BY <1>1, <1>2, UsableType
    <2> QED
      BY <1>1, <2>1 DEF Unhinted
  <1>5. real = <<>>
    <2>1. DOMAIN real = 1 .. Len(real) /\ Len(real) \in Nat
      BY <1>3, LenProperties
    <2>2. Len(real) = 0
      BY <1>4, <2>1
    <2> QED
      BY <1>3, <2>2, EmptySeq
  <1> QED
    BY <1>1, <1>3, <1>5, ParsedBrand

\* What the two readings make of any headers.
LEMMA SnapshotIs ==
  ASSUME NEW h
  PROVE  \E browser :
           /\ browser = IF ParseBrandHeader(h.brands).name = ""
                        THEN DetectBrowserFromUA(h.agent) ELSE ParseBrandHeader(h.brands)
           /\ Snapshot(h) = [name |-> ShortName(browser.name), version |-> browser.version,
                             os |-> DetectOSFromUA(h.agent)]
  <1>1. PICK hinted, browser, os :
          /\ hinted = ParseBrandHeader(h.brands)
          /\ browser = IF hinted.name = "" THEN DetectBrowserFromUA(h.agent) ELSE hinted
          /\ os = DetectOSFromUA(h.agent)
    OBVIOUS
  <1>2. ParseUserAgent(h.brands, h.agent) =
          [name |-> browser.name, version |-> browser.version, os |-> os]
    BY <1>1 DEF ParseUserAgent
  <1>3. Snapshot(h) = [name |-> ShortName(browser.name), version |-> browser.version, os |-> os]
    BY <1>2 DEF Snapshot
  <1> QED
    BY <1>1, <1>3

LEMMA ClientIsTold ==
  ASSUME NEW h \in Headers, Recognised(h)
  PROVE  Snapshot(h) = [name |-> h.name, version |-> h.version, os |-> h.os]
  <1>1. PICK browser :
           /\ browser = IF ParseBrandHeader(h.brands).name = ""
                        THEN DetectBrowserFromUA(h.agent) ELSE ParseBrandHeader(h.brands)
           /\ Snapshot(h) = [name |-> ShortName(browser.name), version |-> browser.version,
                             os |-> DetectOSFromUA(h.agent)]
    BY SnapshotIs
  <1>2. DetectOSFromUA(h.agent) = h.os
    <2>1. PICK s \in SystemAgents :
            /\ h.os = s.os
            /\ s.words = DOMAIN h.agent \cap
                           {"iPhone", "iPad", "Android", "Macintosh", "Mac_OS_X",
                            "Windows_NT", "CrOS", "Linux"}
      BY Zenon DEF Recognised
    <2> QED
      BY <2>1, SystemIsTold
  <1>3. ShortName(browser.name) = h.name /\ browser.version = h.version
    <2>1. CASE Hinted(h)
      BY <1>1, <2>1, HintedIsTold
    <2>2. CASE Unhinted(h)
      <3>1. browser = DetectBrowserFromUA(h.agent)
        <4>1. ParseBrandHeader(h.brands).name = ""
          <5>1. ParseBrandHeader(h.brands) = NoBrowser
            BY <2>2, UnhintedHasNone
          <5>2. NoBrowser.name = ""
            BY DEF NoBrowser
          <5> QED
            BY <5>1, <5>2
        <4> QED
          BY <1>1, <4>1, Zenon
      <3>2. PICK a \in BrowserAgents :
              /\ a.words = DOMAIN h.agent \cap
                             {"Firefox/", "Edg/", "OPR/", "Chrome/", "Version/", "Safari/"}
              /\ h.name = a.name /\ h.version = h.agent[a.word]
        BY <2>2, Zenon DEF Unhinted
      <3>3. browser = [name |-> a.name, version |-> h.agent[a.word]]
        BY <3>1, <3>2, BrowserIsTold
      <3>4. browser.name = a.name /\ browser.version = h.agent[a.word]
        BY <3>3
      <3>5. ShortName(a.name) = a.name
        <4>1. a.name \in {"Chrome", "Edge", "Opera", "Safari", "Firefox"}
          <5>1. PICK n, w, v : /\ a = [name |-> n, words |-> w, word |-> v]
                               /\ n \in {"Chrome", "Edge", "Opera", "Safari", "Firefox"}
            BY Zenon DEF BrowserAgents
          <5> QED
            BY <5>1
        <4> QED
          BY <4>1 DEF ShortName
      <3> QED
        BY <3>2, <3>4, <3>5
    <2> QED
      BY <2>1, <2>2, Zenon DEF Recognised
  <1> QED
    BY <1>1, <1>2, <1>3

\* The request's headers do not change, and both readings of them give one client to
\* the events that one of them fills.
FilledBy(e, h) ==
  e.client = IF e.path.from = "fiber" \/ e.hub THEN Snapshot(h) ELSE NoClient

ClientInv ==
  /\ headers \in Headers
  /\ known = Snapshot(headers)
  /\ customFingerprint \in Fingerprints \cup {<<>>}
  /\ \A e \in events : FilledBy(e, headers)

LEMMA ClientInvHolds == Spec => []ClientInv
  <1>1. Init => ClientInv
    BY DEF Init, ClientInv
  <1>2. ClientInv /\ [Next]_vars => ClientInv'
    <2> SUFFICES ASSUME ClientInv, [Next]_vars PROVE ClientInv'
      OBVIOUS
    <2>1. ASSUME NEW path, NEW error, NEW stack, NEW hub, Begin(path, hub, error, stack)
          PROVE  ClientInv'
      BY <2>1 DEF ClientInv, Begin
    <2>2. CASE Descend
      BY <2>2 DEF ClientInv, Descend
    <2>3. CASE Build
      <3>1. UNCHANGED <<headers, known, customFingerprint>>
        BY <2>3 DEF Build
      <3>2. EnrichWithHTTPContext(headers) = Snapshot(headers)
        BY DEF EnrichWithHTTPContext, Snapshot
      <3>3. PICK last : last = IF call.skip + Depth < Len(call.stack)
                               THEN call.skip + Depth ELSE Len(call.stack)
        OBVIOUS
      <3>4. PICK frames : frames = CaptureStacktrace(SubSeq(call.stack, call.skip + 1, last))
        OBVIOUS
      <3>5. PICK type : type = EventType(call.path, call.error, frames)
        OBVIOUS
      <3>6. PICK fingerprint, client :
              /\ fingerprint = EventFingerprint(call.hub, type, frames)
              /\ client = EventClient(call.path, call.hub)
        OBVIOUS
      <3>7. PICK event :
              event = [path |-> call.path, hub |-> call.hub, app |-> call.app,
                       error |-> call.error, frames |-> frames, type |-> type,
                       custom |-> customFingerprint, fingerprint |-> fingerprint,
                       client |-> client]
        OBVIOUS
      <3>8. events' = events \cup {event}
        BY <2>3, <3>3, <3>4, <3>5, <3>6, <3>7, Zenon DEF Build
      <3>9. client = IF call.path.from = "fiber" \/ call.hub THEN Snapshot(headers)
                     ELSE NoClient
        <4>1. known = Snapshot(headers)
          BY DEF ClientInv
        <4>2. CASE call.path.from = "fiber"
          <5>1. client = EnrichWithHTTPContext(headers)
            BY <3>6, <4>2 DEF EventClient
          <5> QED
            BY <3>2, <4>2, <5>1, Zenon
        <4>3. CASE call.path.from # "fiber" /\ call.hub
          BY <3>6, <4>1, <4>3 DEF EventClient
        <4>4. CASE call.path.from # "fiber" /\ ~call.hub
          BY <3>6, <4>4 DEF EventClient
        <4> QED
          BY <4>2, <4>3, <4>4
      <3>10. FilledBy(event, headers)
        <4>1. event.path = call.path /\ event.client = client
          BY <3>7
        <4>2. event.hub <=> call.hub
          BY <3>7, Zenon
        <4> QED
          BY <3>9, <4>1, <4>2, Zenon DEF FilledBy
      <3>11. \A e \in events' : FilledBy(e, headers)
        BY <3>8, <3>10, Zenon DEF ClientInv
      <3> QED
        BY <3>1, <3>11 DEF ClientInv
    <2>4. ASSUME NEW parts \in Fingerprints \cup {<<>>}, SetFingerprint(parts)
          PROVE  ClientInv'
      BY <2>4 DEF ClientInv, SetFingerprint
    <2>5. CASE UNCHANGED vars
      BY <2>5 DEF ClientInv, vars
    <2> QED
      BY <2>1, <2>2, <2>3, <2>4, <2>5 DEF Next
  <1> QED
    BY <1>1, <1>2, PTL DEF Spec

\* The events of a request that are filled from the scope or by the middleware agree on
\* its client, whatever it has sent, and name the sender if that is one that the code
\* can tell (OneClientPerRequest).
THEOREM OneClient == Spec => []OneClientPerRequest
  <1>1. ClientInv => OneClientPerRequest
    <2> SUFFICES ASSUME ClientInv PROVE OneClientPerRequest
      OBVIOUS
    <2>1. PICK told : told = {e \in events : e.hub \/ e.path.from = "fiber"}
      OBVIOUS
    <2>2. PICK sender :
            sender = [name |-> headers.name, version |-> headers.version, os |-> headers.os]
      OBVIOUS
    <2>3. ASSUME NEW e \in told PROVE e.client = Snapshot(headers)
      BY <2>1, <2>3, Zenon DEF ClientInv, FilledBy
    <2>4. Recognised(headers) => Snapshot(headers) = sender
      BY <2>2, ClientIsTold DEF ClientInv
    <2>5. \A d, e \in told : d.client = e.client
      BY <2>3
    <2>6. Recognised(headers) => \A e \in told : e.client = sender
      BY <2>3, <2>4
    <2> QED
      BY <2>1, <2>2, <2>5, <2>6, Zenon DEF OneClientPerRequest
  <1> QED
    BY <1>1, ClientInvHolds, PTL

-----------------------------------------------------------------------------
\* Every variable holds a value of its type: no more frames are left out than there
\* are, and no more are kept than were asked for (TypeOK).
THEOREM TypeCorrect == Spec => []TypeOK
  <1>1. ASSUME NEW c, Under(c)
        PROVE  c.path \in Paths /\ c.skip \in 0 .. Len(c.stack) /\ c.at \in Functions
    <2>1. PICK prefix \in Seq(Frames) :
            c.stack = prefix \o Calling(c) /\ Len(prefix) = c.skip + Ahead(c.at)
      BY <1>1 DEF Under
    <2>2. PICK caller : caller = Calling(c)
      OBVIOUS
    <2>3. caller \in Seq(Frames)
      BY <1>1, <2>2, CallerType DEF Under
    <2>4. Len(prefix \o caller) = Len(prefix) + Len(caller) /\ Len(caller) \in Nat
      BY <2>3, ConcatProperties, LenProperties
    <2>5. Ahead(c.at) \in Nat
      BY DEF Ahead
    <2>6. c.skip \in Nat /\ c.path \in Paths /\ c.at \in Functions
      BY <1>1 DEF Under
    <2> QED
      BY <2>1, <2>2, <2>4, <2>5, <2>6
  <1>2. ASSUME NEW e, Told(e) PROVE Len(e.frames) <= Depth
    <2>1. PICK caller, first : caller = Calling(e) /\ first = FirstOf(caller)
      OBVIOUS
    <2>2. caller \in Seq(Frames)
      BY <1>2, <2>1, CallerType DEF Told
    <2>3. first \in Seq(Frames) /\ Len(first) <= Depth
      BY <2>1, <2>2, FirstOfType
    <2>4. PICK frames : frames = CaptureStacktrace(first)
      OBVIOUS
    <2>5. Len(frames) <= Len(first) /\ Len(frames) \in Nat /\ Len(first) \in Nat
      BY <2>3, <2>4, CapturingType, LenProperties
    <2>6. e.frames = frames
      BY <1>2, <2>1, <2>4 DEF Told
    <2> QED
      BY <2>3, <2>5, <2>6, OriginAssumption
  <1>3. Inv /\ ClientInv => TypeOK
    <2> SUFFICES ASSUME Inv, ClientInv PROVE TypeOK
      OBVIOUS
    <2>1. /\ headers \in Headers /\ known \in Clients
          /\ customFingerprint \in Fingerprints \cup {<<>>}
      BY DEF ClientInv, Clients
    <2>2. call # NoCall =>
            /\ call.path \in Paths
            /\ call.skip \in 0 .. Len(call.stack)
            /\ call.at \in DOMAIN CallsNext \cup {"Callers"}
      BY <1>1 DEF Inv, Functions
    <2>3. ASSUME NEW e \in events PROVE e.client \in Clients /\ Len(e.frames) <= Depth
      <3>1. Snapshot(headers) \in Clients
        BY DEF ClientInv, Clients
      <3>2. NoClient \in Clients
        BY DEF Clients
      <3>3. e.client = Snapshot(headers) \/ e.client = NoClient
        BY Zenon DEF ClientInv, FilledBy
      <3>4. Len(e.frames) <= Depth
        BY <1>2 DEF Inv
      <3> QED
        BY <3>1, <3>2, <3>3, <3>4
    <2> QED
      BY <2>1, <2>2, <2>3, Zenon DEF TypeOK
  <1> QED
    BY <1>3, InvHolds, ClientInvHolds, PTL
=============================================================================
