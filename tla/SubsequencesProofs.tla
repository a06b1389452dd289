------------------------- MODULE SubsequencesProofs -------------------------
(***************************************************************************)
(* What the operators of Subsequences return, for all sequences.  The      *)
(* induction is over the set of the numbers for which the statement holds: *)
(* a set of naturals with a least element outside it would have the one    *)
(* before inside.                                                          *)
(***************************************************************************)
EXTENDS Subsequences, Integers, SequenceTheorems, WellFoundedInduction, TLAPS

\* A set of natural numbers that is not empty has a least element.
LEMMA LeastElement ==
  ASSUME NEW T \in SUBSET Nat, T # {}
  PROVE  \E n \in T : \A m \in T : n <= m
<1>1. PICK n \in T : \A m \in T : ~(<<m, n>> \in OpToRel(<, Nat))
  BY WFMin, NatLessThanWellFounded, Zenon
<1>2. \A m \in T : ~(m < n)
  BY <1>1, Zenon DEF OpToRel
<1> QED BY <1>2

\* Induction on the natural numbers, for a set instead of a predicate.
LEMMA SetInduction ==
  ASSUME NEW T \in SUBSET Nat, 0 \in T, \A n \in T : n + 1 \in T
  PROVE  T = Nat
<1> SUFFICES ASSUME Nat \ T # {} PROVE FALSE
  BY Zenon
<1>1. PICK n \in Nat \ T : \A m \in Nat \ T : n <= m
  BY LeastElement, Zenon
<1>2. n - 1 \in Nat /\ n - 1 \notin Nat \ T
  BY <1>1
<1> QED BY <1>2

\* What f has to satisfy to be the function ElementsAt recurs over.
Recurs(f, s, places, S) ==
  /\ f \in [0..Len(s) -> Seq(S)]
  /\ f[0] = <<>>
  /\ \A n \in 1..Len(s) :
       f[n] = IF n \in places THEN Append(f[n - 1], s[n]) ELSE f[n - 1]

\* Such a function exists, up to every length.
LEMMA RecursExists ==
  ASSUME NEW S, NEW s \in Seq(S), NEW places
  PROVE  \E f : Recurs(f, s, places, S)
<1> DEFINE Partial(f, k) ==
             /\ f \in [0..k -> Seq(S)]
             /\ f[0] = <<>>
             /\ \A n \in 1..k : f[n] = IF n \in places THEN Append(f[n - 1], s[n]) ELSE f[n - 1]
           T == {k \in Nat : k <= Len(s) => \E f : Partial(f, k)}
<1>1. 0 \in T
  <2>1. Partial([k \in 0..0 |-> <<>>], 0)
    OBVIOUS
  <2> QED BY <2>1, Zenon
<1>2. ASSUME NEW k \in T PROVE k + 1 \in T
  <2> HIDE DEF Partial
  <2> SUFFICES ASSUME k + 1 <= Len(s) PROVE \E f : Partial(f, k + 1)
    OBVIOUS
  <2>0. k \in Nat /\ k <= Len(s) /\ Len(s) \in Nat
    OBVIOUS
  <2>1. PICK f : Partial(f, k)
    BY <2>0
  <2> USE DEF Partial
  <2> DEFINE next == IF k + 1 \in places THEN Append(f[k], s[k + 1]) ELSE f[k]
             g == [n \in 0..(k + 1) |-> IF n <= k THEN f[n] ELSE next]
  <2>2. s[k + 1] \in S /\ f[k] \in Seq(S)
    BY <2>1
  <2>3. next \in Seq(S)
    BY <2>2
  <2> HIDE DEF next
  <2>4. g \in [0..(k + 1) -> Seq(S)] /\ g[0] = <<>> /\ g[k + 1] = next /\ g[k] = f[k]
    BY <2>1, <2>3
  <2>5. \A n \in 1..k : g[n] = f[n] /\ g[n - 1] = f[n - 1]
    OBVIOUS
  <2>6. \A n \in 1..(k + 1) :
          g[n] = IF n \in places THEN Append(g[n - 1], s[n]) ELSE g[n - 1]
    <3> SUFFICES ASSUME NEW n \in 1..(k + 1)
                 PROVE  g[n] = IF n \in places THEN Append(g[n - 1], s[n]) ELSE g[n - 1]
      BY Zenon
    <3>1. CASE n = k + 1
      <4>1. g[n - 1] = f[k]
        BY <2>4, <3>1
      <4> QED BY <2>4, <3>1, <4>1 DEF next
    <3>2. CASE n \in 1..k
      <4>1. g[n] = f[n] /\ g[n - 1] = f[n - 1]
        BY <2>5, <3>2
      <4>2. f[n] = IF n \in places THEN Append(f[n - 1], s[n]) ELSE f[n - 1]
        BY <2>1, <3>2, Zenon
      <4> HIDE DEF g
      <4> QED BY <4>1, <4>2
    <3> QED BY <3>1, <3>2
  <2>7. Partial(g, k + 1)
    BY <2>4, <2>6, Zenon
  <2> HIDE DEF g, Partial
  <2> QED BY <2>7
<1> HIDE DEF T
<1>3. T = Nat
  <2>1. T \in SUBSET Nat
    BY DEF T
  <2> QED BY <1>1, <1>2, <2>1, SetInduction
<1>4. Len(s) \in T
  BY <1>3
<1>5. PICK f : Partial(f, Len(s))
  BY <1>4 DEF T
<1> QED BY <1>5 DEF Recurs

\* Two functions that start alike and take alike steps are alike.
LEMMA SameSteps ==
  ASSUME NEW f, NEW g, NEW k \in Nat, f[0] = g[0],
         \A n \in 1..k : f[n - 1] = g[n - 1] => f[n] = g[n]
  PROVE  f[k] = g[k] /\ \A n \in 0..k : f[n] = g[n]
<1> DEFINE T == {n \in Nat : n <= k => f[n] = g[n]}
<1>1. T \in SUBSET Nat /\ 0 \in T
  OBVIOUS
<1>2. ASSUME NEW n \in T PROVE n + 1 \in T
  <2> SUFFICES ASSUME n + 1 <= k PROVE f[n + 1] = g[n + 1]
    OBVIOUS
  <2>1. n \in Nat /\ n + 1 \in 1..k /\ (n + 1) - 1 = n /\ f[n] = g[n]
    OBVIOUS
  <2> QED BY <2>1
<1> HIDE DEF T
<1>3. T = Nat
  BY <1>1, <1>2, SetInduction
<1> QED BY <1>3 DEF T

\* ElementsAt is the last value of a function that recurs as its definition says.
LEMMA ElementsAtRecurs ==
  ASSUME NEW S, NEW s \in Seq(S), NEW places
  PROVE  \E f : Recurs(f, s, places, S) /\ ElementsAt(s, places) = f[Len(s)]
<1> DEFINE body(f) == [n \in 0..Len(s) |->
                         IF n = 0 THEN <<>>
                         ELSE IF n \in places THEN Append(f[n - 1], s[n]) ELSE f[n - 1]]
           f == CHOOSE h : h = body(h)
<1>0. ASSUME NEW h
      PROVE  /\ body(h)[0] = <<>>
             /\ \A n \in 1..Len(s) :
                  body(h)[n] = IF n \in places THEN Append(h[n - 1], s[n]) ELSE h[n - 1]
  <2>1. body(h)[0] = <<>>
    OBVIOUS
  <2>2. ASSUME NEW n \in 1..Len(s)
        PROVE  body(h)[n] = IF n \in places THEN Append(h[n - 1], s[n]) ELSE h[n - 1]
    <3>1. n \in 0..Len(s) /\ n # 0
      OBVIOUS
    <3>2. CASE n \in places
      BY <3>1, <3>2, Zenon
    <3>3. CASE n \notin places
      BY <3>1, <3>3, Zenon
    <3> QED BY <3>2, <3>3
  <2> QED BY <2>1, <2>2
<1>1. PICK g : Recurs(g, s, places, S)
  BY RecursExists, Zenon
<1>2. g = body(g)
  <2>1. DOMAIN g = 0..Len(s) /\ g = [n \in 0..Len(s) |-> g[n]]
    BY <1>1 DEF Recurs
  <2> HIDE DEF body
  <2>2. ASSUME NEW n \in 0..Len(s) PROVE g[n] = body(g)[n]
    <3>1. CASE n = 0
      BY <1>0, <1>1, <3>1 DEF Recurs
    <3>2. CASE n \in 1..Len(s)
      BY <1>0, <1>1, <3>2 DEF Recurs
    <3> QED BY <3>1, <3>2
  <2>3. DOMAIN body(g) = 0..Len(s) /\ body(g) = [n \in 0..Len(s) |-> body(g)[n]]
    BY DEF body
  <2> QED BY <2>1, <2>2, <2>3
<1>3. f = body(f)
  <2> HIDE DEF body
  <2> QED BY <1>2
<1>4. ElementsAt(s, places) = f[Len(s)]
  BY DEF ElementsAt
<1> HIDE DEF f
<1>5. f[0] = <<>> /\ \A n \in 1..Len(s) :
        f[n] = IF n \in places THEN Append(f[n - 1], s[n]) ELSE f[n - 1]
  <2>1. f[0] = body(f)[0] /\ \A n \in 1..Len(s) : f[n] = body(f)[n]
    BY <1>3, Zenon
  <2> HIDE DEF body
  <2> QED BY <1>0, <2>1
<1> HIDE DEF body
<1>6. \A n \in 0..Len(s) : f[n] = g[n]
  <2>1. f[0] = g[0]
    BY <1>1, <1>5 DEF Recurs
  <2>2. ASSUME NEW n \in 1..Len(s), f[n - 1] = g[n - 1] PROVE f[n] = g[n]
    BY <1>1, <1>5, <2>2 DEF Recurs
  <2> QED BY <2>1, <2>2, SameSteps, Len(s) \in Nat, ZenonT(60)
<1>7. ElementsAt(s, places) = g[Len(s)]
  BY <1>4, <1>6
<1> QED BY <1>1, <1>7

\* The elements ElementsAt returns are in the order of their places, one for each place: g
\* says which place an element comes from.
Placed(g, t, s, places) ==
  /\ g \in [DOMAIN t -> DOMAIN s]
  /\ \A k \in DOMAIN t : g[k] \in places /\ t[k] = s[g[k]]
  /\ \A k, l \in DOMAIN t : k < l => g[k] < g[l]
  /\ \A n \in DOMAIN s : n \in places => \E k \in DOMAIN t : g[k] = n

\* ElementsAt returns the elements at the places given, in their order in s.
THEOREM ElementsAtOrder ==
  ASSUME NEW S, NEW s \in Seq(S), NEW places
  PROVE  /\ ElementsAt(s, places) \in Seq(S)
         /\ \E g : Placed(g, ElementsAt(s, places), s, places)
<1>1. PICK f : Recurs(f, s, places, S) /\ ElementsAt(s, places) = f[Len(s)]
  BY ElementsAtRecurs
<1> DEFINE Upto(g, k) ==
             /\ g \in [DOMAIN f[k] -> 1..k]
             /\ \A i \in DOMAIN f[k] : g[i] \in places /\ f[k][i] = s[g[i]]
             /\ \A i, j \in DOMAIN f[k] : i < j => g[i] < g[j]
             /\ \A n \in 1..k : n \in places => \E i \in DOMAIN f[k] : g[i] = n
           T == {k \in Nat : k <= Len(s) => \E g : Upto(g, k)}
<1>2. 0 \in T
  <2>1. Upto(<<>>, 0)
    BY <1>1 DEF Recurs
  <2> QED BY <2>1, Zenon
<1>3. ASSUME NEW k \in T PROVE k + 1 \in T
  <2> HIDE DEF Upto
  <2> SUFFICES ASSUME k + 1 <= Len(s) PROVE \E g : Upto(g, k + 1)
    OBVIOUS
  <2>0. k \in Nat /\ k <= Len(s) /\ Len(s) \in Nat
    OBVIOUS
  <2>1. PICK g : Upto(g, k)
    BY <2>0
  <2> HIDE DEF T
  <2> USE DEF Upto
  <2>2. f[k] \in Seq(S) /\ f[k + 1] \in Seq(S) /\ s[k + 1] \in S
    BY <1>1, <2>0, SMTT(30) DEF Recurs
  <2>3. f[k + 1] = IF k + 1 \in places THEN Append(f[k], s[k + 1]) ELSE f[k]
    BY <1>1, <2>0, k + 1 \in 1..Len(s), (k + 1) - 1 = k DEF Recurs
  <2>4. CASE k + 1 \in places
    <3> DEFINE m == Len(f[k])
               h == [i \in 1..(m + 1) |-> IF i = m + 1 THEN k + 1 ELSE g[i]]
    <3>1. /\ DOMAIN f[k + 1] = 1..(m + 1)
          /\ DOMAIN f[k] = 1..m /\ m \in Nat
          /\ \A i \in DOMAIN f[k] : f[k + 1][i] = f[k][i]
          /\ f[k + 1][m + 1] = s[k + 1]
      BY <2>2, <2>3, <2>4, SMTT(30)
    <3> HIDE DEF m
    <3>2. \A i \in 1..m : h[i] = g[i] /\ g[i] \in 1..k /\ g[i] \in places /\ f[k + 1][i] = s[g[i]]
      <4>1. \A i \in 1..m : g[i] \in 1..k /\ g[i] \in places /\ f[k + 1][i] = s[g[i]]
        BY <2>1, <3>1, Zenon
      <4>2. \A i \in 1..m : h[i] = g[i]
        <5> HIDE DEF Upto
        <5> QED BY <3>1
      <4> QED BY <4>1, <4>2, Zenon
    <3>3. h[m + 1] = k + 1 /\ \A i \in 1..(m + 1) : i = m + 1 \/ i \in 1..m
      BY <3>1
    <3>4. h \in [DOMAIN f[k + 1] -> 1..(k + 1)]
      <4> HIDE DEF Upto
      <4>1. k + 1 \in 1..(k + 1) /\ 1..k \subseteq 1..(k + 1)
        BY <2>0
      <4>2. \A i \in 1..(m + 1) : h[i] \in 1..(k + 1)
        <5> HIDE DEF h
        <5> QED BY <3>2, <3>3, <4>1, Zenon
      <4> QED BY <3>1, <4>2, Zenon
    <3>5. \A i \in 1..(m + 1) : h[i] \in places /\ f[k + 1][i] = s[h[i]]
      BY <2>4, <3>1, <3>2, <3>3, Zenon
    <3>6. ASSUME NEW i \in 1..(m + 1), NEW j \in 1..(m + 1), i < j PROVE h[i] < h[j]
      <4>1. i \in 1..m /\ h[i] = g[i] /\ g[i] \in 1..k
        <5> HIDE DEF Upto, h
        <5>1. i \in 1..m
          BY <3>1, <3>6
        <5> QED BY <3>2, <5>1, Zenon
      <4>2. CASE j = m + 1
        BY <2>0, <3>3, <4>1, <4>2
      <4>3. CASE j \in 1..m
        <5>1. h[j] = g[j] /\ g[i] < g[j]
          BY <2>1, <3>1, <3>2, <3>6, <4>1, <4>3
        <5> QED BY <4>1, <5>1
      <4> QED BY <3>3, <4>2, <4>3
    <3>7. ASSUME NEW n \in 1..(k + 1), n \in places PROVE \E i \in 1..(m + 1) : h[i] = n
      <4>1. CASE n = k + 1
        BY <3>1, <3>3, <4>1
      <4>2. CASE n \in 1..k
        <5>1. PICK i \in 1..m : g[i] = n
          BY <2>1, <3>1, <3>7, <4>2
        <5> QED BY <3>1, <3>2, <5>1
      <4> QED BY <2>0, <4>1, <4>2
    <3> HIDE DEF h
    <3>8. Upto(h, k + 1)
      BY <3>1, <3>4, <3>5, <3>6, <3>7, Zenon
    <3> QED BY <3>8, Zenon
  <2>5. CASE k + 1 \notin places
    <3>1. f[k + 1] = f[k]
      BY <2>3, <2>5
    <3>2. g \in [DOMAIN f[k] -> 1..(k + 1)]
      BY <2>0, <2>1
    <3>3. \A n \in 1..(k + 1) : n \in places => n \in 1..k
      BY <2>0, <2>5
    <3>4. Upto(g, k + 1)
      BY <2>1, <3>1, <3>2, <3>3, Zenon
    <3> QED BY <3>4, Zenon
  <2> QED BY <2>4, <2>5
<1> HIDE DEF T
<1>4. T = Nat
  BY <1>2, <1>3, SetInduction, Zenon DEF T
<1>5. PICK g : Upto(g, Len(s))
  BY <1>4, Len(s) \in Nat DEF T
<1>6. f[Len(s)] \in Seq(S) /\ DOMAIN s = 1..Len(s)
  BY <1>1 DEF Recurs
<1>7. Placed(g, f[Len(s)], s, places)
  BY <1>5, <1>6, Zenon DEF Placed
<1> QED BY <1>1, <1>6, <1>7, Zenon

\* ElementsAt returns a sequence of the same kind, and what is in it are the elements of s at
\* the places given.
THEOREM ElementsAtElements ==
  ASSUME NEW S, NEW s \in Seq(S), NEW places
  PROVE  /\ ElementsAt(s, places) \in Seq(S)
         /\ \A k \in DOMAIN ElementsAt(s, places) :
              \E n \in DOMAIN s : n \in places /\ s[n] = ElementsAt(s, places)[k]
         /\ \A n \in DOMAIN s : n \in places =>
              \E k \in DOMAIN ElementsAt(s, places) : ElementsAt(s, places)[k] = s[n]
<1>1. /\ ElementsAt(s, places) \in Seq(S)
      /\ \E g : Placed(g, ElementsAt(s, places), s, places)
  BY ElementsAtOrder
<1>2. PICK g : Placed(g, ElementsAt(s, places), s, places)
  BY <1>1, Zenon
<1> DEFINE t == ElementsAt(s, places)
<1> HIDE DEF t
<1>3. Placed(g, t, s, places)
  BY <1>2 DEF t
<1>4. /\ \A k \in DOMAIN t : g[k] \in DOMAIN s /\ g[k] \in places /\ s[g[k]] = t[k]
      /\ \A n \in DOMAIN s : n \in places => \E k \in DOMAIN t : g[k] = n
  BY <1>3, Zenon DEF Placed
<1>5. /\ \A k \in DOMAIN t : \E n \in DOMAIN s : n \in places /\ s[n] = t[k]
      /\ \A n \in DOMAIN s : n \in places => \E k \in DOMAIN t : t[k] = s[n]
  BY <1>4, Zenon
<1> QED BY <1>1, <1>5, Zenon DEF t

\* All places give the whole sequence.
THEOREM ElementsAtAll ==
  ASSUME NEW S, NEW s \in Seq(S), NEW places, DOMAIN s \subseteq places
  PROVE  ElementsAt(s, places) = s
<1>1. PICK f : Recurs(f, s, places, S) /\ ElementsAt(s, places) = f[Len(s)]
  BY ElementsAtRecurs
<1> DEFINE g == [k \in 0..Len(s) |-> SubSeq(s, 1, k)]
<1>2. f[0] = g[0]
  BY <1>1 DEF Recurs
<1>3. ASSUME NEW k \in 1..Len(s), f[k - 1] = g[k - 1] PROVE f[k] = g[k]
  <2>0. k \in places /\ k - 1 \in 0..Len(s) /\ k \in 0..Len(s)
    OBVIOUS
  <2>1. f[k] = Append(f[k - 1], s[k]) /\ f[k - 1] = SubSeq(s, 1, k - 1)
    BY <1>1, <1>3, <2>0, Zenon DEF Recurs
  <2>2. Append(SubSeq(s, 1, k - 1), s[k]) = SubSeq(s, 1, k)
    OBVIOUS
  <2> QED BY <2>1, <2>2
<1> HIDE DEF g
<1>4. f[Len(s)] = g[Len(s)]
  BY <1>2, <1>3, SameSteps, Len(s) \in Nat
<1> QED BY <1>1, <1>4 DEF g

\* Places that differ only where s has no element give the same.
THEOREM ElementsAtSame ==
  ASSUME NEW S, NEW s \in Seq(S), NEW places, NEW others,
         \A n \in DOMAIN s : n \in places <=> n \in others
  PROVE  ElementsAt(s, places) = ElementsAt(s, others)
<1>1. PICK f : Recurs(f, s, places, S) /\ ElementsAt(s, places) = f[Len(s)]
  BY ElementsAtRecurs
<1>2. PICK g : Recurs(g, s, others, S) /\ ElementsAt(s, others) = g[Len(s)]
  BY ElementsAtRecurs
<1>3. f[0] = g[0]
  BY <1>1, <1>2 DEF Recurs
<1>4. ASSUME NEW k \in 1..Len(s), f[k - 1] = g[k - 1] PROVE f[k] = g[k]
  BY <1>1, <1>2, <1>4, k \in DOMAIN s DEF Recurs
<1>5. f[Len(s)] = g[Len(s)]
  BY <1>3, <1>4, SameSteps, Len(s) \in Nat
<1> QED BY <1>1, <1>2, <1>5

\* An element appended is appended to the result if its place is among those given.
THEOREM ElementsAtAppend ==
  ASSUME NEW S, NEW s \in Seq(S), NEW x \in S, NEW places, NEW others,
         \A n \in DOMAIN s : n \in places <=> n \in others
  PROVE  ElementsAt(Append(s, x), places)
           = IF Len(s) + 1 \in places THEN Append(ElementsAt(s, others), x) ELSE ElementsAt(s, others)
<1> DEFINE t == Append(s, x)
<1>0. /\ t \in Seq(S) /\ Len(t) = Len(s) + 1 /\ Len(s) \in Nat
      /\ t[Len(s) + 1] = x /\ \A n \in 1..Len(s) : t[n] = s[n]
  OBVIOUS
<1> HIDE DEF t
<1>1. PICK f : Recurs(f, t, places, S) /\ ElementsAt(t, places) = f[Len(t)]
  BY <1>0, ElementsAtRecurs
<1>2. PICK g : Recurs(g, s, others, S) /\ ElementsAt(s, others) = g[Len(s)]
  BY ElementsAtRecurs
<1>3. f[0] = g[0] /\ \A k \in 1..Len(s) : f[k - 1] = g[k - 1] => f[k] = g[k]
  <2>1. f[0] = g[0]
    BY <1>1, <1>2, Zenon DEF Recurs
  <2>2. ASSUME NEW k \in 1..Len(s), f[k - 1] = g[k - 1] PROVE f[k] = g[k]
    <3>1. k \in 1..Len(t) /\ k \in DOMAIN s /\ t[k] = s[k]
      BY <1>0
    <3>2. f[k] = IF k \in places THEN Append(f[k - 1], t[k]) ELSE f[k - 1]
      BY <1>1, <3>1, Zenon DEF Recurs
    <3>3. g[k] = IF k \in others THEN Append(g[k - 1], s[k]) ELSE g[k - 1]
      BY <1>2, Zenon DEF Recurs
    <3> QED BY <2>2, <3>1, <3>2, <3>3, Zenon
  <2> QED BY <2>1, <2>2
<1>4. f[Len(s)] = g[Len(s)]
  BY <1>0, <1>3, SameSteps, ZenonT(60)
<1>5. f[Len(s) + 1] = IF Len(s) + 1 \in places THEN Append(f[Len(s)], x) ELSE f[Len(s)]
  BY <1>0, <1>1, Len(s) + 1 \in 1..Len(t), (Len(s) + 1) - 1 = Len(s) DEF Recurs
<1> QED BY <1>0, <1>1, <1>2, <1>4, <1>5 DEF t

\* What follows the first element gives what follows in the result.
THEOREM ElementsAtTail ==
  ASSUME NEW S, NEW s \in Seq(S), s # <<>>, NEW places, NEW others,
         \A n \in 1..(Len(s) - 1) : n + 1 \in places <=> n \in others
  PROVE  ElementsAt(s, places)
           = IF 1 \in places THEN <<s[1]>> \o ElementsAt(Tail(s), others) ELSE ElementsAt(Tail(s), others)
<1> DEFINE t == Tail(s)
           front == IF 1 \in places THEN <<s[1]>> ELSE <<>>
<1>0. /\ t \in Seq(S) /\ Len(s) = Len(t) + 1 /\ Len(t) \in Nat
      /\ s[1] \in S /\ \A n \in 1..Len(t) : s[n + 1] = t[n]
  OBVIOUS
<1> HIDE DEF t
<1>1. PICK f : Recurs(f, s, places, S) /\ ElementsAt(s, places) = f[Len(s)]
  BY ElementsAtRecurs
<1>2. PICK g : Recurs(g, t, others, S) /\ ElementsAt(t, others) = g[Len(t)]
  BY <1>0, ElementsAtRecurs
<1> DEFINE F == [k \in 0..Len(t) |-> f[k + 1]]
           G == [k \in 0..Len(t) |-> front \o g[k]]
<1>3. front \in Seq(S)
  BY <1>0
<1>4. F[0] = G[0]
  <2>1. f[1] = IF 1 \in places THEN Append(<<>>, s[1]) ELSE <<>>
    BY <1>0, <1>1, 1 \in 1..Len(s), 1 - 1 = 0 DEF Recurs
  <2>2. f[1] = front
    BY <1>0, <2>1
  <2>3. g[0] = <<>>
    BY <1>2 DEF Recurs
  <2>4. F[0] = f[1] /\ G[0] = front \o g[0]
    <3> HIDE DEF front
    <3> QED BY <1>0, 0 \in 0..Len(t), 0 + 1 = 1
  <2> HIDE DEF front, F, G
  <2> QED BY <1>3, <2>2, <2>3, <2>4, ConcatEmptySeq
<1> HIDE DEF front
<1>5. ASSUME NEW k \in 1..Len(t), F[k - 1] = G[k - 1] PROVE F[k] = G[k]
  <2>1. k + 1 \in 1..Len(s) /\ (k + 1) - 1 = k /\ s[k + 1] = t[k] /\ k - 1 \in 0..Len(t)
        /\ k \in 0..Len(t) /\ (k - 1) + 1 = k
    BY <1>0
  <2>2. f[k + 1] = IF k + 1 \in places THEN Append(f[k], t[k]) ELSE f[k]
    BY <1>1, <2>1 DEF Recurs
  <2>3. g[k] = IF k \in others THEN Append(g[k - 1], t[k]) ELSE g[k - 1]
    BY <1>2 DEF Recurs
  <2>4. f[k] = front \o g[k - 1] /\ F[k] = f[k + 1] /\ G[k] = front \o g[k]
    BY <1>5, <2>1
  <2>5. g[k - 1] \in Seq(S) /\ t[k] \in S
    <3>1. g[k - 1] \in Seq(S)
      BY <1>2, <2>1 DEF Recurs
    <3> QED BY <1>0, <3>1, ElementOfSeq
  <2>6. Append(front \o g[k - 1], t[k]) = front \o Append(g[k - 1], t[k])
    <3>1. PICK a : a = front
      OBVIOUS
    <3>2. PICK b : b = g[k - 1]
      OBVIOUS
    <3>3. PICK c : c = t[k]
      OBVIOUS
    <3>4. a \in Seq(S) /\ b \in Seq(S) /\ c \in S
      BY <1>3, <2>5, <3>1, <3>2, <3>3
    <3>5. Append(a \o b, c) = a \o Append(b, c)
      <4>1. PICK u : u = Append(a \o b, c)
        BY Zenon
      <4>2. PICK v : v = a \o Append(b, c)
        BY Zenon
      <4>3. u \in Seq(S) /\ v \in Seq(S) /\ Len(u) = Len(v) /\ \A i \in 1..Len(u) : u[i] = v[i]
        BY <3>4, <4>1, <4>2
      <4>4. u = v
        BY <4>3, SeqEqual
      <4> QED BY <4>1, <4>2, <4>4
    <3> QED BY <3>1, <3>2, <3>3, <3>5
  <2>7. k + 1 \in places <=> k \in others
    BY <1>0
  <2> HIDE DEF F, G
  <2> QED BY <2>2, <2>3, <2>4, <2>6, <2>7, Zenon
<1>6. F[Len(t)] = f[Len(s)] /\ G[Len(t)] = front \o g[Len(t)]
  BY <1>0
<1> HIDE DEF F, G
<1>7. F[Len(t)] = G[Len(t)]
  BY <1>0, <1>4, <1>5, SameSteps, ZenonT(60)
<1>8. ElementsAt(s, places) = front \o ElementsAt(t, others)
  BY <1>1, <1>2, <1>6, <1>7
<1>9. ElementsAt(t, others) \in Seq(S)
  BY <1>0, ElementsAtElements
<1> QED BY <1>8, <1>9 DEF front, t

\* Without returns a sequence of exactly the elements of s that are not in some.
THEOREM WithoutElements ==
  ASSUME NEW S, NEW s \in Seq(S), NEW some
  PROVE  /\ Without(s, some) \in Seq(S)
         /\ \A k \in DOMAIN Without(s, some) :
              \E n \in DOMAIN s : s[n] \notin some /\ s[n] = Without(s, some)[k]
         /\ \A n \in DOMAIN s : s[n] \notin some =>
              \E k \in DOMAIN Without(s, some) : Without(s, some)[k] = s[n]
<1> DEFINE places == {n \in DOMAIN s : s[n] \notin some}
<1>1. Without(s, some) = ElementsAt(s, places)
  BY DEF Without
<1>2. \A n \in DOMAIN s : n \in places <=> s[n] \notin some
  OBVIOUS
<1> HIDE DEF places
<1>3. /\ ElementsAt(s, places) \in Seq(S)
      /\ \A k \in DOMAIN ElementsAt(s, places) :
           \E n \in DOMAIN s : n \in places /\ s[n] = ElementsAt(s, places)[k]
      /\ \A n \in DOMAIN s : n \in places =>
           \E k \in DOMAIN ElementsAt(s, places) : ElementsAt(s, places)[k] = s[n]
  BY ElementsAtElements
<1> QED BY <1>1, <1>2, <1>3, Zenon

\* Without nothing to leave out, all of s stays.
THEOREM WithoutNothing ==
  ASSUME NEW S, NEW s \in Seq(S), NEW some, \A n \in DOMAIN s : s[n] \notin some
  PROVE  Without(s, some) = s
<1> DEFINE places == {n \in DOMAIN s : s[n] \notin some}
<1>1. DOMAIN s \subseteq places
  OBVIOUS
<1>2. Without(s, some) = ElementsAt(s, places)
  BY DEF Without
<1> HIDE DEF places
<1> QED BY <1>1, <1>2, ElementsAtAll

\* Distinct returns a sequence of exactly the elements of s.
THEOREM DistinctElements ==
  ASSUME NEW S, NEW s \in Seq(S)
  PROVE  /\ Distinct(s) \in Seq(S)
         /\ \A k \in DOMAIN Distinct(s) : \E n \in DOMAIN s : s[n] = Distinct(s)[k]
         /\ \A n \in DOMAIN s : \E k \in DOMAIN Distinct(s) : Distinct(s)[k] = s[n]
<1> DEFINE places == {n \in DOMAIN s : \A m \in 1..(n - 1) : s[m] # s[n]}
<1>1. Distinct(s) = ElementsAt(s, places)
  BY DEF Distinct
<1>2. ASSUME NEW n \in DOMAIN s PROVE \E m \in DOMAIN s : m \in places /\ s[m] = s[n]
  <2> DEFINE T == {m \in DOMAIN s : s[m] = s[n]}
  <2>1. T \in SUBSET Nat /\ T # {}
    OBVIOUS
  <2>2. PICK m \in T : \A k \in T : m <= k
    BY <2>1, LeastElement, Zenon
  <2>3. m \in DOMAIN s /\ s[m] = s[n] /\ m \in Nat /\ DOMAIN s = 1..Len(s) /\ Len(s) \in Nat
    BY <2>2
  <2>4. ASSUME NEW k \in 1..(m - 1) PROVE s[k] # s[m]
    <3>1. k \in DOMAIN s /\ ~(m <= k)
      BY <2>3
    <3> QED BY <2>2, <2>3, <3>1
  <2> QED BY <2>3, <2>4
<1> HIDE DEF places
<1>3. /\ ElementsAt(s, places) \in Seq(S)
      /\ \A k \in DOMAIN ElementsAt(s, places) :
           \E n \in DOMAIN s : n \in places /\ s[n] = ElementsAt(s, places)[k]
      /\ \A n \in DOMAIN s : n \in places =>
           \E k \in DOMAIN ElementsAt(s, places) : ElementsAt(s, places)[k] = s[n]
  BY ElementsAtElements
<1>4. ASSUME NEW n \in DOMAIN s
      PROVE  \E k \in DOMAIN ElementsAt(s, places) : ElementsAt(s, places)[k] = s[n]
  <2>1. PICK m \in DOMAIN s : m \in places /\ s[m] = s[n]
    BY <1>2, Zenon
  <2>2. \E k \in DOMAIN ElementsAt(s, places) : ElementsAt(s, places)[k] = s[m]
    BY <1>3, <2>1, Zenon
  <2> QED BY <2>1, <2>2, Zenon
<1> QED BY <1>1, <1>3, <1>4, Zenon
=============================================================================
