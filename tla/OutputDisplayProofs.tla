-------------------------- MODULE OutputDisplayProofs --------------------------
(***************************************************************************)
(* Theorems about OutputDisplay, for any number of layers.                 *)
(***************************************************************************)
EXTENDS OutputDisplay, SequenceTheorems, FiniteSetTheorems, WellFoundedInduction, TLAPS

\* A set of numbers has a least one.
LEMMA LeastOf ==
  ASSUME NEW S \in SUBSET Nat, S # {}
  PROVE  \E i \in S : \A j \in S : i <= j
<1>1. PICK i \in S : \A j \in S : <<j, i>> \notin OpToRel(<, Nat)
  BY WFMin, NatLessThanWellFounded, Zenon
<1>2. \A j \in S : ~(j < i)
  BY <1>1 DEF OpToRel
<1> QED BY <1>2

\* A part of a sequence.
LEMMA PartFacts ==
  ASSUME NEW S, NEW v \in Seq(S), NEW m \in Nat \ {0}, NEW n \in Nat, n <= Len(v)
  PROVE  /\ SubSeq(v, m, n) \in Seq(S)
         /\ Len(SubSeq(v, m, n)) = IF m <= n THEN n - m + 1 ELSE 0
         /\ \A i \in 1..n - m + 1 : SubSeq(v, m, n)[i] = v[m + i - 1]
<1>1. \A i \in m..n : v[i] \in S
  BY ElementOfSeq, LenProperties
<1> QED BY <1>1, SubSeqProperties

\* What InsertAt and RemoveAt hold at each position.
LEMMA InsertAtFacts ==
  ASSUME NEW S, NEW v \in Seq(S), NEW p \in 1..Len(v) + 1, NEW e \in S
  PROVE  /\ InsertAt(v, p, e) \in Seq(S)
         /\ Len(InsertAt(v, p, e)) = Len(v) + 1
         /\ \A i \in 1..Len(v) + 1 :
              /\ i < p => InsertAt(v, p, e)[i] = v[i]
              /\ i = p => InsertAt(v, p, e)[i] = e
              /\ i > p => InsertAt(v, p, e)[i] = v[i - 1]
<1> DEFINE a == SubSeq(v, 1, p - 1)
           b == SubSeq(v, p, Len(v))
           c == a \o <<e>>
           r == c \o b
<1>0. Len(v) \in Nat /\ p \in Nat \ {0} /\ p - 1 \in Nat /\ Len(v) - p + 1 \in Nat
  BY LenProperties
<1>1. a \in Seq(S) /\ Len(a) = p - 1 /\ \A i \in 1..p - 1 : a[i] = v[i]
  BY <1>0, PartFacts
<1>2. b \in Seq(S) /\ Len(b) = Len(v) - p + 1 /\ \A i \in 1..Len(v) - p + 1 : b[i] = v[p + i - 1]
  BY <1>0, PartFacts
<1>3. <<e>> \in Seq(S) /\ Len(<<e>>) = 1 /\ <<e>>[1] = e
  OBVIOUS
<1>6. InsertAt(v, p, e) = r
  BY DEF InsertAt
<1> HIDE DEF a, b
<1>4. /\ c \in Seq(S)
      /\ Len(c) = Len(a) + Len(<<e>>)
      /\ \A i \in 1..Len(a) + Len(<<e>>) :
           c[i] = IF i <= Len(a) THEN a[i] ELSE <<e>>[i - Len(a)]
  BY <1>1, <1>3, ConcatProperties, Zenon
<1> HIDE DEF c
<1>5. Len(c) = p /\ (\A i \in 1..p - 1 : c[i] = v[i]) /\ c[p] = e
  BY <1>0, <1>1, <1>3, <1>4
<1>8. /\ r \in Seq(S)
      /\ Len(r) = Len(c) + Len(b)
      /\ \A i \in 1..Len(c) + Len(b) : r[i] = IF i <= Len(c) THEN c[i] ELSE b[i - Len(c)]
  <2>1. c \in Seq(S) /\ b \in Seq(S)
    BY <1>2, <1>4
  <2> HIDE DEF b, c
  <2> QED BY <2>1, ConcatProperties, Zenon
<1> HIDE DEF r
<1>9. Len(r) = Len(v) + 1
  BY <1>0, <1>2, <1>5, <1>8
<1>7. \A i \in 1..Len(v) + 1 :
        r[i] = IF i < p THEN v[i] ELSE IF i = p THEN e ELSE v[i - 1]
  <2> SUFFICES ASSUME NEW i \in 1..Len(v) + 1
               PROVE  r[i] = IF i < p THEN v[i] ELSE IF i = p THEN e ELSE v[i - 1]
    OBVIOUS
  <2>1. CASE i <= p
    BY <1>0, <1>2, <1>5, <1>8, <2>1
  <2>2. CASE i > p
    <3>1. i - p \in 1..Len(v) - p + 1 /\ i \in p + 1..Len(v) + 1 /\ p + (i - p) - 1 = i - 1
      BY <1>0, <2>2
    <3> QED BY <1>0, <1>2, <1>5, <1>8, <3>1, <2>2
  <2> QED BY <1>0, <2>1, <2>2
<1> QED BY <1>6, <1>7, <1>8, <1>9

\* Without the element at p, those behind it move up by one.
LEMMA RemoveAtFacts ==
  ASSUME NEW S, NEW v \in Seq(S), NEW p \in 1..Len(v)
  PROVE  /\ RemoveAt(v, p) \in Seq(S)
         /\ Len(RemoveAt(v, p)) = Len(v) - 1
         /\ \A i \in 1..Len(v) - 1 : RemoveAt(v, p)[i] = IF i < p THEN v[i] ELSE v[i + 1]
<1> DEFINE a == SubSeq(v, 1, p - 1)
           b == SubSeq(v, p + 1, Len(v))
           r == a \o b
<1>0. Len(v) \in Nat /\ p \in Nat \ {0} /\ p + 1 \in Nat \ {0} /\ p - 1 \in Nat /\ Len(v) - p \in Nat
  BY LenProperties
<1>1. a \in Seq(S) /\ Len(a) = p - 1 /\ \A i \in 1..p - 1 : a[i] = v[i]
  BY <1>0, PartFacts
<1>2. b \in Seq(S) /\ Len(b) = Len(v) - p /\ \A i \in 1..Len(v) - p : b[i] = v[p + i]
  BY <1>0, PartFacts
<1>3. RemoveAt(v, p) = r
  BY DEF RemoveAt
<1> HIDE DEF a, b
<1>4. /\ r \in Seq(S)
      /\ Len(r) = Len(a) + Len(b)
      /\ \A i \in 1..Len(a) + Len(b) : r[i] = IF i <= Len(a) THEN a[i] ELSE b[i - Len(a)]
  BY <1>1, <1>2, ConcatProperties, Zenon
<1> HIDE DEF r
<1>6. Len(a) + Len(b) = Len(v) - 1 /\ Len(a) = p - 1
  BY <1>0, <1>1, <1>2
<1>7. \A i \in 1..Len(v) - 1 : r[i] = IF i <= p - 1 THEN a[i] ELSE b[i - (p - 1)]
  BY <1>4, <1>6
<1>5. ASSUME NEW i \in 1..Len(v) - 1 PROVE r[i] = IF i < p THEN v[i] ELSE v[i + 1]
  <2>1. CASE i < p
    <3>1. i <= p - 1 /\ i \in 1..p - 1
      BY <1>0, <2>1
    <3> QED BY <1>1, <1>7, <3>1, <2>1
  <2>2. CASE ~(i < p)
    <3>1. i - (p - 1) \in 1..Len(v) - p /\ i \in p..Len(v) - 1 /\ p + (i - (p - 1)) = i + 1
      BY <1>0, <2>2
    <3> QED BY <1>0, <1>2, <1>7, <3>1, <2>2
  <2> QED BY <2>1, <2>2
<1> QED BY <1>3, <1>4, <1>5, <1>6

-----------------------------------------------------------------------------
(* The order of the layers. *)

N == Cardinality(Slot)
Ordered(v) == \A i, j \in DOMAIN v : i < j => Index(v[i]) < Index(v[j])

\* There are finitely many layers.
LEMMA CountIsNat == N \in Nat
BY DisplayAssumption, FS_CardinalityType DEF N

\* Of the slots' orders, each gives every layer one index.
LEMMA OrderFacts ==
  ASSUME NEW o \in Orders
  PROVE  /\ o \in Seq(Slot) /\ Len(o) = N /\ IsInjective(o) /\ Range(o) = Slot
         /\ \A l \in Slot : IndexIn(l, o) \in 1..N /\ IndexIn(l, o) \in Nat /\ o[IndexIn(l, o)] = l
         /\ \A i \in 1..N : o[i] \in Slot /\ IndexIn(o[i], o) = i
<1>1. /\ o \in [1..N -> Slot]
      /\ \A a, b \in 1..N : o[a] = o[b] => a = b
      /\ \A l \in Slot : \E i \in 1..N : o[i] = l
  BY Zenon DEF Orders, Bijection, Injection, Surjection, IsInjective, N
<1>2. N \in Nat /\ DOMAIN o = 1..N
  BY <1>1, CountIsNat
<1> HIDE DEF N
<1>3. ASSUME NEW l \in Slot PROVE IndexIn(l, o) \in 1..N /\ o[IndexIn(l, o)] = l
  <2>1. \E i \in DOMAIN o : o[i] = l
    BY <1>1
  <2> QED BY <1>1, <2>1 DEF IndexIn
<1>4. o \in Seq(Slot) /\ Len(o) = N
  BY <1>1, <1>2
<1>5. IsInjective(o) /\ Range(o) = Slot
  BY <1>1, <1>2 DEF IsInjective, Range
<1> QED BY <1>1, <1>2, <1>3, <1>4, <1>5

\* The same of the order the display keeps.
LEMMA IndexFacts ==
  ASSUME layers \in Orders
  PROVE  /\ \A l \in Slot : Index(l) \in 1..N /\ Index(l) \in Nat /\ layers[Index(l)] = l
         /\ \A i \in 1..N : layers[i] \in Slot /\ Index(layers[i]) = i
BY OrderFacts DEF Index

\* A list that holds l has it at one position.
LEMMA PositionFacts ==
  ASSUME NEW v \in Seq(Slot), NEW l \in Range(v)
  PROVE  /\ Contains(v, l)
         /\ IndexIn(l, v) \in 1..Len(v) /\ v[IndexIn(l, v)] = l
<1>1. DOMAIN v = 1..Len(v)
  BY LenProperties
<1>2. \E i \in DOMAIN v : v[i] = l
  BY DEF Range
<1> QED BY <1>1, <1>2 DEF Contains, IndexIn

\* All before the place are of no higher index, the one at it is.
LEMMA PlaceFacts ==
  ASSUME layers \in Orders, NEW l \in Slot, NEW v \in Seq(Slot)
  PROVE  /\ Place(l, v) \in 1..Len(v) + 1
         /\ Place(l, v) <= Len(v) => Index(l) < Index(v[Place(l, v)])
         /\ \A i \in 1..Len(v) : i < Place(l, v) => ~(Index(l) < Index(v[i]))
<1> DEFINE higher == {i \in DOMAIN v : Index(l) < Index(v[i])}
<1>1. DOMAIN v = 1..Len(v) /\ Len(v) \in Nat
  BY LenProperties
<1>2. CASE higher = {}
  <2>1. Place(l, v) = Len(v) + 1
    BY <1>2 DEF Place
  <2> QED BY <1>1, <1>2, <2>1
<1>3. CASE higher # {}
  <2>1. higher \in SUBSET Nat
    BY <1>1
  <2>2. \E i \in higher : \A j \in higher : i <= j
    BY <1>3, <2>1, LeastOf
  <2>3. Place(l, v) = CHOOSE i \in higher : \A j \in higher : i <= j
    BY <1>3 DEF Place
  <2>4. Place(l, v) \in higher /\ \A j \in higher : Place(l, v) <= j
    BY <2>2, <2>3
  <2> QED BY <1>1, <2>4
<1> QED BY <1>2, <1>3

-----------------------------------------------------------------------------
(* What the handlers make of the list. *)

\* layerLoadHandler puts a layer that is not in the list where it belongs.
LEMMA LoadedFacts ==
  ASSUME layers \in Orders, NEW v \in Seq(Slot), NEW l \in Slot \ Range(v), IsInjective(v)
  PROVE  /\ Loaded(l, v) \in Seq(Slot)
         /\ Len(Loaded(l, v)) = Len(v) + 1
         /\ IsInjective(Loaded(l, v))
         /\ Range(Loaded(l, v)) = Range(v) \cup {l}
         /\ Ordered(v) => Ordered(Loaded(l, v))
<1> DEFINE p == Place(l, v)
           w == Loaded(l, v)
<1>1. p \in 1..Len(v) + 1 /\ p \in Nat /\ Len(v) \in Nat /\ DOMAIN v = 1..Len(v)
  BY PlaceFacts, LenProperties
<1>2. /\ w \in Seq(Slot) /\ Len(w) = Len(v) + 1
      /\ \A i \in 1..Len(v) + 1 :
           /\ i < p => w[i] = v[i]
           /\ i = p => w[i] = l
           /\ i > p => w[i] = v[i - 1]
  <2>1. w = InsertAt(v, p, l)
    BY DEF Loaded
  <2>2. l \in Slot
    OBVIOUS
  <2> HIDE DEF p, w
  <2>3. InsertAt(v, p, l) \in Seq(Slot)
    BY <1>1, <2>2, InsertAtFacts
  <2>4. Len(InsertAt(v, p, l)) = Len(v) + 1
    BY <1>1, <2>2, InsertAtFacts
  <2>5. ASSUME NEW i \in 1..Len(v) + 1
        PROVE  /\ i < p => InsertAt(v, p, l)[i] = v[i]
               /\ i = p => InsertAt(v, p, l)[i] = l
               /\ i > p => InsertAt(v, p, l)[i] = v[i - 1]
    BY <1>1, <2>2, InsertAtFacts
  <2> QED BY <2>1, <2>3, <2>4, <2>5, Zenon
<1>3. DOMAIN w = 1..Len(v) + 1
  BY <1>2, LenProperties
<1>4. \A i \in 1..Len(v) : v[i] \in Slot /\ v[i] # l
  BY <1>1, ElementOfSeq DEF Range
<1>5. \A i, j \in 1..Len(v) : v[i] = v[j] => i = j
  BY <1>1 DEF IsInjective
<1>6. /\ p <= Len(v) => Index(l) < Index(v[p])
      /\ \A i \in 1..Len(v) : i < p => ~(Index(l) < Index(v[i]))
  BY PlaceFacts
<1> HIDE DEF p, w
<1>7. IsInjective(w)
  <2> SUFFICES ASSUME NEW i \in 1..Len(v) + 1, NEW j \in 1..Len(v) + 1, i < j PROVE w[i] # w[j]
    BY <1>3 DEF IsInjective
  <2>1. CASE j < p
    BY <1>1, <1>2, <1>5, <2>1
  <2>2. CASE j = p
    BY <1>1, <1>2, <1>4, <2>2
  <2>3. CASE j > p /\ i < p
    BY <1>1, <1>2, <1>5, <2>3
  <2>4. CASE i = p
    BY <1>1, <1>2, <1>4, <2>4
  <2>5. CASE i > p
    BY <1>1, <1>2, <1>5, <2>5
  <2> QED BY <1>1, <2>1, <2>2, <2>3, <2>4, <2>5
<1>8. Range(w) = Range(v) \cup {l}
  <2>1. ASSUME NEW i \in 1..Len(v) + 1 PROVE w[i] \in Range(v) \cup {l}
    <3>1. i < p => i \in 1..Len(v)
      BY <1>1
    <3>2. i > p => i - 1 \in 1..Len(v)
      BY <1>1
    <3>3. i = p => w[i] = l
      BY <1>2
    <3>4. i < p => w[i] = v[i]
      BY <1>2
    <3>5. i > p => w[i] = v[i - 1]
      BY <1>1, <1>2
    <3>6. \A k \in 1..Len(v) : v[k] \in Range(v)
      BY <1>1 DEF Range
    <3>7. i < p \/ i = p \/ i > p
      BY <1>1
    <3> QED BY <3>1, <3>2, <3>3, <3>4, <3>5, <3>6, <3>7
  <2>2. ASSUME NEW i \in 1..Len(v) PROVE \E k \in 1..Len(v) + 1 : w[k] = v[i]
    <3>1. CASE i < p
      BY <1>1, <1>2, <3>1
    <3>2. CASE ~(i < p)
      <4>1. i + 1 \in 1..Len(v) + 1 /\ i + 1 > p /\ (i + 1) - 1 = i
        BY <1>1, <3>2
      <4>2. w[i + 1] = v[i]
        BY <1>1, <1>2, <4>1
      <4> QED BY <4>1, <4>2
    <3> QED BY <3>1, <3>2
  <2>3. w[p] = l
    BY <1>1, <1>2
  <2>4. Range(w) \subseteq Range(v) \cup {l}
    BY <1>3, <2>1 DEF Range
  <2>5. Range(v) \subseteq Range(w) /\ l \in Range(w)
    BY <1>1, <1>3, <2>2, <2>3 DEF Range
  <2> QED BY <2>4, <2>5
<1>9. ASSUME Ordered(v) PROVE Ordered(w)
  <2> SUFFICES ASSUME NEW i \in 1..Len(v) + 1, NEW j \in 1..Len(v) + 1, i < j
               PROVE  Index(w[i]) < Index(w[j])
    BY <1>3 DEF Ordered
  <2>1. \A a, b \in 1..Len(v) : a < b => Index(v[a]) < Index(v[b])
    BY <1>1, <1>9 DEF Ordered
  <2>2. \A a \in 1..Len(v) : Index(v[a]) \in Nat /\ Index(v[a]) # Index(l)
    BY <1>4, IndexFacts
  <2>3. Index(l) \in Nat
    BY IndexFacts
  <2>4. CASE j < p
    BY <1>1, <1>2, <2>1, <2>4
  <2>5. CASE j = p
    <3>1. i \in 1..Len(v) /\ i < p
      BY <1>1, <2>5
    <3>2. Index(v[i]) < Index(l)
      BY <1>6, <2>2, <2>3, <3>1
    <3> QED BY <1>2, <3>1, <3>2, <2>5
  <2>6. CASE j > p /\ i < p
    BY <1>1, <1>2, <2>1, <2>6
  <2>7. CASE i = p
    <3>1. j - 1 \in 1..Len(v) /\ p <= j - 1 /\ p <= Len(v) /\ p \in 1..Len(v)
      BY <1>1, <2>7
    <3>2. Index(l) < Index(v[p])
      BY <1>6, <3>1
    <3>3. Index(v[p]) <= Index(v[j - 1])
      BY <2>1, <2>2, <3>1
    <3>4. w[j] = v[j - 1] /\ w[i] = l
      BY <1>1, <1>2, <2>7
    <3> QED BY <2>2, <2>3, <3>1, <3>2, <3>3, <3>4
  <2>8. CASE i > p
    BY <1>1, <1>2, <2>1, <2>8
  <2> QED BY <1>1, <2>4, <2>5, <2>6, <2>7, <2>8
<1> QED BY <1>2, <1>7, <1>8, <1>9 DEF w

\* layerUnloadHandler takes out a layer that is in the list.
LEMMA UnloadedFacts ==
  ASSUME NEW v \in Seq(Slot), NEW l \in Range(v), IsInjective(v)
  PROVE  /\ Unloaded(l, v) \in Seq(Slot)
         /\ Len(Unloaded(l, v)) = Len(v) - 1
         /\ IsInjective(Unloaded(l, v))
         /\ Range(Unloaded(l, v)) = Range(v) \ {l}
         /\ Ordered(v) => Ordered(Unloaded(l, v))
<1> DEFINE p == IndexIn(l, v)
           w == Unloaded(l, v)
<1>1. p \in 1..Len(v) /\ p \in Nat /\ Len(v) \in Nat /\ DOMAIN v = 1..Len(v) /\ v[p] = l
  BY PositionFacts, LenProperties
<1>2. w = RemoveAt(v, p)
  BY <1>1, PositionFacts DEF Unloaded
<1> HIDE DEF p, w
<1>3. /\ w \in Seq(Slot) /\ Len(w) = Len(v) - 1
      /\ \A i \in 1..Len(v) - 1 : w[i] = IF i < p THEN v[i] ELSE v[i + 1]
  BY <1>1, <1>2, RemoveAtFacts
<1>4. DOMAIN w = 1..Len(v) - 1
  BY <1>3, LenProperties
<1>5. \A i, j \in 1..Len(v) : v[i] = v[j] => i = j
  BY <1>1 DEF IsInjective
<1> DEFINE from(i) == IF i < p THEN i ELSE i + 1
<1>6. /\ \A i \in 1..Len(v) - 1 : from(i) \in 1..Len(v) /\ from(i) # p /\ w[i] = v[from(i)]
      /\ \A i, j \in 1..Len(v) - 1 : i < j => from(i) < from(j)
      /\ \A k \in 1..Len(v) : k # p => \E i \in 1..Len(v) - 1 : from(i) = k
  <2>1. ASSUME NEW k \in 1..Len(v), k # p PROVE \E i \in 1..Len(v) - 1 : from(i) = k
    <3>1. CASE k < p
      BY <1>1, <3>1
    <3>2. CASE k > p
      <4>1. k - 1 \in 1..Len(v) - 1 /\ from(k - 1) = k
        BY <1>1, <3>2
      <4> QED BY <4>1
    <3> QED BY <1>1, <2>1, <3>1, <3>2
  <2> QED BY <1>1, <1>3, <2>1
<1> HIDE DEF from
<1>7. IsInjective(w)
  <2> SUFFICES ASSUME NEW i \in 1..Len(v) - 1, NEW j \in 1..Len(v) - 1, w[i] = w[j] PROVE i = j
    BY <1>4 DEF IsInjective
  <2>1. from(i) = from(j)
    BY <1>5, <1>6
  <2> QED BY <1>1, <1>6, <2>1
<1>8. Range(w) = Range(v) \ {l}
  <2>1. Range(w) \subseteq Range(v) \ {l}
    <3>1. ASSUME NEW i \in 1..Len(v) - 1 PROVE w[i] \in Range(v) \ {l}
      <4>1. from(i) \in 1..Len(v) /\ from(i) # p /\ w[i] = v[from(i)]
        BY <1>6
      <4>2. v[from(i)] # l
        BY <1>1, <1>5, <4>1
      <4> QED BY <1>1, <4>1, <4>2 DEF Range
    <3> QED BY <1>4, <3>1 DEF Range
  <2>2. Range(v) \ {l} \subseteq Range(w)
    <3>1. ASSUME NEW k \in 1..Len(v), v[k] # l PROVE v[k] \in Range(w)
      <4>1. PICK i \in 1..Len(v) - 1 : from(i) = k
        BY <1>1, <1>6, <3>1
      <4> QED BY <1>4, <1>6, <4>1 DEF Range
    <3> QED BY <1>1, <3>1 DEF Range
  <2> QED BY <2>1, <2>2
<1>9. Ordered(v) => Ordered(w)
  BY <1>1, <1>4, <1>6 DEF Ordered
<1> QED BY <1>3, <1>7, <1>8, <1>9 DEF w

\* Taken out and put back where it belongs, a layer is where it was.
LEMMA ExchangedInPlace ==
  ASSUME layers \in Orders, NEW v \in Seq(Slot), NEW l \in Range(v), IsInjective(v), Ordered(v)
  PROVE  Loaded(l, Unloaded(l, v)) = v
<1> DEFINE p == IndexIn(l, v)
           w == RemoveAt(v, p)
           q == Place(l, w)
           u == InsertAt(w, q, l)
<1>1. p \in 1..Len(v) /\ p \in Nat /\ Len(v) \in Nat /\ DOMAIN v = 1..Len(v) /\ v[p] = l
  BY PositionFacts, LenProperties
<1>2. Unloaded(l, v) = w
  BY <1>1, PositionFacts DEF Unloaded
<1>3. Loaded(l, w) = u
  BY DEF Loaded
<1>4. l \in Slot
  BY <1>1, ElementOfSeq
<1> HIDE DEF p
<1>5. /\ w \in Seq(Slot) /\ Len(w) = Len(v) - 1
      /\ \A i \in 1..Len(v) - 1 : w[i] = IF i < p THEN v[i] ELSE v[i + 1]
  BY <1>1, RemoveAtFacts
<1> HIDE DEF w
<1>6. /\ q \in 1..Len(w) + 1
      /\ q <= Len(w) => Index(l) < Index(w[q])
      /\ \A i \in 1..Len(w) : i < q => ~(Index(l) < Index(w[i]))
  BY <1>4, <1>5, PlaceFacts
<1> HIDE DEF q
<1>7. \A i, j \in 1..Len(v) : i < j => Index(v[i]) < Index(v[j])
  BY <1>1 DEF Ordered
<1>8. \A i \in 1..Len(v) : Index(v[i]) \in Nat
  BY <1>1, ElementOfSeq, IndexFacts
<1>9. q = p
  <2>1. q \in Nat /\ Len(w) + 1 = Len(v) /\ q \in 1..Len(v)
    BY <1>1, <1>5, <1>6
  <2>2. CASE q < p
    <3>1. w[q] = v[q] /\ Index(v[q]) < Index(v[p]) /\ q <= Len(w)
      BY <1>1, <1>5, <1>7, <2>1, <2>2
    <3>2. Index(l) < Index(v[q])
      BY <1>6, <3>1
    <3> QED BY <1>1, <1>8, <2>1, <3>1, <3>2
  <2>3. CASE p < q
    <3>1. w[p] = v[p + 1] /\ p + 1 \in 1..Len(v) /\ p \in 1..Len(w)
      BY <1>1, <1>5, <2>1, <2>3
    <3>2. Index(v[p]) < Index(v[p + 1])
      BY <1>1, <1>7, <3>1
    <3>3. ~(Index(l) < Index(w[p]))
      BY <1>6, <2>3, <3>1
    <3> QED BY <1>1, <3>1, <3>2, <3>3
  <2> QED BY <1>1, <2>1, <2>2, <2>3
<1>10. /\ u \in Seq(Slot) /\ Len(u) = Len(w) + 1
       /\ \A i \in 1..Len(w) + 1 :
            /\ i < q => u[i] = w[i]
            /\ i = q => u[i] = l
            /\ i > q => u[i] = w[i - 1]
  <2>1. u \in Seq(Slot)
    BY <1>4, <1>5, <1>6, InsertAtFacts
  <2>2. Len(u) = Len(w) + 1
    BY <1>4, <1>5, <1>6, InsertAtFacts
  <2>3. ASSUME NEW i \in 1..Len(w) + 1
        PROVE  /\ i < q => u[i] = w[i]
               /\ i = q => u[i] = l
               /\ i > q => u[i] = w[i - 1]
    BY <1>4, <1>5, <1>6, InsertAtFacts
  <2> QED BY <2>1, <2>2, <2>3, Zenon
<1> HIDE DEF u
<1>11. Len(u) = Len(v)
  BY <1>1, <1>5, <1>10
<1>12. ASSUME NEW i \in 1..Len(v) PROVE u[i] = v[i]
  <2>1. i \in 1..Len(w) + 1 /\ i \in Nat
    BY <1>1, <1>5
  <2>2. CASE i < p
    <3>1. i \in 1..Len(v) - 1
      BY <1>1, <2>1, <2>2
    <3> QED BY <1>5, <1>9, <1>10, <2>1, <2>2, <3>1
  <2>3. CASE i = p
    BY <1>1, <1>9, <1>10, <2>1, <2>3
  <2>4. CASE i > p
    <3>1. i - 1 \in 1..Len(v) - 1 /\ ~(i - 1 < p) /\ (i - 1) + 1 = i
      BY <1>1, <2>1, <2>4
    <3>2. u[i] = w[i - 1]
      BY <1>1, <1>9, <1>10, <2>1, <2>4
    <3>3. w[i - 1] = v[(i - 1) + 1]
      BY <1>5, <3>1
    <3> QED BY <3>1, <3>2, <3>3
  <2> QED BY <1>1, <2>1, <2>2, <2>3, <2>4
<1>13. u = v
  BY <1>10, <1>11, <1>12, SeqEqual
<1> QED BY <1>2, <1>3, <1>13

-----------------------------------------------------------------------------
(* The invariant. *)

\* In mid-frame the layers drawn are those of the end of the list, last first.
DrawnSoFar ==
  cursor > 0 /\ ~mixed =>
    /\ drawn \in Seq(Slot) /\ Len(drawn) = validLen - cursor
    /\ \A k \in 1..validLen - cursor : drawn[k] = valid[validLen + 1 - k]

DisplayInv ==
  /\ layers \in Orders
  /\ valid \in Seq(Slot)
  /\ content \in [Slot -> Contents]
  /\ mixed \in BOOLEAN
  /\ cursor \in 0..validLen
  /\ ValidIsHeld
  /\ OrderedUnlessMixed
  /\ DrawnSoFar

\* At the start nothing is held, listed or drawn.
LEMMA DisplayInit == Init => DisplayInv
<1> SUFFICES ASSUME Init PROVE DisplayInv
  OBVIOUS
<1>1. /\ layers \in Orders /\ valid = <<>> /\ validLen = 0 /\ cursor = 0 /\ mixed = FALSE
      /\ content = [l \in Slot |-> "none"]
  BY DEF Init
<1>2. valid \in Seq(Slot) /\ Len(valid) = 0 /\ DOMAIN valid = {}
  BY <1>1
<1>3. ValidIsHeld
  BY <1>1, <1>2 DEF ValidIsHeld, IsInjective, Range, Held
<1>4. OrderedUnlessMixed /\ DrawnSoFar
  BY <1>1, <1>2 DEF OrderedUnlessMixed, ValidInOrder, DrawnSoFar
<1>5. mixed \in BOOLEAN
  BY <1>1, Zenon
<1>8. cursor \in 0..validLen
  BY <1>1
<1>6. content \in [Slot -> Contents]
  BY <1>1 DEF Contents
<1>7. layers \in Orders /\ valid \in Seq(Slot)
  BY <1>1, <1>2
<1> QED BY <1>3, <1>4, <1>5, <1>6, <1>7, <1>8 DEF DisplayInv

\* A content that comes in for another, between frames or in mid-frame.
LEMMA ExchangedKeeps ==
  ASSUME DisplayInv, NEW l \in Slot, content[l] # "none", Exchanged(l)
  PROVE  /\ valid' \in Seq(Slot) /\ layers' = layers /\ validLen' = validLen /\ mixed' = mixed
         /\ content' \in [Slot -> Contents]
         /\ ValidIsHeld'
         /\ OrderedUnlessMixed'
         /\ ~mixed => valid' = valid
<1> DEFINE u == Unloaded(l, valid)
           w == Loaded(l, u)
<1>1. /\ content' = [content EXCEPT ![l] = "plain"] /\ valid' = w
      /\ layers' = layers /\ validLen' = validLen /\ mixed' = mixed
  BY DEF Exchanged
<1>2. /\ l \in Range(valid) /\ valid \in Seq(Slot) /\ IsInjective(valid) /\ Range(valid) = Held
      /\ validLen = Len(valid) /\ Len(valid) \in Nat /\ layers \in Orders
      /\ content \in [Slot -> Contents]
      /\ ~mixed => Ordered(valid)
  BY LenProperties DEF DisplayInv, ValidIsHeld, Held, OrderedUnlessMixed, ValidInOrder, Ordered
<1>10. content' \in [Slot -> Contents]
  BY <1>1, <1>2 DEF Contents
<1>3. /\ u \in Seq(Slot) /\ Len(u) = Len(valid) - 1 /\ IsInjective(u)
      /\ Range(u) = Range(valid) \ {l}
  BY <1>2, UnloadedFacts
<1> HIDE DEF u
<1>4. /\ w \in Seq(Slot) /\ Len(w) = Len(u) + 1 /\ IsInjective(w) /\ Range(w) = Range(u) \cup {l}
  <2>1. l \in Slot \ Range(u)
    BY <1>3
  <2> QED BY <1>2, <1>3, <2>1, LoadedFacts
<1>5. ~mixed => w = valid
  BY <1>2, ExchangedInPlace DEF u
<1>6. Held' = Held
  BY <1>1, <1>2 DEF Held
<1>7. Len(w) = Len(valid) /\ Range(w) = Range(valid)
  BY <1>2, <1>3, <1>4
<1> HIDE DEF w
<1>8. ValidIsHeld'
  BY <1>1, <1>2, <1>4, <1>6, <1>7 DEF ValidIsHeld
<1>9. OrderedUnlessMixed'
  <2>1. CASE mixed
    BY <1>1, <2>1 DEF OrderedUnlessMixed
  <2>2. CASE ~mixed
    <3>1. valid' = valid /\ OrderedUnlessMixed
      BY <1>1, <1>5, <2>2 DEF DisplayInv
    <3> QED BY <1>1, <3>1 DEF OrderedUnlessMixed, ValidInOrder, Index
  <2> QED BY <2>1, <2>2
<1> QED BY <1>1, <1>2, <1>4, <1>5, <1>8, <1>9, <1>10

\* swap exchanges two places of a list.
LEMMA SwapFacts ==
  ASSUME NEW v \in Seq(Slot), IsInjective(v), NEW l \in Range(v), NEW i \in 1..Len(v)
  PROVE  /\ Swap(v, l, i) \in Seq(Slot) /\ Len(Swap(v, l, i)) = Len(v)
         /\ IsInjective(Swap(v, l, i))
         /\ Range(Swap(v, l, i)) = Range(v)
         /\ Swap(v, l, i)[i] = l
         /\ i # IndexIn(l, v) => Swap(v, l, i)[IndexIn(l, v)] = v[i]
         /\ \A k \in 1..Len(v) : k # i /\ k # IndexIn(l, v) => Swap(v, l, i)[k] = v[k]
<1> DEFINE p == IndexIn(l, v)
           w == Swap(v, l, i)
<1>1. p \in 1..Len(v) /\ v[p] = l /\ Len(v) \in Nat /\ DOMAIN v = 1..Len(v)
  BY PositionFacts, LenProperties
<1>2. w = [v EXCEPT ![p] = v[i], ![i] = l]
  BY PositionFacts DEF Swap
<1> HIDE DEF p, w
<1>3. v \in [1..Len(v) -> Slot] /\ l \in Slot
  BY <1>1, ElementOfSeq, LenProperties
<1>4. w \in [1..Len(v) -> Slot]
  BY <1>1, <1>2, <1>3
<1>5. /\ w[i] = l
      /\ i # p => w[p] = v[i]
      /\ \A k \in 1..Len(v) : k # i /\ k # p => w[k] = v[k]
  BY <1>1, <1>2, <1>3
<1>6. w \in Seq(Slot) /\ Len(w) = Len(v) /\ DOMAIN w = 1..Len(v)
  BY <1>1, <1>4
<1>7. \A j, k \in 1..Len(v) : v[j] = v[k] => j = k
  BY <1>1 DEF IsInjective
<1>8. IsInjective(w)
  <2> SUFFICES ASSUME NEW j \in 1..Len(v), NEW k \in 1..Len(v), w[j] = w[k] PROVE j = k
    BY <1>6 DEF IsInjective
  <2> DEFINE old(x) == IF x = i THEN p ELSE IF x = p THEN i ELSE x
  <2>1. \A x \in 1..Len(v) : old(x) \in 1..Len(v) /\ w[x] = v[old(x)]
    BY <1>1, <1>5
  <2>2. \A x, y \in 1..Len(v) : old(x) = old(y) => x = y
    OBVIOUS
  <2> HIDE DEF old
  <2> QED BY <1>7, <2>1, <2>2
<1>9. Range(w) = Range(v)
  <2>1. \A k \in 1..Len(v) : \E j \in 1..Len(v) : w[k] = v[j]
    BY <1>1, <1>5
  <2>2. \A k \in 1..Len(v) : \E j \in 1..Len(v) : w[j] = v[k]
    BY <1>1, <1>5
  <2>3. Range(v) = {v[k] : k \in 1..Len(v)} /\ Range(w) = {w[k] : k \in 1..Len(v)}
    BY <1>1, <1>6 DEF Range
  <2>4. \A x : x \in Range(w) => x \in Range(v)
    BY <2>1, <2>3
  <2>5. \A x : x \in Range(v) => x \in Range(w)
    BY <2>2, <2>3
  <2> QED BY <2>4, <2>5
<1> QED BY <1>5, <1>6, <1>8, <1>9 DEF p, w

\* moveLayer exchanges two layers; where the list holds both, or neither, each
\* of its positions keeps its index.
LEMMA MoveKeeps ==
  ASSUME DisplayInv, NEW l \in Slot, NEW i \in DOMAIN layers, MoveLayer(l, i)
  PROVE  /\ layers' \in Orders /\ valid' \in Seq(Slot)
         /\ ValidIsHeld'
         /\ OrderedUnlessMixed'
<1> DEFINE a == layers[i]
           p == Index(l)
<1>1. /\ layers \in Orders /\ valid \in Seq(Slot) /\ IsInjective(valid) /\ Range(valid) = Held
      /\ validLen = Len(valid) /\ DOMAIN valid = 1..Len(valid) /\ Len(valid) \in Nat
  BY LenProperties DEF DisplayInv, ValidIsHeld
<1>2. /\ layers \in Seq(Slot) /\ Len(layers) = N /\ IsInjective(layers) /\ Range(layers) = Slot
      /\ DOMAIN layers = 1..N
  <2>1. layers \in Seq(Slot) /\ Len(layers) = N /\ IsInjective(layers) /\ Range(layers) = Slot
    BY <1>1, OrderFacts
  <2> QED BY <2>1, LenProperties
<1>3. /\ a # l /\ a \in Slot /\ Index(a) = i /\ i \in 1..N
      /\ p \in 1..N /\ layers[p] = l /\ p # i
  BY <1>1, <1>2, IndexFacts DEF MoveLayer
<1>4. /\ layers' = Swap(layers, l, i)
      /\ valid' = IF Contains(valid, a) THEN Swap(valid, l, IndexIn(a, valid)) ELSE valid
      /\ mixed' = (mixed \/ (Contains(valid, l) # Contains(valid, a)))
      /\ validLen' = validLen /\ content' = content
  BY DEF MoveLayer
<1>5. Held' = Held
  BY <1>4 DEF Held
<1> HIDE DEF a, p
<1>6. /\ layers' \in Seq(Slot) /\ Len(layers') = N /\ IsInjective(layers') /\ Range(layers') = Slot
      /\ layers'[i] = l /\ layers'[p] = a
      /\ \A k \in 1..N : k # i /\ k # p => layers'[k] = layers[k]
  <2>1. l \in Range(layers) /\ i \in 1..Len(layers) /\ i # IndexIn(l, layers)
    BY <1>2, <1>3 DEF p, Index
  <2>2. /\ layers' \in Seq(Slot) /\ Len(layers') = N /\ IsInjective(layers') /\ Range(layers') = Slot
        /\ layers'[i] = l
    BY <1>2, <1>4, <2>1, SwapFacts
  <2>3. layers'[p] = a
    BY <1>2, <1>4, <2>1, SwapFacts DEF p, Index, a
  <2>4. ASSUME NEW k \in 1..N, k # i, k # p PROVE layers'[k] = layers[k]
    BY <1>2, <1>4, <2>1, <2>4, SwapFacts DEF p, Index
  <2> QED BY <2>2, <2>3, <2>4
<1>7. layers' \in Orders
  <2>1. layers' \in [1..N -> Slot] /\ DOMAIN layers' = 1..N
    BY <1>6, LenProperties
  <2>2. \A t \in Slot : \E k \in 1..N : layers'[k] = t
    BY <1>6, <2>1 DEF Range
  <2> QED BY <1>6, <2>1, <2>2 DEF Orders, Bijection, Injection, Surjection, N
<1>8. \A k \in 1..N : IndexIn(layers'[k], layers') = k
  BY <1>7, OrderFacts
<1>9. ASSUME NEW m \in Slot
      PROVE  /\ m = l => IndexIn(m, layers') = i
             /\ m = a => IndexIn(m, layers') = p
             /\ m # l /\ m # a => IndexIn(m, layers') = Index(m)
  <2>1. m = l => IndexIn(m, layers') = i
    BY <1>3, <1>6, <1>8
  <2>2. m = a => IndexIn(m, layers') = p
    BY <1>3, <1>6, <1>8
  <2>3. ASSUME m # l, m # a PROVE IndexIn(m, layers') = Index(m)
    <3>1. Index(m) \in 1..N /\ layers[Index(m)] = m
      BY <1>1, IndexFacts
    <3>2. layers'[Index(m)] = m
      BY <1>3, <1>6, <2>3, <3>1 DEF a
    <3> QED BY <1>8, <3>1, <3>2
  <2> QED BY <2>1, <2>2, <2>3
<1>10. \A m \in Slot : Contains(valid, m) <=> m \in Range(valid)
  BY <1>1 DEF Contains, Range
<1>11. CASE l \in Range(valid) /\ a \in Range(valid)
  <2> DEFINE j == IndexIn(a, valid)
             q == IndexIn(l, valid)
  <2>1. j \in 1..Len(valid) /\ q \in 1..Len(valid) /\ valid[j] = a /\ valid[q] = l
    BY <1>1, <1>11, PositionFacts
  <2>2. valid' = Swap(valid, l, j)
    BY <1>3, <1>4, <1>10, <1>11
  <2>3. j # q
    BY <1>3, <2>1
  <2>4. /\ valid' \in Seq(Slot) /\ Len(valid') = Len(valid)
        /\ IsInjective(valid') /\ Range(valid') = Range(valid)
        /\ valid'[j] = l
    BY <1>1, <1>11, <2>1, <2>2, SwapFacts
  <2>5. valid'[q] = valid[j]
    BY <1>1, <1>11, <2>1, <2>2, <2>3, SwapFacts
  <2>6. ASSUME NEW k \in 1..Len(valid), k # j, k # q PROVE valid'[k] = valid[k]
    BY <1>1, <1>11, <2>1, <2>2, <2>6, SwapFacts
  <2> HIDE DEF j, q
  <2>7. ASSUME NEW k \in 1..Len(valid) PROVE IndexIn(valid'[k], layers') = Index(valid[k])
    <3>1. CASE k = j
      BY <1>3, <1>9, <2>1, <2>4, <3>1
    <3>2. CASE k = q
      BY <1>3, <1>9, <2>1, <2>5, <3>2 DEF p
    <3>3. CASE k # j /\ k # q
      <4>1. valid[k] # a /\ valid[k] # l /\ valid[k] \in Slot
        BY <1>1, <2>1, <3>3, ElementOfSeq DEF IsInjective
      <4>2. valid'[k] = valid[k]
        BY <2>6, <3>3
      <4> QED BY <1>9, <4>1, <4>2
    <3> QED BY <3>1, <3>2, <3>3
  <2>8. ValidIsHeld'
    BY <1>1, <1>4, <1>5, <2>4 DEF ValidIsHeld
  <2>9. OrderedUnlessMixed'
    <3>1. CASE mixed
      BY <1>4, <3>1 DEF OrderedUnlessMixed
    <3>2. CASE ~mixed
      <4>1. \A x, y \in 1..Len(valid) : x < y => Index(valid[x]) < Index(valid[y])
        BY <1>1, <3>2 DEF DisplayInv, OrderedUnlessMixed, ValidInOrder
      <4>2. \A x, y \in 1..Len(valid) : x < y => IndexIn(valid'[x], layers') < IndexIn(valid'[y], layers')
        BY <2>7, <4>1
      <4>3. DOMAIN valid' = 1..Len(valid)
        BY <2>4, LenProperties
      <4>4. ValidInOrder'
        BY <4>2, <4>3 DEF ValidInOrder, Index
      <4> QED BY <4>4 DEF OrderedUnlessMixed
    <3> QED BY <3>1, <3>2
  <2> QED BY <1>7, <2>4, <2>8, <2>9
<1>12. CASE ~(l \in Range(valid) /\ a \in Range(valid))
  <2>1. valid' = valid
    <3>1. CASE a \in Range(valid)
      <4>1. ~Contains(valid, l)
        BY <1>10, <1>12, <3>1
      <4> QED BY <1>3, <1>4, <1>10, <3>1, <4>1 DEF Swap
    <3>2. CASE a \notin Range(valid)
      BY <1>3, <1>4, <1>10, <3>2
    <3> QED BY <3>1, <3>2
  <2>2. ValidIsHeld'
    BY <1>1, <1>4, <1>5, <2>1 DEF ValidIsHeld
  <2>3. OrderedUnlessMixed'
    <3>1. CASE mixed'
      BY <3>1 DEF OrderedUnlessMixed
    <3>2. CASE ~mixed'
      <4>1. ~mixed /\ l \notin Range(valid) /\ a \notin Range(valid)
        <5>1. ~mixed /\ ~(Contains(valid, l) # Contains(valid, a))
          BY <1>4, <3>2
        <5>2. Contains(valid, l) \in BOOLEAN /\ Contains(valid, a) \in BOOLEAN
          BY DEF Contains
        <5> QED BY <1>3, <1>10, <1>12, <5>1, <5>2
      <4>2. \A x \in 1..Len(valid) : IndexIn(valid[x], layers') = Index(valid[x])
        <5>1. \A x \in 1..Len(valid) : valid[x] \in Slot /\ valid[x] # l /\ valid[x] # a
          BY <1>1, <4>1, ElementOfSeq DEF Range
        <5> QED BY <1>9, <5>1
      <4>3. \A x, y \in 1..Len(valid) : x < y => Index(valid[x]) < Index(valid[y])
        BY <1>1, <4>1 DEF DisplayInv, OrderedUnlessMixed, ValidInOrder
      <4>4. ValidInOrder'
        BY <1>1, <2>1, <4>2, <4>3 DEF ValidInOrder, Index
      <4> QED BY <4>4 DEF OrderedUnlessMixed
    <3> QED BY <3>1, <3>2
  <2> QED BY <1>1, <1>7, <2>1, <2>2, <2>3
<1> QED BY <1>11, <1>12

-----------------------------------------------------------------------------
(* The steps. *)

\* A turn of the loop adds one layer to those drawn.
LEMMA RenderKeeps ==
  ASSUME DisplayInv, RenderLayer
  PROVE  /\ DisplayInv'
         /\ cursor > 0 /\ cursor' = cursor - 1 /\ layers' = layers /\ mixed' = mixed
         /\ ~mixed =>
              /\ valid' = valid /\ validLen' = validLen
              /\ drawn' \in Seq(Slot) /\ Len(drawn') = validLen - cursor'
              /\ \A k \in 1..validLen - cursor' : drawn'[k] = valid[validLen + 1 - k]
<1>1. /\ layers \in Orders /\ valid \in Seq(Slot) /\ mixed \in BOOLEAN
      /\ content \in [Slot -> Contents]
      /\ cursor \in 0..validLen /\ validLen = Len(valid) /\ Len(valid) \in Nat
      /\ Range(valid) = Held /\ DOMAIN valid = 1..Len(valid)
  BY LenProperties DEF DisplayInv, ValidIsHeld
<1>2. /\ cursor > 0 /\ drawn' = Append(drawn, valid[cursor]) /\ cursor' = cursor - 1
      /\ cursor \in 1..validLen
  BY <1>1 DEF RenderLayer, Rendering
<1>3. valid[cursor] \in Held /\ valid[cursor] \in Slot
  BY <1>1, <1>2, ElementOfSeq DEF Range
<1>4. /\ layers' = layers /\ validLen' = validLen /\ mixed' = mixed /\ valid' \in Seq(Slot)
      /\ content' \in [Slot -> Contents]
      /\ ValidIsHeld' /\ OrderedUnlessMixed' /\ (~mixed => valid' = valid)
  <2>1. CASE UNCHANGED <<layers, valid, validLen, content, mixed>>
    <3>1. Held' = Held
      BY <2>1 DEF Held
    <3>2. ValidIsHeld' /\ OrderedUnlessMixed'
      BY <2>1, <3>1 DEF DisplayInv, ValidIsHeld, OrderedUnlessMixed, ValidInOrder, Index
    <3> QED BY <1>1, <2>1, <3>2
  <2>2. CASE content[valid[cursor]] \in {"fading", "nested"} /\ Exchanged(valid[cursor])
    <3>1. content[valid[cursor]] # "none" /\ Exchanged(valid[cursor])
      BY <2>2
    <3> QED BY <1>3, <3>1, ExchangedKeeps
  <2> QED BY <2>1, <2>2 DEF RenderLayer
<1>5. ASSUME ~mixed
      PROVE  /\ drawn' \in Seq(Slot) /\ Len(drawn') = validLen - cursor'
             /\ \A k \in 1..validLen - cursor' : drawn'[k] = valid[validLen + 1 - k]
  <2>1. /\ drawn \in Seq(Slot) /\ Len(drawn) = validLen - cursor
        /\ \A k \in 1..validLen - cursor : drawn[k] = valid[validLen + 1 - k]
    BY <1>2, <1>5 DEF DisplayInv, DrawnSoFar
  <2>2. /\ drawn' \in Seq(Slot) /\ Len(drawn') = Len(drawn) + 1
        /\ \A k \in 1..Len(drawn) : drawn'[k] = drawn[k]
        /\ drawn'[Len(drawn) + 1] = valid[cursor]
    BY <1>2, <1>3, <2>1, AppendProperties
  <2>3. ASSUME NEW k \in 1..validLen - cursor' PROVE drawn'[k] = valid[validLen + 1 - k]
    <3>1. CASE k = validLen - cursor + 1
      <4>1. validLen + 1 - k = cursor
        BY <1>1, <1>2, <3>1
      <4> QED BY <2>1, <2>2, <3>1, <4>1
    <3>2. CASE k # validLen - cursor + 1
      <4>1. /\ k \in Nat /\ 1 <= k /\ k <= validLen - cursor'
            /\ validLen \in Nat /\ cursor \in Nat /\ cursor' = cursor - 1
        BY <1>1, <1>2
      <4>2. k <= validLen - cursor
        BY <3>2, <4>1
      <4>3. k \in 1..validLen - cursor
        BY <4>1, <4>2
      <4> QED BY <2>1, <2>2, <4>3
    <3> QED BY <3>1, <3>2
  <2>4. Len(drawn') = validLen - cursor'
    BY <1>1, <1>2, <2>1, <2>2
  <2> QED BY <2>2, <2>3, <2>4
<1>6. DrawnSoFar'
  BY <1>4, <1>5 DEF DrawnSoFar
<1>7. cursor' \in 0..validLen'
  BY <1>1, <1>2, <1>4
<1>8. DisplayInv'
  BY <1>1, <1>4, <1>6, <1>7 DEF DisplayInv
<1> QED BY <1>2, <1>4, <1>5, <1>8

\* A frame that aborts leaves the list as it was, if it was in order, and what it
\* has drawn.
LEMMA AbortKeeps ==
  ASSUME DisplayInv, RenderAborts
  PROVE  /\ DisplayInv'
         /\ cursor \in 1..validLen /\ cursor' = 0 /\ layers' = layers /\ mixed' = mixed
         /\ drawn' = drawn /\ content[valid[cursor]] = "nested" /\ Held' = Held
<1>1. /\ valid \in Seq(Slot) /\ cursor \in 0..validLen /\ validLen = Len(valid) /\ Len(valid) \in Nat
      /\ Range(valid) = Held /\ DOMAIN valid = 1..Len(valid) /\ layers \in Orders /\ mixed \in BOOLEAN
  BY LenProperties DEF DisplayInv, ValidIsHeld
<1>2. /\ cursor \in 1..validLen /\ cursor' = 0 /\ drawn' = drawn
      /\ content[valid[cursor]] = "nested" /\ Exchanged(valid[cursor])
  BY <1>1 DEF RenderAborts, Rendering
<1>3. valid[cursor] \in Held /\ valid[cursor] \in Slot
  BY <1>1, <1>2, ElementOfSeq DEF Range
<1>4. /\ layers' = layers /\ validLen' = validLen /\ mixed' = mixed /\ valid' \in Seq(Slot)
      /\ content' \in [Slot -> Contents]
      /\ ValidIsHeld' /\ OrderedUnlessMixed'
  <2>1. content[valid[cursor]] # "none"
    BY <1>2
  <2> QED BY <1>2, <1>3, <2>1, ExchangedKeeps
<1>5. DrawnSoFar' /\ cursor' \in 0..validLen'
  BY <1>1, <1>2, <1>4 DEF DrawnSoFar
<1>6. Held' = Held
  <2>1. content' = [content EXCEPT ![valid[cursor]] = "plain"] /\ content[valid[cursor]] # "none"
    BY <1>2 DEF Exchanged
  <2>2. content \in [Slot -> Contents]
    BY DEF DisplayInv
  <2> QED BY <1>3, <2>1, <2>2 DEF Held
<1>7. DisplayInv'
  BY <1>1, <1>4, <1>5 DEF DisplayInv
<1> QED BY <1>2, <1>4, <1>6, <1>7

\* While the list is in order, the layers at its positions above p, from the last
\* down, are those of an index above that of the layer at p, each once.
LEMMA DrawnDown ==
  ASSUME layers \in Orders, NEW v \in Seq(Slot), IsInjective(v), Ordered(v),
         NEW p \in 0..Len(v), NEW d \in Seq(Slot), Len(d) = Len(v) - p,
         \A k \in 1..Len(v) - p : d[k] = v[Len(v) + 1 - k]
  PROVE  /\ IsInjective(d)
         /\ Descending(d)
         /\ Range(d) = {v[k] : k \in p + 1..Len(v)}
         /\ p > 0 => Range(d) = {l \in Range(v) : Index(l) > Index(v[p])}
<1> DEFINE n == Len(v)
<1>1. n \in Nat /\ DOMAIN v = 1..n /\ p \in Nat /\ p <= n /\ n - p \in Nat /\ DOMAIN d = 1..n - p
  BY LenProperties
<1> HIDE DEF n
<1>2. \A k \in 1..n - p : n + 1 - k \in 1..n /\ n + 1 - k \in p + 1..n /\ d[k] = v[n + 1 - k]
  BY <1>1 DEF n
<1>3. \A k \in p + 1..n : n + 1 - k \in 1..n - p /\ d[n + 1 - k] = v[k]
  <2> SUFFICES ASSUME NEW k \in p + 1..n PROVE n + 1 - k \in 1..n - p /\ d[n + 1 - k] = v[k]
    OBVIOUS
  <2>1. n + 1 - k \in 1..n - p /\ n + 1 - (n + 1 - k) = k
    BY <1>1
  <2> QED BY <1>2, <2>1
<1>4. IsInjective(d)
  <2>1. \A i, j \in 1..n : v[i] = v[j] => i = j
    BY <1>1 DEF IsInjective
  <2>2. ASSUME NEW i \in 1..n - p, NEW j \in 1..n - p, d[i] = d[j] PROVE i = j
    <3>1. n + 1 - i \in 1..n /\ n + 1 - j \in 1..n
      BY <1>2
    <3>2. v[n + 1 - i] = v[n + 1 - j]
      BY <1>2, <2>2
    <3>3. n + 1 - i = n + 1 - j
      BY <2>1, <3>1, <3>2
    <3> QED BY <1>1, <3>3
  <2> QED BY <1>1, <2>2 DEF IsInjective
<1>5. Range(d) = {v[k] : k \in p + 1..n}
  <2>1. Range(d) = {d[k] : k \in 1..n - p}
    BY <1>1 DEF Range
  <2>2. ASSUME NEW k \in 1..n - p PROVE d[k] \in {v[j] : j \in p + 1..n}
    BY <1>2
  <2>3. ASSUME NEW k \in p + 1..n PROVE v[k] \in {d[j] : j \in 1..n - p}
    BY <1>3
  <2> QED BY <2>1, <2>2, <2>3
<1>6. \A i, j \in 1..n : i < j => Index(v[i]) < Index(v[j])
  BY <1>1 DEF Ordered
<1>7. \A i \in 1..n : Index(v[i]) \in Nat
  BY <1>1, ElementOfSeq, IndexFacts DEF n
<1>8. Descending(d)
  <2> SUFFICES ASSUME NEW i \in 1..n - p, NEW j \in 1..n - p, i < j
               PROVE  Index(d[i]) > Index(d[j])
    BY <1>1 DEF Descending
  <2>1. n + 1 - j \in 1..n /\ n + 1 - i \in 1..n /\ n + 1 - j < n + 1 - i
    BY <1>1
  <2>2. Index(v[n + 1 - j]) < Index(v[n + 1 - i])
    BY <1>6, <2>1
  <2> QED BY <1>2, <1>7, <2>1, <2>2
<1>9. ASSUME p > 0 PROVE Range(d) = {l \in Range(v) : Index(l) > Index(v[p])}
  <2>1. p \in 1..n
    BY <1>1, <1>9
  <2>2. ASSUME NEW k \in 1..n PROVE (Index(v[k]) > Index(v[p])) <=> k \in p + 1..n
    <3>1. CASE k > p
      BY <1>1, <1>6, <1>7, <2>1, <3>1
    <3>2. CASE k = p
      BY <1>1, <1>7, <2>1, <3>2
    <3>3. CASE k < p
      <4>1. Index(v[k]) < Index(v[p])
        BY <1>6, <2>1, <3>3
      <4> QED BY <1>1, <1>7, <2>1, <3>3, <4>1
    <3> QED BY <1>1, <3>1, <3>2, <3>3
  <2>3. Range(v) = {v[k] : k \in 1..n}
    BY <1>1 DEF Range
  <2>4. p + 1..n \subseteq 1..n
    BY <1>1
  <2> QED BY <1>5, <2>2, <2>3, <2>4
<1> QED BY <1>4, <1>5, <1>8, <1>9 DEF n

\* What a frame has drawn when its loop ends.
LEMMA FrameDrawn ==
  ASSUME DisplayInv, [Next]_vars, FrameEnds, ~mixed
  PROVE  /\ IsInjective(drawn') /\ Descending(drawn)'
         /\ \/ Range(drawn') = Held'
            \/ /\ content[valid[cursor]] = "nested"
               /\ Range(drawn') = {l \in Held' : Index(l) > Index(valid[cursor])}
<1>1. /\ validLen = Len(valid) /\ Len(valid) \in Nat /\ DOMAIN valid = 1..Len(valid)
      /\ IsInjective(valid) /\ layers \in Orders /\ valid \in Seq(Slot) /\ Range(valid) = Held
      /\ Ordered(valid) /\ cursor \in 0..validLen
  BY LenProperties DEF DisplayInv, ValidIsHeld, OrderedUnlessMixed, ValidInOrder, Ordered
<1>2. RenderLayer \/ RenderAborts
  <2>1. cursor > 0 /\ ~(cursor' > 0)
    BY DEF FrameEnds, Rendering
  <2>2. Rendering /\ ~UNCHANGED vars
    BY <2>1 DEF Rendering, vars
  <2> QED BY <2>2 DEF Next, Load, Replace, Fade, Delete, MoveLayer, StartFrame
<1>3. CASE RenderLayer
  <2>1. /\ DisplayInv' /\ layers' = layers /\ valid' = valid /\ validLen' = validLen
        /\ cursor' = cursor - 1
        /\ drawn' \in Seq(Slot) /\ Len(drawn') = validLen - cursor'
        /\ \A k \in 1..validLen - cursor' : drawn'[k] = valid[validLen + 1 - k]
    BY <1>3, RenderKeeps
  <2>2. cursor' = 0
    BY <1>1, <2>1 DEF FrameEnds, Rendering
  <2>3. /\ 0 \in 0..Len(valid) /\ Len(drawn') = Len(valid) - 0
        /\ \A k \in 1..Len(valid) - 0 : drawn'[k] = valid[Len(valid) + 1 - k]
    BY <1>1, <2>1, <2>2
  <2>4. /\ IsInjective(drawn') /\ Descending(drawn')
        /\ Range(drawn') = {valid[k] : k \in 0 + 1..Len(valid)}
    <3> DEFINE d == drawn'
    <3>1. d \in Seq(Slot) /\ Len(d) = Len(valid) - 0 /\ \A k \in 1..Len(valid) - 0 : d[k] = valid[Len(valid) + 1 - k]
      BY <2>1, <2>3
    <3> HIDE DEF d
    <3>2. IsInjective(d) /\ Descending(d) /\ Range(d) = {valid[k] : k \in 0 + 1..Len(valid)}
      BY <1>1, <2>3, <3>1, DrawnDown
    <3> QED BY <3>2 DEF d
  <2>5. Range(drawn') = Range(valid)
    <3>1. 0 + 1..Len(valid) = DOMAIN valid
      BY <1>1
    <3>2. Range(valid) = {valid[k] : k \in DOMAIN valid}
      BY DEF Range
    <3> QED BY <2>4, <3>1, <3>2
  <2>6. Range(valid) = Held'
    BY <2>1 DEF DisplayInv, ValidIsHeld
  <2>7. Descending(drawn)'
    BY <2>1, <2>4 DEF Descending, Index
  <2> QED BY <2>4, <2>5, <2>6, <2>7
<1>4. CASE RenderAborts
  <2>1. /\ cursor \in 1..validLen /\ layers' = layers /\ drawn' = drawn
        /\ content[valid[cursor]] = "nested" /\ Held' = Held
    BY <1>4, AbortKeeps
  <2>2. /\ drawn \in Seq(Slot) /\ Len(drawn) = Len(valid) - cursor
        /\ \A k \in 1..Len(valid) - cursor : drawn[k] = valid[Len(valid) + 1 - k]
    BY <1>1, <2>1 DEF DisplayInv, DrawnSoFar
  <2>3. /\ IsInjective(drawn) /\ Descending(drawn)
        /\ Range(drawn) = {l \in Range(valid) : Index(l) > Index(valid[cursor])}
    <3>1. cursor \in 0..Len(valid) /\ cursor > 0
      BY <1>1, <2>1
    <3> QED BY <1>1, <2>2, <3>1, DrawnDown
  <2>4. Descending(drawn)'
    BY <2>1, <2>3 DEF Descending, Index
  <2> QED BY <1>1, <2>1, <2>3, <2>4
<1> QED BY <1>2, <1>3, <1>4

\* Every step keeps the invariant.
LEMMA DisplayNext == DisplayInv /\ [Next]_vars => DisplayInv'
<1> SUFFICES ASSUME DisplayInv, [Next]_vars PROVE DisplayInv'
  OBVIOUS
<1>1. /\ layers \in Orders /\ valid \in Seq(Slot) /\ mixed \in BOOLEAN
      /\ content \in [Slot -> Contents]
      /\ cursor \in 0..validLen /\ validLen = Len(valid) /\ Len(valid) \in Nat
      /\ IsInjective(valid) /\ Range(valid) = Held
      /\ ~mixed => Ordered(valid)
  BY LenProperties DEF DisplayInv, ValidIsHeld, OrderedUnlessMixed, ValidInOrder, Ordered
<1>2. ~Rendering => cursor = 0
  BY <1>1 DEF Rendering
<1>3. ASSUME NEW l \in Slot, Load(l) PROVE DisplayInv'
  <2> DEFINE w == Loaded(l, valid)
  <2>1. /\ content[l] = "none" /\ content' = [content EXCEPT ![l] = "plain"]
        /\ valid' = w /\ validLen' = validLen + 1
        /\ layers' = layers /\ cursor' = 0 /\ cursor = 0 /\ mixed' = mixed
    BY <1>2, <1>3 DEF Load
  <2>2. l \in Slot \ Range(valid)
    BY <1>1, <2>1 DEF Held
  <2>3. w \in Seq(Slot) /\ Len(w) = Len(valid) + 1 /\ IsInjective(w) /\ Range(w) = Range(valid) \cup {l}
    BY <1>1, <2>2, LoadedFacts
  <2>4. Ordered(valid) => Ordered(w)
    BY <1>1, <2>2, LoadedFacts
  <2> HIDE DEF w
  <2>5. Held' = Held \cup {l} /\ content' \in [Slot -> Contents]
    BY <1>1, <2>1 DEF Held, Contents
  <2>6. ValidIsHeld'
    BY <1>1, <2>1, <2>3, <2>5 DEF ValidIsHeld
  <2>7. OrderedUnlessMixed'
    BY <1>1, <2>1, <2>4 DEF OrderedUnlessMixed, ValidInOrder, Ordered, Index
  <2>8. DrawnSoFar' /\ cursor' \in 0..validLen'
    BY <1>1, <2>1 DEF DrawnSoFar
  <2> QED BY <1>1, <2>1, <2>3, <2>5, <2>6, <2>7, <2>8 DEF DisplayInv
<1>4. ASSUME NEW l \in Slot, Replace(l) PROVE DisplayInv'
  <2>1. content[l] # "none" /\ Exchanged(l) /\ cursor' = 0
    BY <1>2, <1>4 DEF Replace
  <2>2. /\ valid' \in Seq(Slot) /\ layers' = layers /\ validLen' = validLen /\ mixed' = mixed
        /\ content' \in [Slot -> Contents]
        /\ ValidIsHeld' /\ OrderedUnlessMixed'
    BY <2>1, ExchangedKeeps
  <2>3. DrawnSoFar' /\ cursor' \in 0..validLen'
    BY <1>1, <2>1, <2>2 DEF DrawnSoFar
  <2> QED BY <1>1, <2>2, <2>3 DEF DisplayInv
<1>5. ASSUME NEW l \in Slot, Fade(l) PROVE DisplayInv'
  <2>1. /\ content[l] # "none"
        /\ content' = [content EXCEPT ![l] = IF @ = "plain" THEN "fading" ELSE "nested"]
        /\ layers' = layers /\ valid' = valid /\ validLen' = validLen
        /\ cursor' = 0 /\ mixed' = mixed
    BY <1>2, <1>5 DEF Fade
  <2>2. Held' = Held /\ content' \in [Slot -> Contents]
    BY <1>1, <2>1 DEF Held, Contents
  <2>3. ValidIsHeld' /\ OrderedUnlessMixed'
    BY <2>1, <2>2 DEF DisplayInv, ValidIsHeld, OrderedUnlessMixed, ValidInOrder, Index
  <2>4. DrawnSoFar' /\ cursor' \in 0..validLen'
    BY <1>1, <2>1 DEF DrawnSoFar
  <2> QED BY <1>1, <2>1, <2>2, <2>3, <2>4 DEF DisplayInv
<1>6. ASSUME NEW l \in Slot, Delete(l) PROVE DisplayInv'
  <2> DEFINE w == Unloaded(l, valid)
  <2>1. /\ content[l] # "none" /\ content' = [content EXCEPT ![l] = "none"]
        /\ valid' = w /\ validLen' = validLen - 1
        /\ layers' = layers /\ cursor' = 0 /\ mixed' = mixed
    BY <1>2, <1>6 DEF Delete
  <2>2. l \in Range(valid)
    BY <1>1, <2>1 DEF Held
  <2>3. w \in Seq(Slot) /\ Len(w) = Len(valid) - 1 /\ IsInjective(w) /\ Range(w) = Range(valid) \ {l}
    BY <1>1, <2>2, UnloadedFacts
  <2>4. Ordered(valid) => Ordered(w)
    BY <1>1, <2>2, UnloadedFacts
  <2> HIDE DEF w
  <2>5. Held' = Held \ {l} /\ content' \in [Slot -> Contents]
    BY <1>1, <2>1 DEF Held, Contents
  <2>6. ValidIsHeld'
    BY <1>1, <2>1, <2>3, <2>5 DEF ValidIsHeld
  <2>7. OrderedUnlessMixed'
    BY <1>1, <2>1, <2>4 DEF OrderedUnlessMixed, ValidInOrder, Ordered, Index
  <2>8. DrawnSoFar' /\ cursor' \in 0..validLen'
    <3>1. Len(w) \in Nat
      BY <2>3, LenProperties
    <3> QED BY <1>1, <2>1, <2>3, <3>1 DEF DrawnSoFar
  <2> QED BY <1>1, <2>1, <2>3, <2>5, <2>6, <2>7, <2>8 DEF DisplayInv
<1>7. ASSUME NEW l \in Slot, NEW i \in DOMAIN layers, MoveLayer(l, i) PROVE DisplayInv'
  <2>1. layers' \in Orders /\ valid' \in Seq(Slot) /\ ValidIsHeld' /\ OrderedUnlessMixed'
    BY <1>7, MoveKeeps
  <2>2. content' = content /\ validLen' = validLen /\ cursor' = 0
    BY <1>2, <1>7 DEF MoveLayer
  <2>3. mixed' \in BOOLEAN
    <3>1. mixed' = (mixed \/ (Contains(valid, l) # Contains(valid, layers[i])))
      BY <1>7 DEF MoveLayer
    <3> QED BY <3>1, Zenon
  <2>4. DrawnSoFar' /\ cursor' \in 0..validLen'
    BY <1>1, <2>2 DEF DrawnSoFar
  <2> QED BY <1>1, <2>1, <2>2, <2>3, <2>4 DEF DisplayInv
<1>8. CASE StartFrame
  <2>1. /\ cursor' = validLen /\ drawn' = <<>>
        /\ layers' = layers /\ valid' = valid /\ validLen' = validLen
        /\ content' = content /\ mixed' = mixed
    BY <1>8 DEF StartFrame
  <2>2. Held' = Held
    BY <2>1 DEF Held
  <2>3. ValidIsHeld' /\ OrderedUnlessMixed'
    BY <2>1, <2>2 DEF DisplayInv, ValidIsHeld, OrderedUnlessMixed, ValidInOrder, Index
  <2>4. DrawnSoFar' /\ cursor' \in 0..validLen'
    BY <1>1, <2>1 DEF DrawnSoFar
  <2> QED BY <1>1, <2>1, <2>3, <2>4 DEF DisplayInv
<1>9. CASE RenderLayer
  BY <1>9, RenderKeeps
<1>11. CASE RenderAborts
  BY <1>11, AbortKeeps
<1>10. CASE UNCHANGED vars
  <2>1. /\ cursor' = cursor /\ drawn' = drawn
        /\ layers' = layers /\ valid' = valid /\ validLen' = validLen
        /\ content' = content /\ mixed' = mixed
    BY <1>10 DEF vars
  <2>2. Held' = Held
    BY <2>1 DEF Held
  <2> QED BY <2>1, <2>2
      DEF DisplayInv, ValidIsHeld, OrderedUnlessMixed, ValidInOrder, Index, DrawnSoFar
<1> QED BY <1>3, <1>4, <1>5, <1>6, <1>7, <1>8, <1>9, <1>10, <1>11 DEF Next

\* The display renders exactly the layers that hold something, whatever the
\* number of layers and however loads, moves and transitions alternate.
THEOREM HeldIsRendered == Spec => []ValidIsHeld
<1>1. DisplayInv => ValidIsHeld
  BY DEF DisplayInv
<1> QED BY <1>1, DisplayInit, DisplayNext, PTL DEF Spec

\* The list of layers to render stays in the order of the layers, unless a layer
\* that is rendered has been moved with one that is not.
THEOREM OrderKept == Spec => []OrderedUnlessMixed
<1>1. DisplayInv => OrderedUnlessMixed
  BY DEF DisplayInv
<1> QED BY <1>1, DisplayInit, DisplayNext, PTL DEF Spec

\* While the list is in order, a frame draws each layer that holds something once,
\* the lower ones first, whatever transitions end under its loop; one in which the
\* inner one of nested transitions ends draws just the layers below.
THEOREM RenderedOnce == Spec => EachRenderedOnce
<1>1. ASSUME DisplayInv, [Next]_vars, FrameEnds, ~mixed
      PROVE  /\ IsInjective(drawn') /\ Descending(drawn)'
             /\ \/ Range(drawn') = Held'
                \/ /\ content[valid[cursor]] = "nested"
                   /\ Range(drawn') = {l \in Held' : Index(l) > Index(valid[cursor])}
  BY <1>1, FrameDrawn
<1> QED BY <1>1, DisplayInit, DisplayNext, PTL DEF Spec, EachRenderedOnce
=============================================================================
