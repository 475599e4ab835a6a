------------------------------ MODULE LoopProofs ------------------------------
(***************************************************************************)
(* The rule for loops: what holds before a loop and is kept by its step    *)
(* holds after it.  P(a, k, x) says that x may be what a loop that started *)
(* with a has come to after k rounds.  A module that proves something of a *)
(* loop instantiates this one with the loop's step and its invariant.      *)
(***************************************************************************)
EXTENDS Loops, WellFoundedInduction, TLAPS

CONSTANTS Step(_), P(_, _, _)

\* A set that holds zero and, with every number, the next holds them all.
LEMMA CountedUp ==
  ASSUME NEW T, 0 \in T, \A n \in Nat : n \in T => n + 1 \in T
  PROVE  Nat \subseteq T
<1> DEFINE R == OpToRel(<, Nat)
           U == Nat \ T
<1> SUFFICES ASSUME U # {} PROVE FALSE
  OBVIOUS
<1>1. IsWellFoundedOn(R, Nat)
  BY NatLessThanWellFounded
<1>2. \A x \in Nat : x # 0 => <<x - 1, x>> \in R
  BY DEF OpToRel
<1> HIDE DEF R
<1>3. PICK x \in U : \A y \in U : ~ (<<y, x>> \in R)
  BY <1>1, WFMin
<1>4. x # 0 /\ x - 1 \in Nat /\ x \in Nat
  BY <1>3
<1>5. (x - 1) + 1 \in T
  BY <1>2, <1>3, <1>4
<1> QED BY <1>3, <1>4, <1>5

\* What the loop has come to, up to the n-th round.
Rounds(start, n, g) ==
  g = [k \in 0..n |-> IF k = 0 THEN start ELSE Step(g[k - 1])]

LEMMA RoundsOnce ==
  ASSUME NEW start, NEW m \in Nat, NEW n \in Nat, NEW g, NEW h,
         Rounds(start, m, g), Rounds(start, n, h)
  PROVE  \A k \in Nat : k <= m /\ k <= n => g[k] = h[k]
<1> DEFINE T == {k \in Nat : k <= m /\ k <= n => g[k] = h[k]}
<1>1. 0 \in T
  BY DEF Rounds
<1>2. ASSUME NEW k \in Nat, k \in T PROVE k + 1 \in T
  <2> SUFFICES ASSUME k + 1 <= m, k + 1 <= n PROVE g[k + 1] = h[k + 1]
    OBVIOUS
  <2>1. g[k] = h[k]
    BY <1>2
  <2>2. g[k + 1] = Step(g[(k + 1) - 1]) /\ h[k + 1] = Step(h[(k + 1) - 1])
    BY DEF Rounds
  <2>3. (k + 1) - 1 = k
    OBVIOUS
  <2> QED BY <2>1, <2>2, <2>3
<1>3. Nat \subseteq T
  <2> HIDE DEF T
  <2> QED BY <1>1, <1>2, CountedUp
<1> QED BY <1>3

LEMMA RoundsThere ==
  ASSUME NEW start, NEW n \in Nat
  PROVE  \E g : Rounds(start, n, g)
<1> DEFINE T == {k \in Nat : \E g : Rounds(start, k, g)}
<1>1. 0 \in T
  <2> DEFINE g == [k \in 0..0 |-> start]
  <2>1. g = [k \in 0..0 |-> IF k = 0 THEN start ELSE Step(g[k - 1])]
    OBVIOUS
  <2> QED BY <2>1 DEF Rounds
<1>2. ASSUME NEW k \in Nat, k \in T PROVE k + 1 \in T
  <2>1. PICK g : Rounds(start, k, g)
    BY <1>2
  <2> DEFINE h == [j \in 0..k + 1 |-> IF j = k + 1 THEN Step(g[k]) ELSE g[j]]
  <2>2. \A j \in 0..k + 1 : h[j] = IF j = 0 THEN start ELSE Step(h[j - 1])
    <3> SUFFICES ASSUME NEW j \in 0..k + 1 PROVE h[j] = IF j = 0 THEN start ELSE Step(h[j - 1])
      OBVIOUS
    <3>1. CASE j = k + 1
      <4>1. h[j] = Step(g[k]) /\ h[j - 1] = g[k]
        BY <3>1
      <4> QED BY <4>1, <3>1
    <3>2. CASE j = 0
      BY <2>1, <3>2 DEF Rounds
    <3>3. CASE j \in 1..k
      <4>1. h[j] = g[j] /\ h[j - 1] = g[j - 1]
        BY <3>3
      <4>2. g[j] = Step(g[j - 1])
        BY <2>1, <3>3 DEF Rounds
      <4> QED BY <4>1, <4>2, <3>3
    <3> QED BY <3>1, <3>2, <3>3
  <2>3. Rounds(start, k + 1, h)
    <3>1. DOMAIN h = 0..k + 1 /\ h = [j \in 0..k + 1 |-> h[j]]
      OBVIOUS
    <3> HIDE DEF h
    <3>2. h = [j \in 0..k + 1 |-> IF j = 0 THEN start ELSE Step(h[j - 1])]
      BY <2>2, <3>1
    <3> QED BY <3>2 DEF Rounds
  <2> QED BY <2>3
<1>3. Nat \subseteq T
  <2> HIDE DEF T
  <2> QED BY <1>1, <1>2, CountedUp
<1> QED BY <1>3

\* The function that Repeat recurs on is there.
LEMMA RepeatIsThere ==
  ASSUME NEW start
  PROVE  LET after[k \in Nat] == IF k = 0 THEN start ELSE Step(after[k - 1])
         IN  after = [k \in Nat |-> IF k = 0 THEN start ELSE Step(after[k - 1])]
<1> DEFINE G(n) == CHOOSE g : Rounds(start, n, g)
           f == [n \in Nat |-> G(n)[n]]
<1>1. \A n \in Nat : Rounds(start, n, G(n))
  BY RoundsThere
<1> HIDE DEF G
<1>2. \A n \in Nat : f[n] = IF n = 0 THEN start ELSE Step(f[n - 1])
  <2> SUFFICES ASSUME NEW n \in Nat PROVE f[n] = IF n = 0 THEN start ELSE Step(f[n - 1])
    OBVIOUS
  <2>1. CASE n = 0
    BY <1>1, <2>1 DEF Rounds
  <2>2. CASE n # 0
    <3>1. n - 1 \in Nat /\ n - 1 <= n /\ n - 1 <= n - 1
      BY <2>2
    <3>2. G(n)[n - 1] = G(n - 1)[n - 1]
      BY <1>1, <3>1, RoundsOnce
    <3>3. G(n)[n] = Step(G(n)[n - 1])
      BY <1>1, <2>2 DEF Rounds
    <3>4. f[n] = G(n)[n] /\ f[n - 1] = G(n - 1)[n - 1]
      BY <3>1
    <3> QED BY <3>2, <3>3, <3>4, <2>2
  <2> QED BY <2>1, <2>2
<1>3. f = [n \in Nat |-> f[n]]
  OBVIOUS
<1> HIDE DEF f
<1>4. f = [k \in Nat |-> IF k = 0 THEN start ELSE Step(f[k - 1])]
  BY <1>2, <1>3
<1> DEFINE after[k \in Nat] == IF k = 0 THEN start ELSE Step(after[k - 1])
<1>5. after = [k \in Nat |-> IF k = 0 THEN start ELSE Step(after[k - 1])]
  BY <1>4
<1> QED BY <1>5

\* The loop started with "start" keeps P over all its rounds.
LEMMA Repeated ==
  ASSUME NEW n \in Nat, NEW a, NEW start, P(a, 0, start),
         \A k \in Nat : \A x : P(a, k, x) => P(a, k + 1, Step(x))
  PROVE  P(a, n, Repeat(Step, start, n))
<1> DEFINE after[k \in Nat] == IF k = 0 THEN start ELSE Step(after[k - 1])
<1>1. after = [k \in Nat |-> IF k = 0 THEN start ELSE Step(after[k - 1])]
  BY RepeatIsThere
<1>2. Repeat(Step, start, n) = after[n]
  BY DEF Repeat
<1> HIDE DEF after
<1> DEFINE T == {k \in Nat : P(a, k, after[k])}
<1>3. 0 \in T
  BY <1>1
<1>4. ASSUME NEW k \in Nat, k \in T PROVE k + 1 \in T
  <2>1. after[k + 1] = Step(after[k])
    BY <1>1
  <2>2. P(a, k, after[k])
    BY <1>4
  <2>3. P(a, k + 1, Step(after[k]))
    BY <2>2
  <2> QED BY <2>1, <2>3
<1>5. Nat \subseteq T
  <2> HIDE DEF T
  <2> QED BY <1>3, <1>4, CountedUp
<1> QED BY <1>2, <1>5
=============================================================================
