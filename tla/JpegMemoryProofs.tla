-------------------------- MODULE JpegMemoryProofs --------------------------
(***************************************************************************)
(* What is proved of the memory manager of the JPEG library.               *)
(***************************************************************************)
EXTENDS JpegMemory, TLAPS, FiniteSetTheorems, WellFoundedInduction

-----------------------------------------------------------------------------
(* Counting up, and the largest and least of a set *)

\* A set that holds zero and, with every number, the next holds them all.
LEMMA CountUp ==
  ASSUME NEW T, 0 \in T, \A n \in Nat : n \in T => n + 1 \in T
  PROVE  Nat \subseteq T
<1> DEFINE R == OpToRel(<, Nat)
           U == Nat \ T
<1> SUFFICES ASSUME U # {} PROVE FALSE
  OBVIOUS
<1>1. IsWellFoundedOn(R, Nat)
  BY NatLessThanWellFounded
<1>2. \A x \in Nat : x # 0 => <<x - 1, x>> \in R
  BY DEF OpToRel
<1> HIDE DEF R
<1>3. PICK x \in U : \A y \in U : ~ (<<y, x>> \in R)
  BY <1>1, WFMin
<1>4. x # 0 /\ x - 1 \in Nat /\ x \in Nat
  BY <1>3
<1>5. (x - 1) + 1 \in T
  BY <1>2, <1>3, <1>4
<1> QED BY <1>3, <1>4, <1>5

\* A set of integers with an upper bound has a largest one.
LEMMA MaxOfBounded ==
  ASSUME NEW S, S \subseteq Int, S # {}, NEW b \in Int, \A x \in S : x <= b
  PROVE  Max(S) \in S /\ \A x \in S : x <= Max(S)
<1> DEFINE T == {n \in Nat : \A x \in S : x >= b - n => \E m \in S : \A y \in S : m >= y}
<1>1. 0 \in T
  OBVIOUS
<1>2. ASSUME NEW n \in Nat, n \in T PROVE n + 1 \in T
  <2> SUFFICES ASSUME NEW x \in S, x >= b - (n + 1)
               PROVE  \E m \in S : \A y \in S : m >= y
    OBVIOUS
  <2>1. CASE \E y \in S : y >= b - n
    BY <1>2, <2>1
  <2>2. CASE ~ \E y \in S : y >= b - n
    <3>1. \A y \in S : x >= y
      BY <2>2
    <3> QED BY <3>1
  <2> QED BY <2>1, <2>2
<1> HIDE DEF T
<1>3. Nat \subseteq T
  BY <1>1, <1>2, CountUp
<1>4. PICK x \in S : TRUE
  OBVIOUS
<1>5. b - x \in T
  BY <1>3, <1>4
<1>6. x >= b - (b - x)
  BY <1>4
<1>7. \E m \in S : \A y \in S : m >= y
  BY <1>4, <1>5, <1>6 DEF T
<1>8. Max(S) \in S /\ \A y \in S : Max(S) >= y
  BY <1>7 DEF Max
<1> QED BY <1>8

\* A set of integers with a lower bound has a least one.
LEMMA MinOfBounded ==
  ASSUME NEW S, S \subseteq Int, S # {}, NEW b \in Int, \A x \in S : b <= x
  PROVE  Min(S) \in S /\ \A x \in S : Min(S) <= x
<1> DEFINE N == {y \in Int : -y \in S}
           c == -b
<1>1. \A y \in S : -y \in N
  OBVIOUS
<1>2. \A y \in N : y \in Int /\ -y \in S
  OBVIOUS
<1>3. N \subseteq Int /\ N # {} /\ c \in Int /\ \A y \in N : y <= c
  <2>1. PICK x \in S : TRUE
    OBVIOUS
  <2>2. -x \in N
    BY <1>1
  <2>3. ASSUME NEW y \in N PROVE y \in Int /\ y <= c
    <3>1. y \in Int /\ -y \in S
      BY <1>2
    <3>2. b <= -y
      BY <3>1
    <3> QED BY <3>1, <3>2
  <2> HIDE DEF N
  <2> QED BY <2>2, <2>3
<1> HIDE DEF N, c
<1>4. Max(N) \in N /\ \A y \in N : y <= Max(N)
  BY <1>3, MaxOfBounded
<1>5. -Max(N) \in S /\ \A y \in S : -Max(N) <= y
  BY <1>1, <1>2, <1>4
<1>6. Min(S) \in S /\ \A y \in S : Min(S) =< y
  BY <1>5 DEF Min
<1> QED BY <1>6

\* The lesser of two integers.
LEMMA MinOfTwo ==
  ASSUME NEW x \in Int, NEW y \in Int
  PROVE  Min({x, y}) = IF x <= y THEN x ELSE y
<1>1. \A z \in {x, y} : (\A w \in {x, y} : z =< w) => z = IF x <= y THEN x ELSE y
  OBVIOUS
<1>2. \E z \in {x, y} : \A w \in {x, y} : z =< w
  OBVIOUS
<1> QED BY <1>1, <1>2 DEF Min

\* The greater of two integers.
LEMMA MaxOfTwo ==
  ASSUME NEW x \in Int, NEW y \in Int
  PROVE  Max({x, y}) = IF x >= y THEN x ELSE y
<1>1. \A z \in {x, y} : (\A w \in {x, y} : z >= w) => z = IF x >= y THEN x ELSE y
  OBVIOUS
<1>2. \E z \in {x, y} : \A w \in {x, y} : z >= w
  OBVIOUS
<1> QED BY <1>1, <1>2 DEF Max

-----------------------------------------------------------------------------
(* Folds *)

\* pick takes an element of every set that has one.
Picks(pick, W) == \A u \in SUBSET W : u # {} => pick[u] \in u

\* g and h are the same for the empty set and, if they are for a set less the
\* element taken, for that set.
Agree(g, h, W, pick) ==
  /\ g[{}] = h[{}]
  /\ \A u \in SUBSET W : u # {} /\ g[u \ {pick[u]}] = h[u \ {pick[u]}] => g[u] = h[u]

FoldValue(g, u, pick, base, step) ==
  IF u = {} THEN base ELSE step[<<pick[u], g[u \ {pick[u]}]>>]

\* g is the function that a fold over W is defined by, when the elements of a
\* set are taken in the order of pick.
IsFold(g, W, pick, base, step) ==
  \A u \in SUBSET W : g[u] = FoldValue(g, u, pick, base, step)

SameUpto(g, h, W, k) == \A u \in SUBSET W : Cardinality(u) <= k => g[u] = h[u]

\* Two functions of the subsets of a finite set that agree are the same.
LEMMA FoldUnique ==
  ASSUME NEW W, IsFiniteSet(W), NEW pick, Picks(pick, W), NEW g, NEW h, Agree(g, h, W, pick)
  PROVE  \A u \in SUBSET W : g[u] = h[u]
<1> DEFINE Same(k) == SameUpto(g, h, W, k)
           T == {k \in Nat : Same(k)}
<1>1. \A u \in SUBSET W :
        IsFiniteSet(u) /\ Cardinality(u) \in Nat /\ (Cardinality(u) = 0 <=> u = {})
  BY FS_Subset, FS_CardinalityType, FS_EmptySet
<1>2. Same(0)
  <2>1. \A u \in SUBSET W : Cardinality(u) <= 0 => u = {}
    BY <1>1
  <2> QED BY <2>1 DEF SameUpto, Agree
<1>3. ASSUME NEW k \in Nat, Same(k) PROVE Same(k + 1)
  <2> SUFFICES ASSUME NEW u \in SUBSET W, Cardinality(u) <= k + 1, u # {}
               PROVE  g[u] = h[u]
    BY DEF SameUpto, Agree
  <2>0. pick[u] \in u /\ IsFiniteSet(u)
    BY <1>1 DEF Picks
  <2>1. u \ {pick[u]} \in SUBSET W /\ Cardinality(u \ {pick[u]}) = Cardinality(u) - 1
    BY <2>0, FS_RemoveElement
  <2>2. Cardinality(u \ {pick[u]}) <= k
    BY <1>1, <2>1
  <2>3. g[u \ {pick[u]}] = h[u \ {pick[u]}]
    BY <1>3, <2>1, <2>2 DEF SameUpto
  <2> QED BY <2>3 DEF Agree
<1>4. \A k \in Nat : k \in T <=> Same(k)
  OBVIOUS
<1>5. \A k \in Nat : Same(k)
  <2> HIDE DEF T, Same
  <2> QED BY <1>2, <1>3, <1>4, CountUp
<1> QED BY <1>1, <1>5 DEF SameUpto

FoldUpto(k, W, pick, D, base, step) ==
  \E g \in [SUBSET W -> D] :
    \A u \in SUBSET W : Cardinality(u) <= k => g[u] = FoldValue(g, u, pick, base, step)

\* A fold over a finite set, whose steps stay in D, is well defined and in D.
LEMMA FoldExists ==
  ASSUME NEW W, IsFiniteSet(W), NEW pick, Picks(pick, W),
         NEW D, NEW base \in D, NEW step, \A x \in W, d \in D : step[<<x, d>>] \in D
  PROVE  \E g \in [SUBSET W -> D] : IsFold(g, W, pick, base, step)
<1> DEFINE value(g, u) == FoldValue(g, u, pick, base, step)
           Upto(k) == FoldUpto(k, W, pick, D, base, step)
           T == {k \in Nat : Upto(k)}
<1>1. \A u \in SUBSET W : IsFiniteSet(u) /\ Cardinality(u) \in Nat /\ (Cardinality(u) = 0 <=> u = {})
  BY FS_Subset, FS_CardinalityType, FS_EmptySet
<1>2. Upto(0)
  <2> DEFINE g == [u \in SUBSET W |-> base]
  <2>1. g \in [SUBSET W -> D] /\ \A u \in SUBSET W : u = {} => g[u] = value(g, u)
    BY DEF FoldValue
  <2>2. \A u \in SUBSET W : Cardinality(u) <= 0 => u = {}
    BY <1>1
  <2> HIDE DEF g
  <2> QED BY <2>1, <2>2 DEF FoldUpto
<1>3. ASSUME NEW k \in Nat, Upto(k) PROVE Upto(k + 1)
  <2>1. PICK g \in [SUBSET W -> D] : \A u \in SUBSET W : Cardinality(u) <= k => g[u] = value(g, u)
    BY <1>3 DEF FoldUpto
  <2> DEFINE h == [u \in SUBSET W |-> value(g, u)]
  <2>2. h \in [SUBSET W -> D]
    <3> SUFFICES ASSUME NEW u \in SUBSET W PROVE value(g, u) \in D
      OBVIOUS
    <3>1. u \ {pick[u]} \in SUBSET W
      OBVIOUS
    <3>2. g[u \ {pick[u]}] \in D
      BY <3>1
    <3> QED BY <3>2 DEF FoldValue, Picks
  <2>3. \A u \in SUBSET W : Cardinality(u) <= k => h[u] = g[u]
    BY <2>1
  <2>4. ASSUME NEW u \in SUBSET W, Cardinality(u) <= k + 1 PROVE h[u] = value(h, u)
    <3>1. CASE u = {}
      BY <3>1 DEF FoldValue
    <3>2. CASE u # {}
      <4>1. u \ {pick[u]} \in SUBSET W /\ Cardinality(u \ {pick[u]}) = Cardinality(u) - 1
        BY <1>1, <3>2, FS_RemoveElement DEF Picks
      <4>2. Cardinality(u \ {pick[u]}) <= k
        BY <1>1, <2>4, <4>1
      <4>3. h[u \ {pick[u]}] = g[u \ {pick[u]}]
        BY <2>3, <4>1, <4>2
      <4>4. h[u] = value(g, u)
        OBVIOUS
      <4> HIDE DEF h
      <4> QED BY <4>3, <4>4 DEF FoldValue
    <3> QED BY <3>1, <3>2
  <2> HIDE DEF h
  <2> QED BY <2>2, <2>4 DEF FoldUpto
<1>6. \A k \in Nat : k \in T <=> Upto(k)
  OBVIOUS
<1>4. Upto(Cardinality(W))
  <2> HIDE DEF T, Upto
  <2> QED BY <1>1, <1>2, <1>3, <1>6, CountUp
<1>5. PICK g \in [SUBSET W -> D] : \A u \in SUBSET W : Cardinality(u) <= Cardinality(W) => g[u] = value(g, u)
  BY <1>4 DEF FoldUpto
<1>7. \A u \in SUBSET W : Cardinality(u) <= Cardinality(W)
  BY FS_Subset
<1>8. IsFold(g, W, pick, base, step)
  BY <1>5, <1>7 DEF IsFold
<1> QED BY <1>8

\* The largest member of a set of places in a sequence is one of them.
LEMMA LastPlace ==
  ASSUME NEW n \in Nat
  PROVE  /\ \A u \in SUBSET (1..n) : u # {} => Max(u) \in u
         /\ \A i \in 1..n : Max(1..i) = i /\ (1..i) \ {i} = 1..(i - 1)
<1>1. ASSUME NEW u \in SUBSET (1..n), u # {} PROVE Max(u) \in u
  <2>1. u \subseteq Int /\ n \in Int /\ \A x \in u : x <= n
    OBVIOUS
  <2> QED BY <1>1, <2>1, MaxOfBounded
<1>2. ASSUME NEW i \in 1..n PROVE Max(1..i) = i /\ (1..i) \ {i} = 1..(i - 1)
  <2>1. 1..i \subseteq Int /\ i \in 1..i /\ i \in Int /\ \A x \in 1..i : x <= i
    OBVIOUS
  <2>2. Max(1..i) \in 1..i /\ \A x \in 1..i : x <= Max(1..i)
    BY <2>1, MaxOfBounded
  <2> QED BY <2>1, <2>2
<1> QED BY <1>1, <1>2

-----------------------------------------------------------------------------
(* Sums *)

\* f is the sequence of the sums of the first elements of s.
Partials(f, s) ==
  /\ f \in [0..Len(s) -> Int]
  /\ f[0] = 0 /\ \A i \in 1..Len(s) : f[i] = f[i - 1] + s[i]

\* SumOf is the last of the partial sums.
LEMMA SumHasPartials ==
  ASSUME NEW s \in Seq(Int)
  PROVE  \E f : Partials(f, s) /\ SumOf(s) = f[Len(s)]
<1> DEFINE n == Len(s)
           W == 1..n
           pick == [u \in SUBSET W |-> Max(u)]
           step == [p \in W \X Int |-> p[2] + s[p[1]]]
           Is(it) == it = [u \in SUBSET W |-> IF u = {} THEN 0 ELSE it[u \ {Max(u)}] + s[Max(u)]]
           iter == CHOOSE it : Is(it)
           f == [i \in 0..n |-> iter[1..i]]
<1>1. n \in Nat /\ DOMAIN s = W /\ IsFiniteSet(W) /\ \A i \in W : s[i] \in Int
  BY FS_Interval
<1>2. \A u \in SUBSET W : u # {} => pick[u] \in u /\ pick[u] = Max(u)
  BY <1>1, LastPlace
<1>3. \A x \in W, d \in Int : step[<<x, d>>] = d + s[x] /\ step[<<x, d>>] \in Int
  BY <1>1
<1>4. PICK g \in [SUBSET W -> Int] : IsFold(g, W, pick, 0, step)
  <2>1. IsFiniteSet(W) /\ 0 \in Int
    BY <1>1
  <2>2. Picks(pick, W)
    BY <1>2 DEF Picks
  <2>3. \A x \in W, d \in Int : step[<<x, d>>] \in Int
    BY <1>3
  <2> HIDE DEF W, pick, step
  <2> QED BY <2>1, <2>2, <2>3, FoldExists
<1>5. ASSUME NEW u \in SUBSET W
      PROVE  g[u] = IF u = {} THEN 0 ELSE g[u \ {Max(u)}] + s[Max(u)]
  <2>1. g[u] = IF u = {} THEN 0 ELSE step[<<pick[u], g[u \ {pick[u]}]>>]
    BY <1>4 DEF IsFold, FoldValue
  <2>2. u \ {Max(u)} \in SUBSET W /\ g[u \ {Max(u)}] \in Int
    OBVIOUS
  <2>3. u # {} => Max(u) \in W
    BY <1>2
  <2> HIDE DEF W, pick, step
  <2> QED BY <1>2, <1>3, <2>1, <2>2, <2>3
<1>6. Is(g)
  BY <1>5
<1>7. Is(iter)
  BY <1>6
<1>8. SumOf(s) = iter[W]
  BY <1>1 DEF SumOf, FoldLeft, MapThenFoldSet
<1> HIDE DEF iter
<1>9. \A u \in SUBSET W : iter[u] = g[u]
  <2>1. ASSUME NEW u \in SUBSET W
        PROVE  iter[u] = IF u = {} THEN 0 ELSE iter[u \ {Max(u)}] + s[Max(u)]
    BY <1>7
  <2>2. iter[{}] = g[{}]
    BY <1>5, <2>1
  <2>3. ASSUME NEW u \in SUBSET W, u # {}, iter[u \ {pick[u]}] = g[u \ {pick[u]}]
        PROVE  iter[u] = g[u]
    <3>1. pick[u] = Max(u)
      BY <1>2, <2>3
    <3>2. iter[u] = iter[u \ {Max(u)}] + s[Max(u)] /\ g[u] = g[u \ {Max(u)}] + s[Max(u)]
      BY <1>5, <2>1, <2>3
    <3> QED BY <2>3, <3>1, <3>2
  <2>4. IsFiniteSet(W) /\ Picks(pick, W)
    BY <1>1, <1>2 DEF Picks
  <2> HIDE DEF W, pick
  <2>5. Agree(iter, g, W, pick)
    BY <2>2, <2>3 DEF Agree
  <2> QED BY <2>4, <2>5, FoldUnique
<1>10. ASSUME NEW i \in 1..n PROVE g[1..i] = g[1..(i - 1)] + s[i]
  <2>1. 1..i \in SUBSET W /\ i \in 1..i
    BY <1>1
  <2>2. Max(1..i) = i /\ (1..i) \ {i} = 1..(i - 1)
    BY <1>1, LastPlace
  <2> DEFINE u == 1..i
  <2>3. g[u] = IF u = {} THEN 0 ELSE g[u \ {Max(u)}] + s[Max(u)]
    BY <1>5, <2>1
  <2>4. u # {}
    BY <2>1
  <2> QED BY <2>2, <2>3, <2>4
<1>11. \A i \in 0..n : 1..i \in SUBSET W
  OBVIOUS
<1>12. Partials(f, s)
  <2>1. \A i \in 0..n : f[i] = g[1..i] /\ f[i] \in Int
    BY <1>9, <1>11
  <2>2. f[0] = 0
    <3>1. 1..0 = {} /\ {} \in SUBSET W /\ 0 \in 0..n
      OBVIOUS
    <3> QED BY <1>5, <2>1, <3>1
  <2>3. \A i \in 1..n : i \in 0..n /\ i - 1 \in 0..n
    OBVIOUS
  <2>4. \A i \in 1..n : f[i] = f[i - 1] + s[i]
    BY <1>10, <2>1, <2>3
  <2>5. f \in [0..n -> Int]
    BY <2>1
  <2> QED BY <2>2, <2>4, <2>5 DEF Partials
<1>13. SumOf(s) = f[n]
  BY <1>8
<1> QED BY <1>12, <1>13

\* There is one sequence of partial sums.
LEMMA SumIsLast ==
  ASSUME NEW s \in Seq(Int), NEW f, Partials(f, s)
  PROVE  SumOf(s) = f[Len(s)]
<1>1. PICK g : Partials(g, s) /\ SumOf(s) = g[Len(s)]
  BY SumHasPartials
<1> DEFINE T == {k \in Nat : k <= Len(s) => f[k] = g[k]}
<1>2. 0 \in T
  BY <1>1 DEF Partials
<1>3. ASSUME NEW k \in Nat, k \in T PROVE k + 1 \in T
  <2> SUFFICES ASSUME k + 1 <= Len(s) PROVE f[k + 1] = g[k + 1]
    OBVIOUS
  <2>1. k + 1 \in 1..Len(s) /\ (k + 1) - 1 = k /\ f[k] = g[k]
    BY <1>3
  <2> QED BY <1>1, <2>1 DEF Partials
<1>4. Len(s) \in T
  <2> HIDE DEF T
  <2> QED BY <1>2, <1>3, CountUp
<1> QED BY <1>1, <1>4

\* Nothing sums to zero.
LEMMA SumOfNothing == SumOf(<<>>) = 0
<1> DEFINE f == [i \in 0..0 |-> 0]
<1>1. <<>> \in Seq(Int) /\ Len(<<>>) = 0
  OBVIOUS
<1>2. Partials(f, <<>>)
  BY DEF Partials
<1>3. f[0] = 0
  OBVIOUS
<1> HIDE DEF f
<1> QED BY <1>1, <1>2, <1>3, SumIsLast

\* The sum of integers is one, and that of natural numbers is one.
LEMMA SumType ==
  ASSUME NEW s \in Seq(Int)
  PROVE  SumOf(s) \in Int /\ (s \in Seq(Nat) => SumOf(s) \in Nat)
<1>1. PICK f : Partials(f, s) /\ SumOf(s) = f[Len(s)]
  BY SumHasPartials
<1>2. SumOf(s) \in Int
  BY <1>1 DEF Partials
<1>3. ASSUME s \in Seq(Nat) PROVE f[Len(s)] \in Nat
  <2> DEFINE T == {k \in Nat : k <= Len(s) => f[k] \in Nat}
  <2>1. 0 \in T
    BY <1>1 DEF Partials
  <2>2. ASSUME NEW k \in Nat, k \in T PROVE k + 1 \in T
    <3> SUFFICES ASSUME k + 1 <= Len(s) PROVE f[k + 1] \in Nat
      OBVIOUS
    <3>1. k + 1 \in 1..Len(s) /\ (k + 1) - 1 = k /\ f[k] \in Nat
      BY <2>2
    <3>2. s[k + 1] \in Nat
      BY <1>3, <3>1
    <3> QED BY <1>1, <3>1, <3>2 DEF Partials
  <2>3. Len(s) \in T
    <3> HIDE DEF T
    <3> QED BY <2>1, <2>2, CountUp
  <2> QED BY <2>3
<1> QED BY <1>1, <1>2, <1>3

\* The sum of a sequence with one element more at its end.
LEMMA SumOfAppend ==
  ASSUME NEW s \in Seq(Int), NEW e \in Int
  PROVE  SumOf(Append(s, e)) = SumOf(s) + e
<1>1. PICK f : Partials(f, s) /\ SumOf(s) = f[Len(s)]
  BY SumHasPartials
<1> DEFINE t == Append(s, e)
           n == Len(s)
           g == [i \in 0..(n + 1) |-> IF i = n + 1 THEN f[n] + e ELSE f[i]]
<1>2. t \in Seq(Int) /\ Len(t) = n + 1 /\ n \in Nat
      /\ t[n + 1] = e /\ \A i \in 1..n : t[i] = s[i]
  OBVIOUS
<1>3. \A i \in 0..n : f[i] \in Int
  BY <1>1 DEF Partials
<1>4. g \in [0..(n + 1) -> Int]
  BY <1>2, <1>3
<1>5. g[0] = 0
  BY <1>1, <1>2 DEF Partials
<1>6. ASSUME NEW i \in 1..(n + 1) PROVE g[i] = g[i - 1] + t[i]
  <2>1. CASE i = n + 1
    BY <1>2, <2>1
  <2>2. CASE i # n + 1
    <3>1. i \in 1..n /\ g[i] = f[i] /\ g[i - 1] = f[i - 1] /\ t[i] = s[i]
      BY <1>2, <2>2
    <3> QED BY <1>1, <3>1 DEF Partials
  <2> QED BY <2>1, <2>2
<1>7. g[n + 1] = f[n] + e
  BY <1>2
<1> HIDE DEF g, t
<1>8. Partials(g, t)
  BY <1>2, <1>4, <1>5, <1>6 DEF Partials
<1>9. SumOf(t) = g[n + 1]
  BY <1>2, <1>8, SumIsLast
<1> QED BY <1>1, <1>7, <1>9 DEF t

\* The sum of a sequence with one element more at its front.
LEMMA SumOfPrepend ==
  ASSUME NEW s \in Seq(Int), NEW e \in Int
  PROVE  SumOf(<<e>> \o s) = e + SumOf(s)
<1>1. PICK f : Partials(f, s) /\ SumOf(s) = f[Len(s)]
  BY SumHasPartials
<1> DEFINE t == <<e>> \o s
           n == Len(s)
           g == [i \in 0..(n + 1) |-> IF i = 0 THEN 0 ELSE e + f[i - 1]]
<1>2. t \in Seq(Int) /\ Len(t) = n + 1 /\ n \in Nat
      /\ t[1] = e /\ \A i \in 1..n : t[i + 1] = s[i]
  OBVIOUS
<1>3. \A i \in 0..n : f[i] \in Int
  BY <1>1 DEF Partials
<1>4. g \in [0..(n + 1) -> Int]
  <2>1. \A i \in 1..(n + 1) : i - 1 \in 0..n
    BY <1>2
  <2> QED BY <1>3, <2>1
<1>5. g[0] = 0
  BY <1>2
<1>6. ASSUME NEW i \in 1..(n + 1) PROVE g[i] = g[i - 1] + t[i]
  <2>1. CASE i = 1
    <3>1. f[0] = 0 /\ g[1] = e + f[1 - 1] /\ 1 - 1 = 0
      BY <1>1, <1>2 DEF Partials
    <3> QED BY <1>2, <1>5, <2>1, <3>1
  <2>2. CASE i # 1
    <3>1. i - 1 \in 1..n /\ i \in 0..(n + 1) /\ i - 1 \in 0..(n + 1) /\ i # 0 /\ i - 1 # 0
      BY <1>2, <2>2
    <3>2. g[i] = e + f[i - 1] /\ g[i - 1] = e + f[(i - 1) - 1]
      BY <3>1
    <3>3. t[(i - 1) + 1] = s[i - 1] /\ (i - 1) + 1 = i
      BY <1>2, <3>1
    <3>4. f[i - 1] = f[(i - 1) - 1] + s[i - 1]
      BY <1>1, <3>1 DEF Partials
    <3>5. f[(i - 1) - 1] \in Int /\ s[i - 1] \in Int
      BY <1>3, <3>1
    <3> HIDE DEF t, g
    <3> QED BY <3>2, <3>3, <3>4, <3>5
  <2> QED BY <2>1, <2>2
<1>7. g[n + 1] = e + f[n]
  BY <1>2
<1> HIDE DEF g, t
<1>8. Partials(g, t)
  BY <1>2, <1>4, <1>5, <1>6 DEF Partials
<1>9. SumOf(t) = g[n + 1]
  BY <1>2, <1>8, SumIsLast
<1> QED BY <1>1, <1>7, <1>9 DEF t

\* The sum of as many times the same number.
LEMMA SumOfSame ==
  ASSUME NEW s \in Seq(Int), NEW e \in Int, \A i \in 1..Len(s) : s[i] = e
  PROVE  SumOf(s) = Len(s) * e
<1> DEFINE f == [i \in 0..Len(s) |-> i * e]
<1>1. f \in [0..Len(s) -> Int] /\ f[0] = 0
  <2>1. \A i \in Int : i * e \in Int
    OBVIOUS
  <2> QED BY <2>1
<1>2. ASSUME NEW i \in 1..Len(s) PROVE f[i] = f[i - 1] + s[i]
  <2>1. i * e = (i - 1) * e + e
    OBVIOUS
  <2>2. f[i] = i * e /\ f[i - 1] = (i - 1) * e
    OBVIOUS
  <2> HIDE DEF f
  <2> QED BY <2>1, <2>2
<1>3. f[Len(s)] = Len(s) * e
  OBVIOUS
<1> HIDE DEF f
<1> QED BY <1>1, <1>2, <1>3, SumIsLast DEF Partials

-----------------------------------------------------------------------------
(* The manager and the space it accounts for *)

Chunk == [bytes_used : Nat, bytes_left : Nat]
Stuff == UNION {Row(a) : a \in Array}
Lines == UNION {[d -> Stuff] : d \in SUBSET Int}
Block == [mem_buffer : Lines, rowsperchunk : Int, cur_start_row : Int,
          first_undef_row : Int, dirty : BOOLEAN, b_s_open : BOOLEAN]
Manager == [small_list : [Pool -> Seq(Chunk)], large_list : [Pool -> Seq(Nat)],
            virt_list : Seq(Array), block : [Array -> Block],
            total_space_allocated : Int, last_rowsperchunk : Int,
            exists : SUBSET Array, file : [Array -> Lines],
            failed : BOOLEAN, state : {"open", "destroyed"}]

SmallSpace(list) ==
  SumOf([i \in DOMAIN list |-> list[i].bytes_used + list[i].bytes_left + PoolHdr])
LargeSpace(list) == SumOf([i \in DOMAIN list |-> list[i] + PoolHdr])

\* SpaceAccounted of any manager.
Accounted(m) ==
  m.total_space_allocated = ControlBlock + PoolSpace(m, "PERMANENT") + PoolSpace(m, "IMAGE")

\* What allocating small and large objects leaves alone.
SameArrays(m, n) ==
  /\ n.virt_list = m.virt_list /\ n.block = m.block
  /\ n.exists = m.exists /\ n.file = m.file /\ n.state = m.state

\* The space of a list of chunks, and with one chunk more.
LEMMA SmallSpaces ==
  ASSUME NEW list \in Seq(Chunk), NEW c \in Chunk
  PROVE  /\ SmallSpace(list) \in Nat
         /\ SmallSpace(Append(list, c)) = SmallSpace(list) + c.bytes_used + c.bytes_left + PoolHdr
<1> DEFINE size(d) == d.bytes_used + d.bytes_left + PoolHdr
           s == [i \in DOMAIN list |-> size(list[i])]
           t == [i \in DOMAIN Append(list, c) |-> size(Append(list, c)[i])]
<1>1. \A d \in Chunk : size(d) \in Nat
  BY MemoryAssumption DEF Chunk
<1>2. s \in Seq(Nat) /\ Len(s) = Len(list) /\ \A i \in 1..Len(list) : s[i] = size(list[i])
  <2>1. DOMAIN list = 1..Len(list) /\ Len(list) \in Nat /\ \A i \in 1..Len(list) : list[i] \in Chunk
    OBVIOUS
  <2>2. s \in [1..Len(list) -> Nat]
    BY <1>1, <2>1
  <2> HIDE DEF size
  <2> QED BY <2>1, <2>2
<1>3. s \in Seq(Int)
  BY <1>2
<1>4. t = Append(s, size(c))
  <2>1. /\ DOMAIN Append(list, c) = 1..(Len(list) + 1) /\ Len(list) \in Nat
        /\ \A i \in 1..Len(list) : Append(list, c)[i] = list[i]
        /\ Append(list, c)[Len(list) + 1] = c
    OBVIOUS
  <2>2. /\ DOMAIN Append(s, size(c)) = 1..(Len(list) + 1)
        /\ \A i \in 1..Len(list) : Append(s, size(c))[i] = size(list[i])
        /\ Append(s, size(c))[Len(list) + 1] = size(c)
    <3> HIDE DEF s, size
    <3> QED BY <1>1, <1>2
  <2>3. \A i \in 1..(Len(list) + 1) : t[i] = Append(s, size(c))[i]
    <3> HIDE DEF s, size
    <3> QED BY <2>1, <2>2
  <2>4. DOMAIN t = 1..(Len(list) + 1)
    BY <2>1
  <2>5. Append(s, size(c)) \in Seq(Nat)
    BY <1>1, <1>2
  <2> DEFINE u == Append(s, size(c))
  <2>6. t = [i \in DOMAIN t |-> t[i]]
    OBVIOUS
  <2>7. u = [i \in DOMAIN u |-> u[i]]
    <3> HIDE DEF u
    <3>1. u \in Seq(Nat)
      BY <2>5 DEF u
    <3> QED BY <3>1
  <2>8. DOMAIN u = DOMAIN t /\ \A i \in DOMAIN t : t[i] = u[i]
    <3> HIDE DEF s, t, size
    <3> QED BY <2>2, <2>3, <2>4
  <2> HIDE DEF s, t, size, u
  <2>9. t = u
    BY <2>6, <2>7, <2>8
  <2> QED BY <2>9 DEF u
<1>5. SmallSpace(list) = SumOf(s) /\ SmallSpace(Append(list, c)) = SumOf(t)
  BY DEF SmallSpace
<1>6. size(c) \in Int /\ SumOf(s) \in Nat
  BY <1>1, <1>2, <1>3, SumType
<1>7. SumOf(t) = SumOf(s) + size(c)
  <2> HIDE DEF s, t, size
  <2> QED BY <1>3, <1>4, <1>6, SumOfAppend
<1> HIDE DEF s, t
<1>8. c.bytes_used \in Nat /\ c.bytes_left \in Nat /\ PoolHdr \in Nat
  BY MemoryAssumption DEF Chunk
<1> QED BY <1>5, <1>6, <1>7, <1>8

\* The space of a list of large objects, and with one more in front.
LEMMA LargeSpaces ==
  ASSUME NEW list \in Seq(Nat), NEW c \in Nat
  PROVE  /\ LargeSpace(list) \in Nat
         /\ LargeSpace(<<c>> \o list) = LargeSpace(list) + c + PoolHdr
<1> DEFINE new == <<c>> \o list
           s == [i \in DOMAIN list |-> list[i] + PoolHdr]
           t == [i \in DOMAIN new |-> new[i] + PoolHdr]
           u == <<c + PoolHdr>> \o s
<1>1. PoolHdr \in Nat
  BY MemoryAssumption
<1>2. DOMAIN list = 1..Len(list) /\ Len(list) \in Nat /\ \A i \in 1..Len(list) : list[i] \in Nat
  OBVIOUS
<1>3. s \in Seq(Nat) /\ Len(s) = Len(list) /\ \A i \in 1..Len(list) : s[i] = list[i] + PoolHdr
  <2>1. s \in [1..Len(list) -> Nat]
    BY <1>1, <1>2
  <2> QED BY <1>2, <2>1
<1>4. s \in Seq(Int) /\ c + PoolHdr \in Int
  BY <1>1, <1>3
<1>5. t = u
  <2>1. /\ DOMAIN new = 1..(Len(list) + 1) /\ new[1] = c
        /\ \A i \in 2..(Len(list) + 1) : new[i] = list[i - 1]
    BY <1>2
  <2>2. /\ u \in Seq(Nat) /\ DOMAIN u = 1..(Len(list) + 1) /\ u[1] = c + PoolHdr
        /\ \A i \in 2..(Len(list) + 1) : u[i] = s[i - 1] /\ i - 1 \in 1..Len(list)
    <3> HIDE DEF s
    <3> QED BY <1>1, <1>2, <1>3
  <2>3. \A i \in 1..(Len(list) + 1) : t[i] = u[i]
    <3> SUFFICES ASSUME NEW i \in 1..(Len(list) + 1) PROVE t[i] = u[i]
      OBVIOUS
    <3>1. t[i] = new[i] + PoolHdr
      BY <2>1
    <3>2. CASE i = 1
      BY <2>1, <2>2, <3>1, <3>2
    <3>3. CASE i # 1
      <4>1. i \in 2..(Len(list) + 1) /\ i - 1 \in 1..Len(list)
        BY <1>2, <3>3
      <4> HIDE DEF s, t, u, new
      <4> QED BY <1>3, <2>1, <2>2, <3>1, <4>1
    <3> QED BY <3>2, <3>3
  <2>4. DOMAIN t = 1..(Len(list) + 1)
    BY <2>1
  <2>5. t = [i \in DOMAIN t |-> t[i]]
    BY <2>4
  <2>6. u = [i \in DOMAIN u |-> u[i]]
    <3> HIDE DEF u
    <3> QED BY <2>2
  <2> HIDE DEF s, t, u, new
  <2> QED BY <2>2, <2>3, <2>4, <2>5, <2>6
<1>6. LargeSpace(list) = SumOf(s) /\ LargeSpace(new) = SumOf(t)
  BY DEF LargeSpace
<1> HIDE DEF s, t, new
<1>7. SumOf(u) = c + PoolHdr + SumOf(s)
  BY <1>4, SumOfPrepend
<1>8. SumOf(s) \in Nat
  BY <1>3, <1>4, SumType
<1> QED BY <1>1, <1>5, <1>6, <1>7, <1>8 DEF new

-----------------------------------------------------------------------------
(* Allocating *)

\* A size is rounded up to a multiple of the alignment, which stays within any
\* multiple of it that bounds the size.
LEMMA RoundUpFacts ==
  ASSUME NEW n \in Nat
  PROVE  /\ RoundUp(n) \in Nat
         /\ n <= MaxAllocChunk - PoolHdr => RoundUp(n) <= MaxAllocChunk - PoolHdr
<1> DEFINE x == (n + AlignType - 1) \div AlignType
           q == MaxAllocChunk \div AlignType - PoolHdr \div AlignType
<1>1. /\ AlignType \in Nat \ {0} /\ PoolHdr \in Nat /\ MaxAllocChunk \in Nat
      /\ PoolHdr % AlignType = 0 /\ MaxAllocChunk % AlignType = 0
  BY MemoryAssumption
<1>2. RoundUp(n) \in Nat /\ x \in Nat /\ RoundUp(n) = x * AlignType
  BY <1>1 DEF RoundUp
<1>3. q \in Int /\ MaxAllocChunk - PoolHdr = q * AlignType
  <2>1. PoolHdr = (PoolHdr \div AlignType) * AlignType /\ PoolHdr \div AlignType \in Int
    BY <1>1
  <2>2. MaxAllocChunk = (MaxAllocChunk \div AlignType) * AlignType /\ MaxAllocChunk \div AlignType \in Int
    BY <1>1
  <2> QED BY <1>1, <2>1, <2>2
<1>4. ASSUME n <= q * AlignType PROVE x <= q
  BY <1>1, <1>3, <1>4
<1> HIDE DEF x, q
<1>5. x <= q => x * AlignType <= q * AlignType
  BY <1>1, <1>2, <1>3
<1> QED BY <1>2, <1>3, <1>4, <1>5

\* What any method that changes only the lists of a pool promises: the manager
\* stays one, its arrays and files are left alone, what it accounted for it still
\* does, and it does not come back from a failure.
Allocated(m, n) ==
  /\ n \in Manager /\ SameArrays(m, n)
  /\ Accounted(m) => Accounted(n)
  /\ m.failed => n.failed
  /\ n.last_rowsperchunk = m.last_rowsperchunk

\* Space taken from malloc is accounted for when as much is added to the lists.
LEMMA PoolSpaces ==
  ASSUME NEW m \in Manager, NEW p \in Pool
  PROVE  /\ PoolSpace(m, p) = SmallSpace(m.small_list[p]) + LargeSpace(m.large_list[p])
         /\ m.small_list[p] \in Seq(Chunk) /\ m.large_list[p] \in Seq(Nat)
         /\ PoolSpace(m, p) \in Nat
<1>1. m.small_list[p] \in Seq(Chunk) /\ m.large_list[p] \in Seq(Nat)
  BY DEF Manager
<1>2. PoolSpace(m, p) = SmallSpace(m.small_list[p]) + LargeSpace(m.large_list[p])
  BY DEF PoolSpace, SmallSpace, LargeSpace
<1>3. [bytes_used |-> 0, bytes_left |-> 0] \in Chunk
  BY DEF Chunk
<1>4. SmallSpace(m.small_list[p]) \in Nat /\ LargeSpace(m.large_list[p]) \in Nat
  BY <1>1, <1>3, SmallSpaces, LargeSpaces
<1> QED BY <1>1, <1>2, <1>4

\* The largest slop that fits is a size.
LEMMA LargestSlop ==
  ASSUME NEW first \in Nat, NEW fits, fits \subseteq Slops(first), fits # {}
  PROVE  Max(fits) \in Nat
<1>1. \A s \in Slops(first) : s \in Nat /\ s <= first
  BY MemoryAssumption DEF Slops
<1>2. fits \subseteq Int /\ first \in Int /\ \A s \in fits : s <= first
  BY <1>1
<1> QED BY <1>1, <1>2, MaxOfBounded

\* A new pool is accounted for, slop included.
LEMMA NewSmallPoolAllocates ==
  ASSUME NEW m \in Manager, NEW p \in Pool, NEW size \in Nat, size <= MaxAllocChunk - PoolHdr,
         NEW heap \in Heap
  PROVE  Allocated(m, NewSmallPool(m, p, size, heap))
<1> DEFINE list == m.small_list[p]
           request == size + PoolHdr
           wish == IF list = <<>> THEN FirstPoolSlop[p] ELSE ExtraPoolSlop[p]
           slop == Min({wish, MaxAllocChunk - request})
           fits == {s \in Slops(slop) : m.total_space_allocated + request + s <= heap}
           c == [bytes_used |-> size, bytes_left |-> Max(fits)]
           n == [m EXCEPT !.total_space_allocated = @ + request + Max(fits),
                          !.small_list[p] = Append(@, c)]
           f == OutOfMemory(m)
<1>1. NewSmallPool(m, p, size, heap) = IF fits = {} THEN f ELSE n
  BY DEF NewSmallPool
<1>2. Allocated(m, f)
  BY DEF Allocated, OutOfMemory, Manager, SameArrays, Accounted, PoolSpace
<1>3. ASSUME fits # {} PROVE Allocated(m, n)
  <2>1. wish \in Nat /\ MaxAllocChunk - request \in Nat /\ request \in Nat
    BY MemoryAssumption
  <2>2. slop \in Nat
    BY <2>1, MinOfTwo
  <2>3. Max(fits) \in Nat
    <3>1. fits \subseteq Slops(slop)
      OBVIOUS
    <3> HIDE DEF fits, slop
    <3> QED BY <1>3, <2>2, <3>1, LargestSlop
  <2> DEFINE slack == Max(fits)
  <2> HIDE DEF fits, slop, wish
  <2>4. c \in Chunk /\ c.bytes_used = size /\ c.bytes_left = slack
    BY <2>3 DEF Chunk
  <2>5. list \in Seq(Chunk) /\ Append(list, c) \in Seq(Chunk)
    BY <2>4 DEF Manager
  <2>6. /\ n.small_list = [m.small_list EXCEPT ![p] = Append(list, c)]
        /\ n.total_space_allocated = m.total_space_allocated + request + slack
        /\ n.large_list = m.large_list /\ n.failed = m.failed /\ SameArrays(m, n)
        /\ n.last_rowsperchunk = m.last_rowsperchunk
    BY DEF Manager, SameArrays
  <2>7. n \in Manager
    <3>1. m.total_space_allocated + request + slack \in Int
      BY <2>1, <2>3 DEF Manager
    <3> HIDE DEF c, list, request, slack
    <3> QED BY <2>5, <3>1 DEF Manager, slack, list
  <2>8. /\ n.small_list[p] = Append(list, c)
        /\ \A q \in Pool : q # p => n.small_list[q] = m.small_list[q]
    BY <2>6 DEF Manager
  <2> HIDE DEF n, c
  <2>9. SmallSpace(Append(list, c)) = SmallSpace(list) + size + slack + PoolHdr
    BY <2>4, <2>5, SmallSpaces
  <2>10. \A q \in Pool :
           /\ PoolSpace(n, q) = SmallSpace(n.small_list[q]) + LargeSpace(n.large_list[q])
           /\ PoolSpace(m, q) = SmallSpace(m.small_list[q]) + LargeSpace(m.large_list[q])
           /\ m.small_list[q] \in Seq(Chunk) /\ m.large_list[q] \in Seq(Nat)
    BY <2>7, PoolSpaces
  <2>11. \A q \in Pool : SmallSpace(m.small_list[q]) \in Nat /\ LargeSpace(m.large_list[q]) \in Nat
    BY <2>4, <2>10, SmallSpaces, LargeSpaces
  <2>12. \A q \in Pool : q # p => PoolSpace(n, q) = PoolSpace(m, q)
    BY <2>6, <2>8, <2>10
  <2>13. PoolSpace(n, p) = PoolSpace(m, p) + request + slack
    <3>1. PoolSpace(n, p) = SmallSpace(list) + size + slack + PoolHdr + LargeSpace(m.large_list[p])
      BY <2>6, <2>8, <2>9, <2>10
    <3>2. PoolSpace(m, p) = SmallSpace(list) + LargeSpace(m.large_list[p])
      BY <2>10
    <3>3. SmallSpace(list) \in Int /\ LargeSpace(m.large_list[p]) \in Int /\ slack \in Int /\ PoolHdr \in Int
      BY <2>3, <2>11, MemoryAssumption DEF slack
    <3> HIDE DEF list
    <3> QED BY <3>1, <3>2, <3>3
  <2>14. Accounted(m) => Accounted(n)
    <3>1. p = "PERMANENT" \/ p = "IMAGE"
      BY DEF Pool
    <3>2. PoolSpace(m, "PERMANENT") \in Int /\ PoolSpace(m, "IMAGE") \in Int
      BY PoolSpaces DEF Pool
    <3>3. request \in Int /\ slack \in Int /\ ControlBlock \in Int
      BY <2>1, <2>3, MemoryAssumption DEF slack
    <3>4. n.total_space_allocated = m.total_space_allocated + request + slack
      BY <2>6
    <3> HIDE DEF request
    <3> QED BY <2>12, <2>13, <3>1, <3>2, <3>3, <3>4 DEF Accounted, Pool
  <2> QED BY <2>6, <2>7, <2>14 DEF Allocated
<1> QED BY <1>1, <1>2, <1>3

\* A small object takes space from what a chunk has left.
LEMMA AllocSmallAllocates ==
  ASSUME NEW m \in Manager, NEW p \in Pool, NEW bytes \in Nat, NEW heap \in Heap
  PROVE  Allocated(m, AllocSmall(m, p, bytes, heap))
<1> DEFINE size == RoundUp(bytes)
           list == m.small_list[p]
           roomy == {i \in DOMAIN list : list[i].bytes_left >= size}
           j == Min(roomy)
           c == [bytes_used |-> list[j].bytes_used + size, bytes_left |-> list[j].bytes_left - size]
           new == [list EXCEPT ![j] = c]
           n == [m EXCEPT !.small_list[p] = new]
<1>1. /\ Allocated(m, m)
      /\ Allocated(m, OutOfMemory(m))
  BY DEF Allocated, OutOfMemory, Manager, SameArrays, Accounted, PoolSpace
<1>2. size \in Nat /\ (bytes <= MaxAllocChunk - PoolHdr => size <= MaxAllocChunk - PoolHdr)
  BY RoundUpFacts
<1>3. bytes <= MaxAllocChunk - PoolHdr => Allocated(m, NewSmallPool(m, p, size, heap))
  <2> HIDE DEF size
  <2> QED BY <1>2, NewSmallPoolAllocates
<1>4. ASSUME roomy # {} PROVE Allocated(m, n)
  <2>1. list \in Seq(Chunk)
    BY DEF Manager
  <2>2. roomy \subseteq Int /\ roomy # {} /\ 0 \in Int /\ \A i \in roomy : 0 <= i
    BY <1>4, <2>1
  <2>3. j \in roomy
    <3> HIDE DEF roomy
    <3> QED BY <2>2, MinOfBounded
  <2>4. j \in DOMAIN list /\ list[j].bytes_left >= size /\ j \in 1..Len(list)
    BY <2>1, <2>3
  <2>5. list[j] \in Chunk
    <3> HIDE DEF list, j
    <3> QED BY <2>1, <2>4
  <2> HIDE DEF roomy, j, size
  <2>6. /\ c \in Chunk
        /\ c.bytes_used + c.bytes_left + PoolHdr = list[j].bytes_used + list[j].bytes_left + PoolHdr
    <3>1. list[j].bytes_used \in Nat /\ list[j].bytes_left \in Nat
      BY <2>5 DEF Chunk
    <3>2. list[j].bytes_used + size \in Nat /\ list[j].bytes_left - size \in Nat
      <4>1. size \in Nat /\ list[j].bytes_left >= size
        BY <1>2, <2>4
      <4> HIDE DEF list
      <4> QED BY <3>1, <4>1
    <3>3. c \in Chunk
      BY <3>2 DEF Chunk
    <3> HIDE DEF list
    <3> QED BY <1>2, <3>1, <3>3, MemoryAssumption
  <2> HIDE DEF c
  <2>7. new \in Seq(Chunk) /\ DOMAIN new = DOMAIN list
        /\ \A i \in DOMAIN list : new[i] = IF i = j THEN c ELSE list[i]
    <3> HIDE DEF list
    <3> QED BY <2>1, <2>4, <2>6
  <2>8. SmallSpace(new) = SmallSpace(list)
    BY <2>6, <2>7 DEF SmallSpace
  <2> HIDE DEF new
  <2>9. n \in Manager
    BY <2>7 DEF Manager
  <2>10. /\ SameArrays(m, n) /\ n.failed = m.failed /\ n.last_rowsperchunk = m.last_rowsperchunk
         /\ n.total_space_allocated = m.total_space_allocated /\ n.large_list = m.large_list
         /\ n.small_list[p] = new
         /\ \A q \in Pool : q # p => n.small_list[q] = m.small_list[q]
    BY DEF Manager, SameArrays
  <2> HIDE DEF n
  <2>11. \A q \in Pool : PoolSpace(n, q) = PoolSpace(m, q)
    BY <2>8, <2>9, <2>10, PoolSpaces
  <2>12. Accounted(m) => Accounted(n)
    BY <2>10, <2>11 DEF Accounted, Pool
  <2> QED BY <2>9, <2>10, <2>12 DEF Allocated
<1>5. AllocSmall(m, p, bytes, heap) =
        IF m.failed THEN m
        ELSE IF bytes > MaxAllocChunk - PoolHdr THEN OutOfMemory(m)
        ELSE IF roomy = {} THEN NewSmallPool(m, p, size, heap) ELSE n
  BY DEF AllocSmall, Manager
<1> HIDE DEF n, roomy, size
<1>6. bytes > MaxAllocChunk - PoolHdr \/ bytes <= MaxAllocChunk - PoolHdr
  BY MemoryAssumption
<1> QED BY <1>1, <1>3, <1>4, <1>5, <1>6

\* A large object is accounted for.
LEMMA AllocLargeAllocates ==
  ASSUME NEW m \in Manager, NEW p \in Pool, NEW bytes \in Nat, NEW heap \in Heap
  PROVE  Allocated(m, AllocLarge(m, p, bytes, heap))
<1> DEFINE size == RoundUp(bytes)
           list == m.large_list[p]
           new == <<size>> \o list
           n == [m EXCEPT !.total_space_allocated = @ + size + PoolHdr, !.large_list[p] = new]
<1>1. /\ Allocated(m, m)
      /\ Allocated(m, OutOfMemory(m))
  BY DEF Allocated, OutOfMemory, Manager, SameArrays, Accounted, PoolSpace
<1>2. size \in Nat
  BY RoundUpFacts
<1> HIDE DEF size
<1>3. AllocLarge(m, p, bytes, heap) =
        IF m.failed THEN m
        ELSE IF bytes > MaxAllocChunk - PoolHdr
                \/ m.total_space_allocated + size + PoolHdr > heap THEN OutOfMemory(m) ELSE n
  BY DEF AllocLarge, size, Manager
<1>4. Allocated(m, n)
  <2>1. list \in Seq(Nat) /\ new \in Seq(Nat)
    BY <1>2 DEF Manager
  <2>2. LargeSpace(new) = LargeSpace(list) + size + PoolHdr
    BY <1>2, <2>1, LargeSpaces
  <2> HIDE DEF new
  <2>3. m.total_space_allocated + size + PoolHdr \in Int
    BY <1>2, MemoryAssumption DEF Manager
  <2>4. n \in Manager
    BY <2>1, <2>3 DEF Manager
  <2>5. /\ SameArrays(m, n) /\ n.failed = m.failed /\ n.last_rowsperchunk = m.last_rowsperchunk
        /\ n.total_space_allocated = m.total_space_allocated + size + PoolHdr
        /\ n.small_list = m.small_list /\ n.large_list[p] = new
        /\ \A q \in Pool : q # p => n.large_list[q] = m.large_list[q]
    BY DEF Manager, SameArrays
  <2> HIDE DEF n
  <2>6. \A q \in Pool :
          /\ PoolSpace(n, q) = SmallSpace(n.small_list[q]) + LargeSpace(n.large_list[q])
          /\ PoolSpace(m, q) = SmallSpace(m.small_list[q]) + LargeSpace(m.large_list[q])
          /\ m.small_list[q] \in Seq(Chunk) /\ m.large_list[q] \in Seq(Nat)
    BY <2>4, PoolSpaces
  <2>7. SmallSpace(m.small_list[p]) \in Nat /\ LargeSpace(list) \in Nat
    <3>1. [bytes_used |-> 0, bytes_left |-> 0] \in Chunk
      BY DEF Chunk
    <3> QED BY <2>1, <2>6, <3>1, SmallSpaces, LargeSpaces
  <2>8. \A q \in Pool : q # p => PoolSpace(n, q) = PoolSpace(m, q)
    BY <2>5, <2>6
  <2>9. PoolSpace(n, p) = PoolSpace(m, p) + size + PoolHdr
    <3>1. PoolSpace(n, p) = SmallSpace(m.small_list[p]) + (LargeSpace(list) + size + PoolHdr)
      BY <2>2, <2>5, <2>6
    <3>2. PoolSpace(m, p) = SmallSpace(m.small_list[p]) + LargeSpace(list)
      BY <2>6
    <3>3. PoolHdr \in Int
      BY MemoryAssumption
    <3> HIDE DEF list
    <3> QED BY <1>2, <2>7, <3>1, <3>2, <3>3
  <2>10. Accounted(m) => Accounted(n)
    <3>1. p = "PERMANENT" \/ p = "IMAGE"
      BY DEF Pool
    <3>2. PoolSpace(m, "PERMANENT") \in Int /\ PoolSpace(m, "IMAGE") \in Int
      BY PoolSpaces DEF Pool
    <3>3. size \in Int /\ PoolHdr \in Int /\ ControlBlock \in Int
      BY <1>2, MemoryAssumption
    <3> QED BY <2>5, <2>8, <2>9, <3>1, <3>2, <3>3 DEF Accounted, Pool
  <2> QED BY <2>4, <2>5, <2>10 DEF Allocated
<1> QED BY <1>1, <1>3, <1>4

\* The chunks of rows: full ones, and at the end what is left.
LEMMA ChunkFacts ==
  ASSUME NEW rowsperchunk \in Nat \ {0}, NEW numrows \in Nat
  PROVE  /\ Chunks(rowsperchunk, numrows) \in Seq(Nat)
         /\ Len(Chunks(rowsperchunk, numrows)) = (numrows + rowsperchunk - 1) \div rowsperchunk
         /\ \A i \in 1..Len(Chunks(rowsperchunk, numrows)) :
              /\ (i - 1) * rowsperchunk \in Nat /\ (i - 1) * rowsperchunk < numrows
              /\ Chunks(rowsperchunk, numrows)[i] =
                   IF rowsperchunk <= numrows - (i - 1) * rowsperchunk THEN rowsperchunk
                   ELSE numrows - (i - 1) * rowsperchunk
<1> DEFINE q == (numrows + rowsperchunk - 1) \div rowsperchunk
           c == Chunks(rowsperchunk, numrows)
<1>1. q \in Nat /\ q * rowsperchunk <= numrows + rowsperchunk - 1
  OBVIOUS
<1>2. c = [i \in 1..q |-> Min({rowsperchunk, numrows - (i - 1) * rowsperchunk})]
  BY DEF Chunks
<1> HIDE DEF q, c
<1>3. ASSUME NEW i \in 1..q
      PROVE  /\ (i - 1) * rowsperchunk \in Nat /\ (i - 1) * rowsperchunk < numrows
             /\ c[i] = IF rowsperchunk <= numrows - (i - 1) * rowsperchunk THEN rowsperchunk
                       ELSE numrows - (i - 1) * rowsperchunk
             /\ c[i] \in Nat
  <2> DEFINE f == (i - 1) * rowsperchunk
  <2>1. i \in Nat /\ i <= q /\ i >= 1
    BY <1>1
  <2>2. i * rowsperchunk <= q * rowsperchunk /\ i * rowsperchunk \in Int /\ q * rowsperchunk \in Int
    BY <1>1, <2>1
  <2>3. f = i * rowsperchunk - rowsperchunk /\ f \in Nat
    BY <2>1
  <2> HIDE DEF f
  <2>4. f < numrows
    BY <1>1, <2>2, <2>3
  <2>5. c[i] = Min({rowsperchunk, numrows - f})
    BY <1>2 DEF f
  <2>6. c[i] = IF rowsperchunk <= numrows - f THEN rowsperchunk ELSE numrows - f
    BY <2>3, <2>5, MinOfTwo
  <2> QED BY <2>3, <2>4, <2>6 DEF f
<1>4. c \in [1..q -> Nat]
  BY <1>2, <1>3
<1>5. c \in Seq(Nat) /\ Len(c) = q
  BY <1>1, <1>4
<1> QED BY <1>3, <1>5 DEF q, c

\* What allocating rows promises, r of them to a chunk.
RowsAllocated(m, n, r) ==
  /\ n \in Manager /\ SameArrays(m, n)
  /\ Accounted(m) => Accounted(n)
  /\ m.failed => n.failed
  /\ n.last_rowsperchunk = r

\* Rows are accounted for, also when malloc gives up half way through them.
LEMMA AllocRowsAllocates ==
  ASSUME NEW m \in Manager, NEW p \in Pool, NEW width \in Nat \ {0}, NEW numrows \in Nat \ {0},
         NEW heap \in Heap
  PROVE  \E r \in Int : /\ RowsAllocated(m, AllocRows(m, p, width, numrows, heap), r)
                        /\ ~AllocRows(m, p, width, numrows, heap).failed => r > 0
<1> DEFINE most == (MaxAllocChunk - PoolHdr) \div width
           r == Min({most, numrows})
           started == [m EXCEPT !.last_rowsperchunk = r]
           pointers == AllocSmall(started, p, numrows * AlignType, heap)
           chunks == Chunks(r, numrows)
           n == AllocRows(m, p, width, numrows, heap)
           rest == FoldLeft(LAMBDA x, rows : AllocLarge(x, p, rows * width, heap), pointers, chunks)
<1>1. most \in Nat
  <2>1. MaxAllocChunk - PoolHdr \in Nat
    BY MemoryAssumption
  <2> QED BY <2>1
<1>2. r \in Nat /\ (most # 0 => r > 0)
  BY <1>1, MinOfTwo
<1>3. n = IF m.failed THEN m
          ELSE IF most = 0 THEN [m EXCEPT !.failed = TRUE] ELSE rest
  BY DEF AllocRows
<1> HIDE DEF most, r
<1>4. CASE m.failed
  <2>1. n = m /\ m.last_rowsperchunk \in Int
    BY <1>3, <1>4 DEF Manager
  <2>2. RowsAllocated(m, n, m.last_rowsperchunk) /\ n.failed
    BY <1>4, <2>1 DEF RowsAllocated, SameArrays
  <2> QED BY <2>1, <2>2
<1>5. CASE ~m.failed /\ most = 0
  <2>1. n = [m EXCEPT !.failed = TRUE] /\ m.last_rowsperchunk \in Int
    BY <1>3, <1>5 DEF Manager
  <2>2. RowsAllocated(m, n, m.last_rowsperchunk) /\ n.failed
    BY <2>1 DEF RowsAllocated, SameArrays, Manager, Accounted, PoolSpace
  <2> QED BY <2>1, <2>2
<1>6. CASE ~m.failed /\ most # 0
  <2>0. r \in Nat \ {0} /\ r \in Int
    BY <1>2, <1>6
  <2>1. n = rest
    <3> HIDE DEF n, rest
    <3> QED BY <1>3, <1>6
  <2>2. RowsAllocated(m, pointers, r)
    <3>1. /\ started \in Manager /\ SameArrays(m, started)
          /\ (Accounted(m) => Accounted(started)) /\ started.failed = m.failed
          /\ started.last_rowsperchunk = r
      BY <2>0 DEF Manager, SameArrays, Accounted, PoolSpace
    <3>2. numrows * AlignType \in Nat
      BY MemoryAssumption
    <3> HIDE DEF started
    <3>3. Allocated(started, pointers)
      BY <3>1, <3>2, AllocSmallAllocates
    <3> HIDE DEF pointers
    <3> QED BY <3>1, <3>3 DEF Allocated, RowsAllocated, SameArrays
  <2> HIDE DEF started, pointers
  <2> DEFINE W == 1..Len(chunks)
             D == {x \in Manager : RowsAllocated(m, x, r)}
             op(x, i) == AllocLarge(x, p, chunks[i] * width, heap)
             pick == [u \in SUBSET W |-> Max(u)]
             step == [q \in W \X D |-> op(q[2], q[1])]
             Is(it) == it = [u \in SUBSET W |-> IF u = {} THEN pointers ELSE op(it[u \ {Max(u)}], Max(u))]
             iter == CHOOSE it : Is(it)
  <2>3. Len(chunks) \in Nat /\ DOMAIN chunks = W /\ \A i \in W : chunks[i] * width \in Nat
    <3>1. chunks \in Seq(Nat)
      BY <2>0, ChunkFacts
    <3>2. \A i \in 1..Len(chunks) : chunks[i] \in Nat
      BY <3>1
    <3>3. \A k \in Nat : k * width \in Nat
      OBVIOUS
    <3> HIDE DEF chunks
    <3> QED BY <3>1, <3>2, <3>3
  <2> HIDE DEF chunks
  <2>4. IsFiniteSet(W) /\ Picks(pick, W) /\ \A u \in SUBSET W : u # {} => pick[u] = Max(u) /\ Max(u) \in W
    <3>1. \A u \in SUBSET W : u # {} => Max(u) \in u
      BY <2>3, LastPlace
    <3>2. IsFiniteSet(W)
      BY <2>3, FS_Interval
    <3> QED BY <3>1, <3>2 DEF Picks
  <2>5. ASSUME NEW x \in D, NEW i \in W PROVE op(x, i) \in D
    <3>1. x \in Manager /\ RowsAllocated(m, x, r)
      OBVIOUS
    <3>2. Allocated(x, op(x, i))
      BY <2>3, <3>1, AllocLargeAllocates
    <3> HIDE DEF op
    <3>3. RowsAllocated(m, op(x, i), r)
      BY <3>1, <3>2 DEF Allocated, RowsAllocated, SameArrays
    <3> QED BY <3>3 DEF RowsAllocated
  <2>6. pointers \in D
    BY <2>2 DEF RowsAllocated
  <2> HIDE DEF op, W, D
  <2>7. \A i \in W, x \in D : step[<<i, x>>] = op(x, i) /\ step[<<i, x>>] \in D
    BY <2>5
  <2>8. PICK g \in [SUBSET W -> D] : IsFold(g, W, pick, pointers, step)
    <3>1. \A i \in W, x \in D : step[<<i, x>>] \in D
      BY <2>7
    <3> HIDE DEF pick, step
    <3> QED BY <2>4, <2>6, <3>1, FoldExists
  <2>9. ASSUME NEW u \in SUBSET W
        PROVE  g[u] = IF u = {} THEN pointers ELSE op(g[u \ {Max(u)}], Max(u))
    <3>1. g[u] = IF u = {} THEN pointers ELSE step[<<pick[u], g[u \ {pick[u]}]>>]
      BY <2>8 DEF IsFold, FoldValue
    <3>2. u \ {Max(u)} \in SUBSET W /\ g[u \ {Max(u)}] \in D
      OBVIOUS
    <3> HIDE DEF pick, step
    <3> QED BY <2>4, <2>7, <3>1, <3>2
  <2>10. Is(g)
    BY <2>9
  <2>11. Is(iter)
    BY <2>10
  <2>12. rest = iter[W]
    BY <2>3 DEF FoldLeft, MapThenFoldSet, op
  <2> HIDE DEF iter
  <2>13. iter[W] = g[W]
    <3>1. ASSUME NEW u \in SUBSET W
          PROVE  iter[u] = IF u = {} THEN pointers ELSE op(iter[u \ {Max(u)}], Max(u))
      BY <2>11
    <3>2. Agree(iter, g, W, pick)
      <4>1. iter[{}] = g[{}]
        BY <2>9, <3>1
      <4>2. \A u \in SUBSET W : u # {} /\ iter[u \ {pick[u]}] = g[u \ {pick[u]}] => iter[u] = g[u]
        BY <2>4, <2>9, <3>1
      <4> HIDE DEF pick
      <4> QED BY <4>1, <4>2 DEF Agree
    <3> HIDE DEF pick
    <3>3. \A u \in SUBSET W : iter[u] = g[u]
      BY <2>4, <3>2, FoldUnique
    <3> QED BY <3>3
  <2>14. g[W] \in D
    OBVIOUS
  <2>15. RowsAllocated(m, n, r)
    <3> HIDE DEF n, rest
    <3> QED BY <2>1, <2>12, <2>13, <2>14 DEF D
  <2> QED BY <2>0, <2>15
<1> HIDE DEF n
<1> QED BY <1>4, <1>5, <1>6

-----------------------------------------------------------------------------
(* The strips of the virtual arrays, and what is in them *)

\* No row of the array is in memory, nor has been.
Bare(b) == b.mem_buffer = NoRows /\ b.first_undef_row = 0 /\ ~b.dirty

\* The buffer holds n rows: all of the array, or as many as an access may ask
\* for while the others are in the file.
Strip(a, b, n) ==
  /\ n \in Nat \ {0} /\ DOMAIN b.mem_buffer = 0..n - 1
  /\ b.rowsperchunk \in Nat \ {0} /\ b.cur_start_row \in Nat
  /\ \/ n = Shape[a].rows /\ b.cur_start_row = 0
     \/ b.b_s_open /\ Shape[a].maxaccess <= n

BlockOK(a, b) ==
  /\ b.first_undef_row \in 0..Shape[a].rows
  /\ Range(b.mem_buffer) \subseteq Row(a)
  /\ Bare(b) \/ \E n \in Nat : Strip(a, b, n)

FileOK(a, f) == DOMAIN f \subseteq Rows(a) /\ Range(f) \subseteq Row(a)

InBuffer(b, r) == r - b.cur_start_row \in DOMAIN b.mem_buffer

\* Where each row of an array is, in the buffer and in the file, and what it reads
\* as: w is what the application wants in it.
RowOK(a, b, f, w, r) ==
  /\ r < b.first_undef_row /\ (~InBuffer(b, r) \/ ~b.dirty) =>
       r \in DOMAIN f /\ (w[r] # "undefined" => f[r] = w[r])
  /\ r < b.first_undef_row /\ InBuffer(b, r) /\ w[r] # "undefined" =>
       b.mem_buffer[r - b.cur_start_row] = w[r]
  /\ r >= b.first_undef_row => w[r] = Untouched(a)[r]

ArrayOK(a, b, f, w) ==
  /\ BlockOK(a, b) /\ FileOK(a, f)
  /\ w \in [Rows(a) -> Row(a)]
  /\ \A r \in Rows(a) : RowOK(a, b, f, w, r)

\* Arrays that are not on the list are bare, and no file outlives the list.
ListOK(m) ==
  /\ IsInjective(m.virt_list)
  /\ \A a \in Array : a \notin Range(m.virt_list) => Bare(m.block[a])
  /\ \A a \in m.exists : a \in Range(m.virt_list) /\ m.block[a].b_s_open

\* The manager accounts for its space, and its list and its arrays are as they should be.
ManagerOK(m, w) ==
  /\ m \in Manager /\ Accounted(m) /\ ListOK(m)
  /\ \A a \in Array : ArrayOK(a, m.block[a], m.file[a], w[a])

\* The rows are in the buffer, and read as they should.
Reads(b, w, from, to) ==
  \A r \in from..to - 1 :
    InBuffer(b, r) /\ (w[r] # "undefined" => b.mem_buffer[r - b.cur_start_row] = w[r])

\* What was granted and not yet filled.
GrantOK ==
  \/ granted = NoGrant
  \/ \E a \in Array :
       LET b == mem.block[a]
       IN  /\ granted.array = {a} /\ granted.from \in Nat /\ granted.to \in Nat
           /\ granted.from < granted.to /\ granted.to <= Shape[a].rows
           /\ granted.writable => b.dirty /\ granted.to <= b.first_undef_row
           /\ Reads(b, wanted[a], granted.from, granted.to)

MemoryInv == ManagerOK(mem, wanted) /\ wanted = [a \in Array |-> wanted[a]] /\ GrantOK

-----------------------------------------------------------------------------
(* Realizing the virtual arrays *)

\* What a function gives for a finite set is one.
LEMMA FiniteImage ==
  ASSUME NEW S, IsFiniteSet(S), NEW f
  PROVE  IsFiniteSet({f[x] : x \in S})
<1> DEFINE T == {f[x] : x \in S}
           g == [x \in S |-> f[x]]
<1>1. g \in Surjection(S, T)
  BY DEF Surjection
<1> HIDE DEF T, g
<1>2. IsFiniteSet(T)
  BY <1>1, FS_Surjection
<1> QED BY <1>2 DEF T

MaxUpto(k) ==
  \A S \in SUBSET Int : IsFiniteSet(S) /\ S # {} /\ Cardinality(S) <= k
                          => \E b \in Int : \A x \in S : x <= b

\* A finite set of integers has a largest one.
LEMMA MaxOfFinite ==
  ASSUME NEW S \in SUBSET Int, IsFiniteSet(S), S # {}
  PROVE  Max(S) \in S
<1> DEFINE T == {k \in Nat : MaxUpto(k)}
<1>1. MaxUpto(0)
  <2>1. \A R \in SUBSET Int : IsFiniteSet(R) /\ Cardinality(R) <= 0 => R = {}
    BY FS_CardinalityType, FS_EmptySet
  <2> QED BY <2>1 DEF MaxUpto
<1>2. ASSUME NEW k \in Nat, MaxUpto(k) PROVE MaxUpto(k + 1)
  <2> SUFFICES ASSUME NEW R \in SUBSET Int, IsFiniteSet(R), R # {}, Cardinality(R) <= k + 1
               PROVE  \E b \in Int : \A x \in R : x <= b
    BY DEF MaxUpto
  <2>1. PICK e \in R : TRUE
    OBVIOUS
  <2>2. R \ {e} \in SUBSET Int /\ IsFiniteSet(R \ {e}) /\ Cardinality(R \ {e}) <= k
    <3>1. Cardinality(R) \in Nat
      BY FS_CardinalityType
    <3>2. IsFiniteSet(R \ {e}) /\ Cardinality(R \ {e}) = Cardinality(R) - 1
      BY <2>1, FS_RemoveElement
    <3> QED BY <3>1, <3>2
  <2>3. CASE R \ {e} = {}
    <3>1. \A x \in R : x <= e
      BY <2>3
    <3> QED BY <2>1, <3>1
  <2>4. CASE R \ {e} # {}
    <3>1. PICK b \in Int : \A x \in R \ {e} : x <= b
      BY <1>2, <2>2, <2>4 DEF MaxUpto
    <3>2. \A x \in R : x <= IF e <= b THEN b ELSE e
      BY <3>1
    <3>3. (IF e <= b THEN b ELSE e) \in Int
      BY <2>1
    <3> QED BY <3>2, <3>3
  <2> QED BY <2>3, <2>4
<1>3. \A k \in Nat : k \in T <=> MaxUpto(k)
  OBVIOUS
<1>4. Cardinality(S) \in Nat
  BY FS_CardinalityType
<1>5. MaxUpto(Cardinality(S))
  <2> HIDE DEF T
  <2> QED BY <1>1, <1>2, <1>3, <1>4, CountUp
<1>6. PICK b \in Int : \A x \in S : x <= b
  BY <1>4, <1>5 DEF MaxUpto
<1> QED BY <1>6, MaxOfBounded

\* One row group of every array that waits takes some space.
LEMMA LeastSpace ==
  ASSUME NEW S \in SUBSET Array, IsFiniteSet(S), S # {}
  PROVE  MapThenSumSet(LAMBDA a : Shape[a].maxaccess * Shape[a].width, S) \in Nat \ {0}
<1> DEFINE some(u) == CHOOSE x \in u : TRUE
           size == [a \in Array |-> Shape[a].maxaccess * Shape[a].width]
           pick == [u \in SUBSET S |-> some(u)]
           step == [q \in S \X Nat |-> size[q[1]] + q[2]]
           Is(it) == it = [u \in SUBSET S |-> IF u = {} THEN 0 ELSE
                             Shape[some(u)].maxaccess * Shape[some(u)].width + it[u \ {some(u)}]]
           iter == CHOOSE it : Is(it)
<1>1. MapThenSumSet(LAMBDA a : Shape[a].maxaccess * Shape[a].width, S) = iter[S]
  BY DEF MapThenSumSet, MapThenFoldSet
<1>2. \A a \in S : size[a] \in Nat \ {0} /\ size[a] = Shape[a].maxaccess * Shape[a].width
  <2>1. \A a \in Array : Shape[a].maxaccess \in Nat \ {0} /\ Shape[a].width \in Nat \ {0}
    BY MemoryAssumption
  <2>2. \A i, j \in Nat \ {0} : i * j \in Nat \ {0}
    OBVIOUS
  <2> QED BY <2>1, <2>2
<1>3. \A u \in SUBSET S : u # {} => some(u) \in u /\ pick[u] = some(u)
  OBVIOUS
<1> HIDE DEF size, some
<1>4. \A a \in S, k \in Nat : step[<<a, k>>] = size[a] + k /\ step[<<a, k>>] \in Nat
  BY <1>2
<1>5. Picks(pick, S)
  BY <1>3 DEF Picks
<1>6. PICK g \in [SUBSET S -> Nat] : IsFold(g, S, pick, 0, step)
  <2>1. 0 \in Nat /\ \A a \in S, k \in Nat : step[<<a, k>>] \in Nat
    BY <1>4
  <2> HIDE DEF pick, step
  <2> QED BY <1>5, <2>1, FoldExists
<1>7. ASSUME NEW u \in SUBSET S
      PROVE  g[u] = IF u = {} THEN 0 ELSE size[some(u)] + g[u \ {some(u)}]
  <2>1. g[u] = IF u = {} THEN 0 ELSE step[<<pick[u], g[u \ {pick[u]}]>>]
    BY <1>6 DEF IsFold, FoldValue
  <2>2. g[u \ {some(u)}] \in Nat
    OBVIOUS
  <2> HIDE DEF pick, step
  <2> QED BY <1>3, <1>4, <2>1, <2>2
<1>8. Is(g)
  <2>1. \A u \in SUBSET S : u # {} => size[some(u)] = Shape[some(u)].maxaccess * Shape[some(u)].width
    BY <1>2, <1>3
  <2> QED BY <1>7, <2>1
<1>9. Is(iter)
  BY <1>8
<1> HIDE DEF iter
<1>10. iter[S] = g[S]
  <2>1. ASSUME NEW u \in SUBSET S
        PROVE  iter[u] = IF u = {} THEN 0 ELSE
                           Shape[some(u)].maxaccess * Shape[some(u)].width + iter[u \ {some(u)}]
    BY <1>9
  <2>2. iter[{}] = g[{}]
    BY <1>7, <2>1
  <2>3. ASSUME NEW u \in SUBSET S, u # {}, iter[u \ {pick[u]}] = g[u \ {pick[u]}]
        PROVE  iter[u] = g[u]
    <3>1. size[some(u)] = Shape[some(u)].maxaccess * Shape[some(u)].width
      BY <1>2, <1>3, <2>3
    <3>2. pick[u] = some(u)
      BY <1>3, <2>3
    <3> QED BY <1>7, <2>1, <2>3, <3>1, <3>2
  <2> HIDE DEF pick, Is
  <2>4. Agree(iter, g, S, pick)
    BY <2>2, <2>3 DEF Agree
  <2>5. \A u \in SUBSET S : iter[u] = g[u]
    BY <1>5, <2>4, FoldUnique
  <2> QED BY <2>5
<1>11. g[S] \in Nat \ {0}
  <2>1. g[S] = size[some(S)] + g[S \ {some(S)}] /\ some(S) \in S /\ g[S \ {some(S)}] \in Nat
    BY <1>3, <1>7
  <2> QED BY <1>2, <2>1
<1> QED BY <1>1, <1>10, <1>11

\* At least one row group of every array is to be in memory.
LEMMA SomeMinheights ==
  ASSUME NEW m \in Manager, Waiting(m) # {}
  PROVE  MaxMinheights(m) \in Nat \ {0}
<1> DEFINE S == Waiting(m)
           heights == {Shape[a].rows : a \in S}
           all == MapThenSumSet(LAMBDA a : Shape[a].rows * Shape[a].width, S)
           least == MapThenSumSet(LAMBDA a : Shape[a].maxaccess * Shape[a].width, S)
<1>1. MaxMinheights(m) = IF MemAvailable(m) >= all THEN Max(heights)
                         ELSE Max({1, MemAvailable(m) \div least})
  BY Zenon DEF MaxMinheights
<1>2. S \in SUBSET Array /\ IsFiniteSet(S)
  <2> DEFINE list == m.virt_list
  <2>1. list \in Seq(Array)
    BY DEF Manager
  <2>2. DOMAIN list = 1..Len(list) /\ Len(list) \in Nat /\ \A i \in 1..Len(list) : list[i] \in Array
    BY <2>1
  <2>3. IsFiniteSet(1..Len(list))
    BY <2>2, FS_Interval
  <2>4. IsFiniteSet({list[i] : i \in 1..Len(list)})
    BY <2>3, FiniteImage
  <2>5. Range(list) = {list[i] : i \in 1..Len(list)}
    BY <2>2 DEF Range
  <2>6. S \in SUBSET Range(list)
    BY DEF Waiting
  <2> HIDE DEF list, S
  <2> QED BY <2>2, <2>4, <2>5, <2>6, FS_Subset
<1> HIDE DEF S
<1>3. Max(heights) \in Nat \ {0}
  <2>1. \A a \in S : Shape[a].rows \in Nat \ {0}
    BY <1>2, MemoryAssumption
  <2>2. heights \in SUBSET (Nat \ {0}) /\ heights \in SUBSET Int /\ heights # {}
    BY <2>1 DEF S
  <2>3. IsFiniteSet(heights)
    <3> DEFINE f == [a \in Array |-> Shape[a].rows]
    <3>1. IsFiniteSet({f[a] : a \in S})
      <4> HIDE DEF f
      <4> QED BY <1>2, FiniteImage
    <3>2. heights = {f[a] : a \in S}
      BY <1>2
    <3> HIDE DEF f, heights
    <3> QED BY <3>1, <3>2
  <2> HIDE DEF heights
  <2> QED BY <2>2, <2>3, MaxOfFinite
<1>4. least \in Nat \ {0}
  BY <1>2, LeastSpace DEF S
<1> HIDE DEF least, all, heights
<1>5. MemAvailable(m) \div least \in Int
  <2>1. MemAvailable(m) \in Int
    BY MemoryAssumption DEF MemAvailable, Manager
  <2> QED BY <1>4, <2>1
<1>6. Max({1, MemAvailable(m) \div least}) \in Nat \ {0}
  BY <1>5, MaxOfTwo
<1> QED BY <1>1, <1>3, <1>6

\* A buffer that nothing was written to yet.
Fresh(a, b) == BlockOK(a, b) /\ b.first_undef_row = 0 /\ ~b.dirty

FilesListed(m) == \A a \in m.exists : a \in Range(m.virt_list) /\ m.block[a].b_s_open

\* What realizing arrays does: those that had no buffer may have a fresh one.
RealizedSome(m, n) ==
  /\ n \in Manager /\ n.virt_list = m.virt_list /\ n.state = m.state
  /\ Accounted(n) /\ FilesListed(n)
  /\ \A a \in Array :
       \/ n.block[a] = m.block[a] /\ n.file[a] = m.file[a]
       \/ /\ Bare(m.block[a]) /\ a \in Range(m.virt_list)
          /\ Fresh(a, n.block[a]) /\ FileOK(a, n.file[a])

\* Nothing, and what an array that is undefined may be, are rows.
LEMMA LinesFacts ==
  ASSUME NEW a \in Array
  PROVE  /\ NoRows \in Lines /\ DOMAIN NoRows = {} /\ Range(NoRows) = {}
         /\ FileOK(a, NoRows) /\ Row(a) \subseteq Stuff
         /\ \A d \in SUBSET Int : \A f : f \in [d -> Row(a)] => f \in Lines
<1>1. Row(a) \subseteq Stuff
  BY DEF Stuff
<1>2. NoRows \in [{} -> Stuff] /\ DOMAIN NoRows = {}
  BY DEF NoRows
<1>3. {} \in SUBSET Int
  OBVIOUS
<1>4. NoRows \in Lines
  BY <1>2, <1>3 DEF Lines
<1>5. Range(NoRows) = {}
  BY <1>2 DEF Range
<1>6. FileOK(a, NoRows)
  BY <1>2, <1>5 DEF FileOK
<1>7. ASSUME NEW d \in SUBSET Int, NEW f, f \in [d -> Row(a)] PROVE f \in Lines
  <2>1. f \in [d -> Stuff]
    BY <1>1, <1>7
  <2> QED BY <2>1 DEF Lines
<1> QED BY <1>1, <1>2, <1>4, <1>5, <1>6, <1>7

\* One turn of the loops: the array has no buffer, then it has a fresh one or
\* the manager has failed, with the file known to be open if there is one.
LEMMA RealizeStep ==
  ASSUME NEW m \in Manager,
         \A a \in Array : BlockOK(a, m.block[a]) /\ FileOK(a, m.file[a]),
         NEW k, RealizedSome(m, k), NEW a \in Array, a \in Range(m.virt_list),
         NEW minheights \in Nat \ {0}, NEW heap \in Heap, NEW disk \in BOOLEAN
  PROVE  RealizedSome(m, Realize(k, a, minheights, heap, disk))
<1> DEFINE shape == Shape[a]
           fits == (shape.rows - 1) \div shape.maxaccess + 1 <= minheights
           rows_in_mem == IF fits THEN shape.rows ELSE minheights * shape.maxaccess
           opened == IF fits THEN k
                     ELSE [k EXCEPT !.exists = @ \cup {a}, !.file[a] = NoRows,
                                    !.block[a].b_s_open = TRUE]
           n == AllocRows(opened, "IMAGE", shape.width, rows_in_mem, heap)
           new == [mem_buffer |-> [i \in 0..rows_in_mem - 1 |-> "undefined"],
                   rowsperchunk |-> n.last_rowsperchunk, cur_start_row |-> 0,
                   first_undef_row |-> 0, dirty |-> FALSE, b_s_open |-> n.block[a].b_s_open]
           done == [n EXCEPT !.block[a] = new]
<1>1. Realize(k, a, minheights, heap, disk) =
        IF k.failed \/ IsRealized(k, a) THEN k
        ELSE IF ~fits /\ ~disk THEN OutOfMemory(k)
        ELSE IF n.failed THEN n ELSE done
  BY DEF Realize
<1>2. k \in Manager /\ k.block[a] \in Block /\ k.file[a] \in Lines
  BY DEF RealizedSome, Manager
<1>3. /\ shape.rows \in Nat \ {0} /\ shape.width \in Nat \ {0} /\ shape.maxaccess \in Nat \ {0}
  BY MemoryAssumption
<1>4. rows_in_mem \in Nat \ {0} /\ (~fits => shape.maxaccess <= rows_in_mem)
  <2>1. minheights * shape.maxaccess \in Nat \ {0} /\ shape.maxaccess <= minheights * shape.maxaccess
    BY <1>3
  <2> QED BY <1>3, <2>1
<1> HIDE DEF shape, fits, rows_in_mem, n
<1>5. CASE k.failed \/ IsRealized(k, a)
  BY <1>1, <1>5
<1>6. RealizedSome(m, OutOfMemory(k))
  BY <1>2 DEF RealizedSome, OutOfMemory, Manager, Accounted, PoolSpace, FilesListed
<1>7. CASE ~k.failed /\ ~IsRealized(k, a)
  <2>1. Bare(m.block[a]) /\ Bare(k.block[a]) /\ BlockOK(a, k.block[a])
    <3>1. BlockOK(a, k.block[a])
      BY DEF RealizedSome, Fresh
    <3>2. ASSUME NEW j, Strip(a, k.block[a], j) PROVE FALSE
      <4>1. 0 \in 0..j - 1 /\ DOMAIN k.block[a].mem_buffer = 0..j - 1
        BY <3>2 DEF Strip
      <4> QED BY <1>7, <4>1 DEF IsRealized
    <3>3. Bare(k.block[a])
      BY <3>1, <3>2 DEF BlockOK
    <3> QED BY <3>1, <3>3 DEF RealizedSome
  <2>2. /\ opened \in Manager /\ Accounted(opened) /\ opened.failed = k.failed
        /\ opened.virt_list = m.virt_list /\ opened.state = m.state
        /\ Bare(opened.block[a]) /\ BlockOK(a, opened.block[a])
        /\ (fits => opened = k) /\ (~fits => opened.block[a].b_s_open)
        /\ FilesListed(opened)
        /\ \A c \in Array : c # a => opened.block[c] = k.block[c] /\ opened.file[c] = k.file[c]
        /\ opened.block[a] \in Block
        /\ (opened.file[a] = k.file[a] \/ opened.file[a] = NoRows)
    <3>1. CASE fits
      BY <1>2, <2>1, <3>1 DEF RealizedSome
    <3>2. CASE ~fits
      <4>1. opened = [k EXCEPT !.exists = @ \cup {a}, !.file[a] = NoRows, !.block[a].b_s_open = TRUE]
        BY <3>2
      <4> HIDE DEF opened
      <4>2. opened.block = [k.block EXCEPT ![a] = [k.block[a] EXCEPT !.b_s_open = TRUE]]
            /\ opened.file = [k.file EXCEPT ![a] = NoRows]
            /\ opened.exists = k.exists \cup {a}
            /\ opened.small_list = k.small_list /\ opened.large_list = k.large_list
            /\ opened.virt_list = k.virt_list
            /\ opened.total_space_allocated = k.total_space_allocated
            /\ opened.last_rowsperchunk = k.last_rowsperchunk
            /\ opened.failed = k.failed /\ opened.state = k.state
        BY <1>2, <4>1 DEF Manager
      <4>3. [k.block[a] EXCEPT !.b_s_open = TRUE] \in Block
        BY <1>2 DEF Block
      <4>4. opened \in Manager
        <5>1. NoRows \in Lines
          BY LinesFacts
        <5> QED BY <1>2, <4>1, <4>3, <5>1 DEF Manager
      <4>5. DOMAIN k.block = Array /\ DOMAIN k.file = Array
        BY <1>2 DEF Manager
      <4>6. /\ opened.block[a].mem_buffer = k.block[a].mem_buffer
            /\ opened.block[a].first_undef_row = k.block[a].first_undef_row
            /\ opened.block[a].dirty = k.block[a].dirty
            /\ opened.block[a].b_s_open
        BY <1>2, <4>2, <4>5 DEF Block
      <4>7. \A c \in Array : c # a => opened.block[c] = k.block[c] /\ opened.file[c] = k.file[c]
        BY <4>2, <4>5
      <4>8. Bare(opened.block[a]) /\ BlockOK(a, opened.block[a])
        BY <2>1, <4>6 DEF Bare, BlockOK
      <4>9. Accounted(opened)
        BY <4>2 DEF RealizedSome, Accounted, PoolSpace
      <4>10. FilesListed(opened)
        BY <4>2, <4>6, <4>7, <1>2 DEF RealizedSome, FilesListed, Manager
      <4>11. opened.file[a] = NoRows /\ opened.block[a] \in Block
        BY <4>2, <4>3, <4>5
      <4> QED BY <3>2, <4>2, <4>4, <4>6, <4>7, <4>8, <4>9, <4>10, <4>11 DEF RealizedSome
    <3> QED BY <3>1, <3>2
  <2> HIDE DEF opened
  <2>3. PICK r \in Int : RowsAllocated(opened, n, r) /\ (~n.failed => r > 0)
    BY <1>3, <1>4, <2>2, AllocRowsAllocates DEF n, Pool
  <2>4. n \in Manager /\ Accounted(n) /\ SameArrays(opened, n) /\ n.last_rowsperchunk = r
    BY <2>2, <2>3 DEF RowsAllocated
  <2>5. FileOK(a, opened.file[a])
    <3>1. FileOK(a, NoRows)
      BY LinesFacts
    <3>2. FileOK(a, k.file[a])
      BY DEF RealizedSome
    <3> QED BY <2>2, <3>1, <3>2
  <2>6. RealizedSome(m, n)
    BY <2>1, <2>2, <2>4, <2>5 DEF RealizedSome, SameArrays, FilesListed, Fresh, Bare
  <2>7. ASSUME ~n.failed PROVE RealizedSome(m, done)
    <3> DEFINE buffer == [i \in 0..rows_in_mem - 1 |-> "undefined"]
    <3>1. n.block = opened.block /\ n.block[a] \in Block /\ n.block[a].b_s_open \in BOOLEAN
      BY <2>2, <2>4 DEF SameArrays, Block
    <3>2. buffer \in Lines /\ DOMAIN buffer = 0..rows_in_mem - 1 /\ Range(buffer) \subseteq Row(a)
      <4>1. buffer \in [0..rows_in_mem - 1 -> Row(a)] /\ 0..rows_in_mem - 1 \in SUBSET Int
        BY <1>4 DEF Row
      <4>2. Range(buffer) \subseteq Row(a)
        BY <4>1 DEF Range
      <4> QED BY <4>1, <4>2, LinesFacts
    <3> HIDE DEF buffer
    <3>3. /\ new.mem_buffer = buffer /\ new.rowsperchunk = r /\ new.cur_start_row = 0
          /\ new.first_undef_row = 0 /\ new.dirty = FALSE /\ new.b_s_open = n.block[a].b_s_open
      BY <2>4 DEF buffer
    <3>4. new \in Block
      BY <2>3, <2>4, <3>1, <3>2 DEF Block, buffer
    <3> HIDE DEF new
    <3>5. Strip(a, new, rows_in_mem)
      <4>1. r \in Nat \ {0}
        BY <2>3, <2>7
      <4>2. rows_in_mem = Shape[a].rows \/ (new.b_s_open /\ Shape[a].maxaccess <= rows_in_mem)
        <5>1. CASE fits
          <6>1. rows_in_mem = shape.rows
            BY <5>1 DEF rows_in_mem
          <6>2. shape.rows = Shape[a].rows
            BY DEF shape
          <6> QED BY <6>1, <6>2
        <5>2. CASE ~fits
          <6>1. opened.block[a].b_s_open /\ Shape[a].maxaccess <= rows_in_mem
            BY <1>4, <2>2, <5>2 DEF shape
          <6>2. new.b_s_open
            BY <3>1, <3>3, <6>1
          <6> QED BY <6>1, <6>2
        <5> QED BY <5>1, <5>2
      <4> QED BY <1>4, <3>2, <3>3, <4>1, <4>2 DEF Strip
    <3>6. Fresh(a, new)
      BY <1>3, <1>4, <3>2, <3>3, <3>5 DEF Fresh, BlockOK, shape
    <3>7. /\ done.block = [n.block EXCEPT ![a] = new]
          /\ done.virt_list = n.virt_list /\ done.state = n.state /\ done.exists = n.exists
          /\ done.file = n.file /\ done.small_list = n.small_list
          /\ done.large_list = n.large_list
          /\ done.total_space_allocated = n.total_space_allocated
      BY <2>4 DEF Manager
    <3>8. done \in Manager
      BY <2>4, <3>4 DEF Manager
    <3> HIDE DEF done
    <3>9. DOMAIN n.block = Array
      BY <2>4 DEF Manager
    <3>10. done.block[a] = new /\ \A c \in Array : c # a => done.block[c] = n.block[c]
      BY <3>7, <3>9
    <3>11. Accounted(done)
      BY <2>4, <3>7 DEF Accounted, PoolSpace
    <3>12. FilesListed(done)
      BY <2>4, <2>6, <3>3, <3>7, <3>10 DEF FilesListed, RealizedSome, Manager
    <3>13. FileOK(a, done.file[a])
      BY <2>4, <2>5, <3>7 DEF SameArrays
    <3>14. done.virt_list = m.virt_list /\ done.state = m.state /\ done.file = n.file
      BY <2>6, <3>7 DEF RealizedSome
    <3> QED BY <2>1, <2>6, <3>6, <3>8, <3>10, <3>11, <3>12, <3>13, <3>14 DEF RealizedSome
  <2> QED BY <1>1, <1>6, <1>7, <2>6, <2>7
<1> QED BY <1>5, <1>7

\* A loop over the list realizes some arrays.
LEMMA RealizePass ==
  ASSUME NEW m \in Manager,
         \A a \in Array : BlockOK(a, m.block[a]) /\ FileOK(a, m.file[a]),
         NEW start, RealizedSome(m, start), NEW kind,
         NEW minheights \in Nat \ {0}, NEW heap \in Heap, NEW disk \in BOOLEAN
  PROVE  RealizedSome(m, RealizeLoop(start, kind, minheights, heap, disk))
<1> DEFINE list == start.virt_list
           W == 1..Len(list)
           D == {x \in Manager : RealizedSome(m, x)}
           op(x, i) == IF list[i] \in kind THEN Realize(x, list[i], minheights, heap, disk) ELSE x
           pick == [u \in SUBSET W |-> Max(u)]
           step == [q \in W \X D |-> op(q[2], q[1])]
           Is(it) == it = [u \in SUBSET W |-> IF u = {} THEN start ELSE op(it[u \ {Max(u)}], Max(u))]
           iter == CHOOSE it : Is(it)
           rest == RealizeLoop(start, kind, minheights, heap, disk)
<1>1. /\ Len(list) \in Nat /\ DOMAIN list = W
      /\ \A i \in W : list[i] \in Array /\ list[i] \in Range(m.virt_list)
  <2>1. list \in Seq(Array) /\ list = m.virt_list
    BY DEF RealizedSome, Manager
  <2> HIDE DEF list
  <2> QED BY <2>1 DEF Range
<1>2. rest = iter[W]
  BY <1>1 DEF RealizeLoop, FoldLeft, MapThenFoldSet
<1>3. /\ IsFiniteSet(W) /\ Picks(pick, W)
      /\ \A u \in SUBSET W : u # {} => pick[u] = Max(u) /\ Max(u) \in W
  <2> HIDE DEF list
  <2>1. \A u \in SUBSET W : u # {} => Max(u) \in u
    BY <1>1, LastPlace
  <2>2. IsFiniteSet(W)
    BY <1>1, FS_Interval
  <2> QED BY <2>1, <2>2 DEF Picks
<1>4. ASSUME NEW x \in D, NEW i \in W PROVE op(x, i) \in D
  <2>1. RealizedSome(m, x) /\ list[i] \in Array /\ list[i] \in Range(m.virt_list)
    BY <1>1
  <2>2. RealizedSome(m, Realize(x, list[i], minheights, heap, disk))
    BY <2>1, RealizeStep
  <2>3. RealizedSome(m, op(x, i))
    BY <2>1, <2>2
  <2> HIDE DEF op
  <2> QED BY <2>3 DEF RealizedSome
<1>5. start \in D
  BY DEF RealizedSome
<1> HIDE DEF list, op, W, D, iter, rest
<1>6. \A i \in W, x \in D : step[<<i, x>>] = op(x, i) /\ step[<<i, x>>] \in D
  BY <1>4
<1>7. PICK g \in [SUBSET W -> D] : IsFold(g, W, pick, start, step)
  <2>1. \A i \in W, x \in D : step[<<i, x>>] \in D
    BY <1>6
  <2> HIDE DEF pick, step
  <2> QED BY <1>3, <1>5, <2>1, FoldExists
<1>8. ASSUME NEW u \in SUBSET W
      PROVE  g[u] = IF u = {} THEN start ELSE op(g[u \ {Max(u)}], Max(u))
  <2>1. g[u] = IF u = {} THEN start ELSE step[<<pick[u], g[u \ {pick[u]}]>>]
    BY <1>7 DEF IsFold, FoldValue
  <2>2. u \ {Max(u)} \in SUBSET W /\ g[u \ {Max(u)}] \in D
    OBVIOUS
  <2> HIDE DEF pick, step
  <2> QED BY <1>3, <1>6, <2>1, <2>2
<1>9. Is(g)
  BY <1>8
<1>10. Is(iter)
  BY <1>9 DEF iter
<1>11. iter[W] = g[W]
  <2>1. ASSUME NEW u \in SUBSET W
        PROVE  iter[u] = IF u = {} THEN start ELSE op(iter[u \ {Max(u)}], Max(u))
    BY <1>10
  <2>2. iter[{}] = g[{}]
    BY <1>8, <2>1
  <2>3. \A u \in SUBSET W : u # {} /\ iter[u \ {pick[u]}] = g[u \ {pick[u]}] => iter[u] = g[u]
    BY <1>3, <1>8, <2>1
  <2> HIDE DEF pick, Is
  <2>4. Agree(iter, g, W, pick)
    BY <2>2, <2>3 DEF Agree
  <2>5. \A u \in SUBSET W : iter[u] = g[u]
    BY <1>3, <2>4, FoldUnique
  <2> QED BY <2>5
<1>12. g[W] \in D
  OBVIOUS
<1>13. RealizedSome(m, rest)
  BY <1>2, <1>11, <1>12 DEF D
<1> QED BY <1>13 DEF rest

\* realize_virt_arrays touches only arrays that have no buffer.
LEMMA RealizeAllRealizes ==
  ASSUME NEW m \in Manager, Accounted(m), FilesListed(m), Waiting(m) # {},
         \A a \in Array : BlockOK(a, m.block[a]) /\ FileOK(a, m.file[a]),
         NEW heap \in Heap, NEW disk \in BOOLEAN
  PROVE  RealizedSome(m, RealizeAll(m, heap, disk))
<1> DEFINE minheights == MaxMinheights(m)
           half == RealizeLoop(m, Sarray, minheights, heap, disk)
<1>1. minheights \in Nat \ {0}
  BY SomeMinheights
<1>2. RealizedSome(m, m)
  BY DEF RealizedSome
<1>3. RealizeAll(m, heap, disk) = RealizeLoop(half, Barray, minheights, heap, disk)
  BY DEF RealizeAll
<1> HIDE DEF minheights, half
<1>4. RealizedSome(m, half)
  BY <1>1, <1>2, RealizePass DEF half
<1> QED BY <1>1, <1>3, <1>4, RealizePass

-----------------------------------------------------------------------------
(* Moving the window of an array *)

\* The least of three integers is one of them, and no greater than any.
LEMMA MinOfThree ==
  ASSUME NEW x \in Int, NEW y \in Int, NEW z \in Int
  PROVE  /\ Min({x, y, z}) \in {x, y, z}
         /\ Min({x, y, z}) <= x /\ Min({x, y, z}) <= y /\ Min({x, y, z}) <= z
<1>1. \E w \in {x, y, z} : \A v \in {x, y, z} : w =< v
  OBVIOUS
<1>2. Min({x, y, z}) \in {x, y, z} /\ \A v \in {x, y, z} : Min({x, y, z}) =< v
  BY <1>1 DEF Min
<1> QED BY <1>2

\* Chunk by chunk, each row of the buffer that is of a defined row of the array
\* goes with that row of the file, and no other is transferred.
LEMMA TransferFacts ==
  ASSUME NEW a \in Array, NEW b, NEW n \in Nat, Strip(a, b, n),
         b.first_undef_row \in 0..Shape[a].rows
  PROVE  /\ \A t \in Transfer(b, a) : /\ t.row \in 0..n - 1 /\ t.at = b.cur_start_row + t.row
                                      /\ t.at < b.first_undef_row
         /\ \A i \in 0..n - 1 : b.cur_start_row + i < b.first_undef_row
              => [row |-> i, at |-> b.cur_start_row + i] \in Transfer(b, a)
<1> DEFINE cur == b.cur_start_row
           undef == b.first_undef_row
           all == Shape[a].rows
           chunk == b.rowsperchunk
           chunks == Chunks(chunk, Cardinality(DOMAIN b.mem_buffer))
           first(k) == (k - 1) * chunk
           rows == [k \in DOMAIN chunks |->
                      Min({chunks[k], undef - (cur + first(k)), all - (cur + first(k))})]
           done == {k \in DOMAIN chunks : \A j \in 1..k : rows[j] > 0}
           offset(k) == cur + SumOf(SubSeq(rows, 1, k - 1))
           moved(k) == {[row |-> first(k) + i, at |-> offset(k) + i] : i \in 0..rows[k] - 1}
           N == Len(chunks)
<1>1. n \in Nat \ {0} /\ chunk \in Nat \ {0} /\ cur \in Nat /\ undef \in 0..all /\ all \in Nat
  BY MemoryAssumption DEF Strip
<1>2. Transfer(b, a) = UNION {moved(k) : k \in done}
  BY DEF Transfer
<1>3. chunks = Chunks(chunk, n)
  <2>1. DOMAIN b.mem_buffer = 0..n - 1
    BY DEF Strip
  <2>2. Cardinality(0..n - 1) = n
    BY <1>1, FS_Interval
  <2> QED BY <2>1, <2>2
<1> HIDE DEF cur, undef, all, chunk, chunks
<1>4. /\ N \in Nat /\ DOMAIN chunks = 1..N /\ N = (n + chunk - 1) \div chunk
      /\ \A k \in 1..N :
           /\ first(k) \in Nat /\ first(k) < n
           /\ chunks[k] = IF chunk <= n - first(k) THEN chunk ELSE n - first(k)
           /\ chunks[k] \in Nat
  <2>1. chunks \in Seq(Nat)
    BY <1>1, <1>3, ChunkFacts
  <2>2. N = (n + chunk - 1) \div chunk
    BY <1>1, <1>3, ChunkFacts
  <2>3. \A k \in 1..N :
           /\ first(k) \in Nat /\ first(k) < n
           /\ chunks[k] = IF chunk <= n - first(k) THEN chunk ELSE n - first(k)
    BY <1>1, <1>3, ChunkFacts
  <2> HIDE DEF first
  <2> QED BY <2>1, <2>2, <2>3
<1> HIDE DEF N
<1>5. ASSUME NEW k \in 1..N
      PROVE  /\ rows[k] \in Int
             /\ rows[k] \in {chunks[k], undef - (cur + first(k)), all - (cur + first(k))}
             /\ rows[k] <= chunks[k] /\ rows[k] <= undef - (cur + first(k))
  <2> DEFINE x == chunks[k]
             y == undef - (cur + first(k))
             z == all - (cur + first(k))
  <2>1. rows[k] = Min({x, y, z})
    BY <1>4
  <2>2. x \in Int /\ y \in Int /\ z \in Int
    <3>1. first(k) \in Nat /\ chunks[k] \in Nat
      BY <1>4
    <3> HIDE DEF first
    <3> QED BY <1>1, <3>1
  <2> HIDE DEF rows, x, y, z
  <2>3. /\ Min({x, y, z}) \in {x, y, z}
        /\ Min({x, y, z}) <= x /\ Min({x, y, z}) <= y /\ Min({x, y, z}) <= z
    BY <2>2, MinOfThree
  <2>4. rows[k] \in {x, y, z} /\ rows[k] <= x /\ rows[k] <= y /\ rows[k] \in Int
    BY <2>1, <2>2, <2>3
  <2> QED BY <2>4 DEF x, y, z
<1>6. ASSUME NEW k \in 1..N, NEW j \in 1..N, j < k PROVE first(j) + chunk <= first(k)
  <2>1. j \in Int /\ k \in Int /\ j <= k - 1
    BY <1>4, <1>6
  <2>2. j * chunk <= (k - 1) * chunk
    BY <1>1, <2>1
  <2>3. j * chunk = (j - 1) * chunk + chunk
    BY <1>1, <2>1
  <2> QED BY <1>1, <2>1, <2>2, <2>3
<1>7. rows \in Seq(Int) /\ Len(rows) = N
  <2>1. rows \in [1..N -> Int]
    BY <1>4, <1>5
  <2>2. N \in Nat
    BY <1>4
  <2> HIDE DEF rows
  <2> QED BY <2>1, <2>2
<1> HIDE DEF first, rows
<1>8. ASSUME NEW k \in done PROVE offset(k) = cur + first(k)
  <2>1. k \in 1..N /\ rows[k] > 0 /\ k \in Nat
    BY <1>4
  <2>2. first(k) < undef - cur /\ first(k) < n
    <3>1. first(k) \in Nat /\ first(k) < n
      BY <1>4, <2>1
    <3>2. rows[k] \in Int /\ rows[k] <= undef - (cur + first(k))
      BY <1>5, <2>1
    <3> HIDE DEF offset, done, moved
    <3> QED BY <1>1, <2>1, <3>1, <3>2
  <2>3. ASSUME NEW j \in 1..(k - 1) PROVE rows[j] = chunk
    <3>1. j \in 1..N /\ j < k
      BY <1>4, <2>1
    <3>2. first(j) + chunk <= first(k) /\ first(j) \in Nat
      BY <1>4, <1>6, <2>1, <3>1
    <3>3. chunks[j] = chunk
      BY <1>1, <1>4, <2>1, <2>2, <3>1, <3>2
    <3>5. chunk <= undef - (cur + first(j)) /\ chunk <= all - (cur + first(j))
      <4>1. first(k) \in Nat
        BY <1>4, <2>1
      <4> HIDE DEF offset, done, moved
      <4> QED BY <1>1, <2>2, <3>2, <4>1
    <3>6. rows[j] \in {chunk, undef - (cur + first(j)), all - (cur + first(j))} /\ rows[j] <= chunk
          /\ rows[j] \in Int
      BY <1>5, <3>1, <3>3
    <3> QED BY <1>1, <3>2, <3>5, <3>6
  <2> DEFINE s == SubSeq(rows, 1, k - 1)
  <2>4. s \in Seq(Int) /\ Len(s) = k - 1 /\ \A j \in 1..(k - 1) : s[j] = rows[j]
    BY <1>7, <2>1
  <2>5. \A j \in 1..Len(s) : s[j] = chunk
    BY <2>3, <2>4
  <2> HIDE DEF s
  <2>6. SumOf(s) = Len(s) * chunk
    <3>1. s \in Seq(Int) /\ chunk \in Int
      BY <1>1, <2>4
    <3> QED BY <2>5, <3>1, SumOfSame
  <2> QED BY <2>4, <2>6 DEF s, first
<1>9. ASSUME NEW t \in Transfer(b, a)
      PROVE  t.row \in 0..n - 1 /\ t.at = cur + t.row /\ t.at < undef
  <2>1. PICK k \in done : t \in moved(k)
    BY <1>2
  <2>2. PICK i \in 0..rows[k] - 1 : t = [row |-> first(k) + i, at |-> offset(k) + i]
    BY <2>1
  <2>3. k \in 1..N /\ offset(k) = cur + first(k)
    BY <1>4, <1>8
  <2>4. t.row = first(k) + i /\ t.at = cur + first(k) + i
    BY <2>2, <2>3
  <2>5. /\ first(k) \in Nat /\ first(k) < n /\ rows[k] \in Int /\ rows[k] <= chunks[k]
        /\ chunks[k] = IF chunk <= n - first(k) THEN chunk ELSE n - first(k)
        /\ rows[k] <= undef - (cur + first(k))
    BY <1>4, <1>5, <2>3
  <2>6. i \in Nat /\ i < rows[k]
    BY <2>5
  <2>7. chunks[k] \in Nat
    BY <1>4, <2>3
  <2> HIDE DEF offset, done
  <2> QED BY <1>1, <2>4, <2>5, <2>6, <2>7
<1>10. ASSUME NEW i \in 0..n - 1, cur + i < undef
       PROVE  [row |-> i, at |-> cur + i] \in Transfer(b, a)
  <2> DEFINE k == i \div chunk + 1
             d == i % chunk
  <2>1. i \in Nat /\ i < n
    BY <1>1
  <2>2. k \in Nat \ {0} /\ d \in 0..chunk - 1 /\ i = (k - 1) * chunk + d
    BY <1>1, <2>1
  <2>3. k <= N
    <3>1. i \div chunk <= (n - 1) \div chunk
      BY <1>1, <2>1
    <3>2. (n + chunk - 1) \div chunk = (n - 1) \div chunk + 1
      BY <1>1
    <3> QED BY <1>1, <1>4, <3>1, <3>2
  <2> HIDE DEF k, d
  <2>4. k \in 1..N /\ i = first(k) + d /\ first(k) \in Nat
    BY <1>4, <2>2, <2>3 DEF first
  <2>5. ASSUME NEW j \in 1..k PROVE rows[j] > 0 /\ first(j) <= first(k)
    <3>1. j \in 1..N
      BY <1>4, <2>4
    <3>2. first(j) <= first(k) /\ first(j) \in Nat
      <4>1. CASE j = k
        BY <1>4, <3>1, <4>1
      <4>2. CASE j # k
        <5>1. j < k
          BY <1>4, <2>4, <3>1, <4>2
        <5>2. first(j) + chunk <= first(k)
          BY <1>6, <2>4, <3>1, <5>1
        <5>3. first(j) \in Nat
          BY <1>4, <3>1
        <5> HIDE DEF offset, done, moved
        <5> QED BY <1>1, <2>4, <5>2, <5>3
      <4> QED BY <4>1, <4>2
    <3>3. chunks[j] > 0 /\ undef - (cur + first(j)) > 0 /\ all - (cur + first(j)) > 0
      <4>1. first(j) < n /\ chunks[j] = IF chunk <= n - first(j) THEN chunk ELSE n - first(j)
        BY <1>4, <3>1
      <4> HIDE DEF offset, done, moved
      <4> QED BY <1>1, <1>10, <2>1, <2>2, <2>4, <3>2, <4>1
    <3> QED BY <1>5, <3>1, <3>2, <3>3
  <2>6. k \in done
    BY <1>4, <2>4, <2>5
  <2>7. d \in 0..rows[k] - 1
    <3>1. chunks[k] > d /\ undef - (cur + first(k)) > d /\ all - (cur + first(k)) > d
      <4>1. first(k) < n /\ chunks[k] = IF chunk <= n - first(k) THEN chunk ELSE n - first(k)
        BY <1>4, <2>4
      <4>2. d \in Nat /\ d < chunk
        BY <1>1, <2>2
      <4> HIDE DEF offset, done, moved
      <4> QED BY <1>1, <1>10, <2>1, <2>4, <4>1, <4>2
    <3>2. rows[k] \in Int /\ rows[k] > d
      BY <1>5, <2>4, <3>1
    <3> QED BY <2>2, <3>2
  <2>8. offset(k) = cur + first(k)
    BY <1>8, <2>6
  <2>9. [row |-> i, at |-> cur + i] = [row |-> first(k) + d, at |-> offset(k) + d]
    <3>1. cur + i = cur + first(k) + d
      BY <1>1, <2>2, <2>4
    <3> HIDE DEF offset
    <3> QED BY <2>4, <2>8, <3>1
  <2>10. [row |-> i, at |-> cur + i] \in moved(k)
    BY <2>7, <2>9
  <2> HIDE DEF moved
  <2> QED BY <1>2, <2>6, <2>10
<1> QED BY <1>9, <1>10 DEF cur, undef

\* The array's block and its file may be changed, nothing else of the manager.
OnlyArray(m, n, a, b, f) ==
  /\ n \in Manager /\ n.block[a] = b /\ n.file[a] = f
  /\ \A c \in Array : c # a => n.block[c] = m.block[c] /\ n.file[c] = m.file[c]
  /\ n.virt_list = m.virt_list /\ n.exists = m.exists /\ n.state = m.state
  /\ n.total_space_allocated = m.total_space_allocated
  /\ n.small_list = m.small_list /\ n.large_list = m.large_list

\* Putting a block and a file in a manager.
LEMMA OnlyArrayFacts ==
  ASSUME NEW m \in Manager, NEW a \in Array, NEW b \in Block, NEW f \in Lines
  PROVE  /\ OnlyArray(m, m, a, m.block[a], m.file[a])
         /\ OnlyArray(m, [m EXCEPT !.block[a] = b], a, b, m.file[a])
         /\ OnlyArray(m, [m EXCEPT !.file[a] = f, !.block[a] = b], a, b, f)
  BY DEF Manager, OnlyArray

\* What is written: each row of the buffer that is defined is then in the file.
LEMMA WriteStoreWrites ==
  ASSUME NEW m \in Manager, NEW a \in Array, BlockOK(a, m.block[a]), FileOK(a, m.file[a]),
         NEW n \in Nat, Strip(a, m.block[a], n)
  PROVE  \E f :
           /\ FileOK(a, f)
           /\ OnlyArray(m, WriteStore(m, a), a, [m.block[a] EXCEPT !.dirty = FALSE], f)
           /\ WriteStore(m, a).failed = m.failed
           /\ \A r \in Rows(a) :
                IF InBuffer(m.block[a], r) /\ r < m.block[a].first_undef_row
                THEN r \in DOMAIN f /\ f[r] = m.block[a].mem_buffer[r - m.block[a].cur_start_row]
                ELSE /\ r \in DOMAIN f <=> r \in DOMAIN m.file[a]
                     /\ r \in DOMAIN f => f[r] = m.file[a][r]
<1> DEFINE b == m.block[a]
           moved == Transfer(b, a)
           at == {t.at : t \in moved}
           row(r) == (CHOOSE t \in moved : t.at = r).row
           old == m.file[a]
           f == [r \in at \cup DOMAIN old |-> IF r \in at THEN b.mem_buffer[row(r)] ELSE old[r]]
           new == [b EXCEPT !.dirty = FALSE]
<1>1. WriteStore(m, a) = [m EXCEPT !.file[a] = f, !.block[a] = new]
  BY DEF WriteStore, Manager
<1>2. b \in Block /\ old \in Lines
  BY DEF Manager
<1>3. new \in Block
  BY <1>2 DEF Block
<1>4. /\ \A t \in moved : /\ t.row \in 0..n - 1 /\ t.at = b.cur_start_row + t.row
                          /\ t.at < b.first_undef_row
      /\ \A i \in 0..n - 1 : b.cur_start_row + i < b.first_undef_row
           => [row |-> i, at |-> b.cur_start_row + i] \in moved
  BY TransferFacts DEF BlockOK
<1>5. /\ n \in Nat \ {0} /\ DOMAIN b.mem_buffer = 0..n - 1 /\ b.cur_start_row \in Nat
      /\ b.first_undef_row \in 0..Shape[a].rows /\ Shape[a].rows \in Nat
  BY MemoryAssumption DEF Strip, BlockOK
<1> HIDE DEF b, moved, old
<1>6. ASSUME NEW r \in at
      PROVE  /\ row(r) \in 0..n - 1 /\ r = b.cur_start_row + row(r) /\ r < b.first_undef_row
  <2>1. \E t \in moved : t.at = r
    OBVIOUS
  <2>2. (CHOOSE t \in moved : t.at = r) \in moved /\ (CHOOSE t \in moved : t.at = r).at = r
    BY <2>1
  <2> QED BY <1>4, <2>2
<1>7. ASSUME NEW r \in Rows(a), r - b.cur_start_row \in 0..n - 1, r < b.first_undef_row
      PROVE  r \in at
  <2> DEFINE i == r - b.cur_start_row
  <2>1. i \in 0..n - 1 /\ b.cur_start_row + i = r
    BY <1>5, <1>7 DEF Rows
  <2>2. [row |-> i, at |-> b.cur_start_row + i] \in moved
    BY <1>4, <1>7, <2>1
  <2> HIDE DEF i
  <2> QED BY <2>1, <2>2
<1> HIDE DEF at, row
<1>8. at \subseteq Rows(a)
  BY <1>5, <1>6 DEF Rows
<1>9. Range(b.mem_buffer) \subseteq Row(a) /\ DOMAIN old \subseteq Rows(a) /\ Range(old) \subseteq Row(a)
  BY DEF BlockOK, FileOK, b, old
<1>10. \A r \in at \cup DOMAIN old : f[r] \in Row(a)
  <2>1. \A r \in at : b.mem_buffer[row(r)] \in Range(b.mem_buffer)
    BY <1>5, <1>6 DEF Range
  <2>2. \A r \in DOMAIN old : old[r] \in Range(old)
    BY DEF Range
  <2> QED BY <1>9, <2>1, <2>2
<1>11. DOMAIN f = at \cup DOMAIN old /\ FileOK(a, f) /\ f \in Lines
  <2>1. f \in [at \cup DOMAIN old -> Row(a)]
    BY <1>10
  <2>2. at \cup DOMAIN old \in SUBSET Rows(a) /\ at \cup DOMAIN old \in SUBSET Int
    <3>1. at \cup DOMAIN old \subseteq Rows(a)
      BY <1>8, <1>9
    <3> QED BY <3>1 DEF Rows
  <2> HIDE DEF f
  <2>3. f \in Lines
    BY <2>1, <2>2, LinesFacts
  <2>4. FileOK(a, f)
    BY <2>1, <2>2 DEF FileOK, Range
  <2> QED BY <2>1, <2>3, <2>4
<1>12. OnlyArray(m, WriteStore(m, a), a, new, f)
  <2>1. f \in Lines
    BY <1>11
  <2> HIDE DEF f, new
  <2>2. OnlyArray(m, [m EXCEPT !.file[a] = f, !.block[a] = new], a, new, f)
    BY <1>3, <2>1, OnlyArrayFacts
  <2> QED BY <1>1, <2>2
<1>13. WriteStore(m, a).failed = m.failed
  <2> HIDE DEF f, new
  <2> QED BY <1>1 DEF Manager
<1>14. ASSUME NEW r \in Rows(a)
       PROVE  IF InBuffer(b, r) /\ r < b.first_undef_row
              THEN r \in DOMAIN f /\ f[r] = b.mem_buffer[r - b.cur_start_row]
              ELSE (r \in DOMAIN f <=> r \in DOMAIN old) /\ (r \in DOMAIN f => f[r] = old[r])
  <2>1. r \in Int
    BY DEF Rows
  <2>2. CASE InBuffer(b, r) /\ r < b.first_undef_row
    <3>1. r \in at
      BY <1>5, <1>7, <2>2 DEF InBuffer
    <3>2. f[r] = b.mem_buffer[row(r)] /\ r \in DOMAIN f
      BY <3>1
    <3>3. row(r) = r - b.cur_start_row
      BY <1>5, <1>6, <2>1, <3>1
    <3> QED BY <2>2, <3>2, <3>3
  <2>3. CASE ~(InBuffer(b, r) /\ r < b.first_undef_row)
    <3>1. r \notin at
      <4>1. ASSUME r \in at PROVE FALSE
        <5>1. row(r) \in 0..n - 1 /\ r - b.cur_start_row = row(r) /\ r < b.first_undef_row
          BY <1>5, <1>6, <2>1, <4>1
        <5> QED BY <1>5, <2>3, <5>1 DEF InBuffer
      <4> QED BY <4>1
    <3> QED BY <2>3, <3>1
  <2> QED BY <2>2, <2>3
<1> HIDE DEF f, new
<1> QED BY <1>11, <1>12, <1>13, <1>14 DEF b, old, new

\* What is read: each row of the window that is defined is then in the buffer.
LEMMA ReadStoreReads ==
  ASSUME NEW m \in Manager, NEW a \in Array, BlockOK(a, m.block[a]), FileOK(a, m.file[a]),
         NEW n \in Nat, Strip(a, m.block[a], n),
         \A r \in Rows(a) : InBuffer(m.block[a], r) /\ r < m.block[a].first_undef_row
                              => r \in DOMAIN m.file[a]
  PROVE  \E g \in [0..n - 1 -> Row(a)] :
           /\ OnlyArray(m, ReadStore(m, a), a, [m.block[a] EXCEPT !.mem_buffer = g], m.file[a])
           /\ ReadStore(m, a).failed = m.failed
           /\ \A r \in Rows(a) :
                InBuffer(m.block[a], r) /\ r < m.block[a].first_undef_row
                  => g[r - m.block[a].cur_start_row] = m.file[a][r]
<1> DEFINE b == m.block[a]
           moved == Transfer(b, a)
           row == {t.row : t \in moved}
           at(i) == (CHOOSE t \in moved : t.row = i).at
           file == m.file[a]
           old == b.mem_buffer
           g == [i \in row \cup DOMAIN old |-> IF i \in row THEN file[at(i)] ELSE old[i]]
           new == [b EXCEPT !.mem_buffer = g]
<1>1. ReadStore(m, a) = [m EXCEPT !.block[a] = new]
  BY DEF ReadStore, Manager
<1>2. b \in Block /\ file \in Lines
  BY DEF Manager
<1>3. /\ \A t \in moved : /\ t.row \in 0..n - 1 /\ t.at = b.cur_start_row + t.row
                          /\ t.at < b.first_undef_row
      /\ \A i \in 0..n - 1 : b.cur_start_row + i < b.first_undef_row
           => [row |-> i, at |-> b.cur_start_row + i] \in moved
  BY TransferFacts DEF BlockOK
<1>4. /\ n \in Nat \ {0} /\ DOMAIN old = 0..n - 1 /\ b.cur_start_row \in Nat
      /\ b.first_undef_row \in 0..Shape[a].rows /\ Shape[a].rows \in Nat
  BY MemoryAssumption DEF Strip, BlockOK
<1>5. \A r \in Rows(a) : InBuffer(b, r) /\ r < b.first_undef_row => r \in DOMAIN file
  OBVIOUS
<1>6. Range(old) \subseteq Row(a) /\ Range(file) \subseteq Row(a)
  BY DEF BlockOK, FileOK
<1> HIDE DEF b, moved, file, old
<1>7. ASSUME NEW i \in row
      PROVE  i \in 0..n - 1 /\ at(i) = b.cur_start_row + i /\ b.cur_start_row + i < b.first_undef_row
  <2>1. \E t \in moved : t.row = i
    OBVIOUS
  <2>2. (CHOOSE t \in moved : t.row = i) \in moved /\ (CHOOSE t \in moved : t.row = i).row = i
    BY <2>1
  <2> QED BY <1>3, <2>2
<1>8. ASSUME NEW i \in 0..n - 1, b.cur_start_row + i < b.first_undef_row PROVE i \in row
  <2>1. [row |-> i, at |-> b.cur_start_row + i] \in moved
    BY <1>3, <1>8
  <2> QED BY <2>1
<1> HIDE DEF row, at
<1>9. ASSUME NEW i \in row PROVE file[at(i)] \in Row(a)
  <2>1. b.cur_start_row + i \in Rows(a)
    BY <1>4, <1>7 DEF Rows
  <2>2. InBuffer(b, b.cur_start_row + i)
    BY <1>4, <1>7 DEF InBuffer, old
  <2>3. at(i) \in DOMAIN file
    BY <1>5, <1>7, <2>1, <2>2
  <2> QED BY <1>6, <2>3 DEF Range
<1>10. g \in [0..n - 1 -> Row(a)]
  <2>1. row \cup DOMAIN old = 0..n - 1
    BY <1>4, <1>7
  <2>2. \A i \in DOMAIN old : old[i] \in Row(a)
    BY <1>6 DEF Range
  <2> QED BY <1>9, <2>1, <2>2
<1>11. new \in Block
  <2>1. 0..n - 1 \in SUBSET Int
    OBVIOUS
  <2> HIDE DEF g
  <2>2. g \in Lines
    BY <1>10, <2>1, LinesFacts
  <2> QED BY <1>2, <2>2 DEF Block
<1>12. ASSUME NEW r \in Rows(a), InBuffer(b, r), r < b.first_undef_row
       PROVE  g[r - b.cur_start_row] = file[r]
  <2> DEFINE i == r - b.cur_start_row
  <2>1. i \in 0..n - 1 /\ b.cur_start_row + i = r
    BY <1>4, <1>12 DEF InBuffer, Rows, old
  <2> HIDE DEF i
  <2>2. i \in row
    BY <1>8, <1>12, <2>1
  <2>3. g[i] = file[at(i)]
    BY <2>2
  <2> HIDE DEF g
  <2>4. g[i] = file[r]
    BY <1>7, <2>1, <2>2, <2>3
  <2> QED BY <2>4 DEF i
<1> HIDE DEF g
<1>13. OnlyArray(m, ReadStore(m, a), a, new, file)
  <2>1. file \in Lines
    BY <1>2
  <2> HIDE DEF new
  <2>2. OnlyArray(m, [m EXCEPT !.block[a] = new], a, new, m.file[a])
    BY <1>11, <2>1, OnlyArrayFacts
  <2> QED BY <1>1, <2>2 DEF file
<1>14. ReadStore(m, a).failed = m.failed
  <2> HIDE DEF new
  <2> QED BY <1>1 DEF Manager
<1> QED BY <1>10, <1>12, <1>13, <1>14 DEF b, file, new

\* Every row defined so far is in the file.
AllInFile(a, undef, f, w) ==
  \A r \in Rows(a) : r < undef => r \in DOMAIN f /\ (w[r] # "undefined" => f[r] = w[r])

\* Before the window moves, what was changed in it is written back.
LEMMA FlushWrites ==
  ASSUME NEW m \in Manager, NEW a \in Array, NEW w,
         ArrayOK(a, m.block[a], m.file[a], w), NEW n \in Nat, Strip(a, m.block[a], n)
  PROVE  LET k == IF m.block[a].dirty THEN WriteStore(m, a) ELSE m
         IN  \E f : /\ FileOK(a, f) /\ AllInFile(a, m.block[a].first_undef_row, f, w)
                    /\ OnlyArray(m, k, a, [m.block[a] EXCEPT !.dirty = FALSE], f)
                    /\ k.failed = m.failed
<1> DEFINE b == m.block[a]
           k == IF b.dirty THEN WriteStore(m, a) ELSE m
           new == [b EXCEPT !.dirty = FALSE]
<1>1. BlockOK(a, b) /\ FileOK(a, m.file[a]) /\ \A r \in Rows(a) : RowOK(a, b, m.file[a], w, r)
  BY DEF ArrayOK
<1>2. b \in Block /\ m.file[a] \in Lines
  BY DEF Manager
<1>3. CASE b.dirty
  <2>1. k = WriteStore(m, a)
    BY <1>3
  <2>2. PICK f : /\ FileOK(a, f)
                 /\ OnlyArray(m, k, a, new, f) /\ k.failed = m.failed
                 /\ \A r \in Rows(a) :
                      IF InBuffer(b, r) /\ r < b.first_undef_row
                      THEN r \in DOMAIN f /\ f[r] = b.mem_buffer[r - b.cur_start_row]
                      ELSE /\ r \in DOMAIN f <=> r \in DOMAIN m.file[a]
                           /\ r \in DOMAIN f => f[r] = m.file[a][r]
    <3> HIDE DEF k
    <3> QED BY <1>1, <2>1, WriteStoreWrites
  <2>3. ASSUME NEW r \in Rows(a), r < b.first_undef_row
        PROVE  r \in DOMAIN f /\ (w[r] # "undefined" => f[r] = w[r])
    <3>1. RowOK(a, b, m.file[a], w, r)
      BY <1>1
    <3>2. CASE InBuffer(b, r)
      BY <2>2, <2>3, <3>1, <3>2 DEF RowOK
    <3>3. CASE ~InBuffer(b, r)
      BY <2>2, <2>3, <3>1, <3>3 DEF RowOK
    <3> QED BY <3>2, <3>3
  <2>4. AllInFile(a, b.first_undef_row, f, w)
    BY <2>3 DEF AllInFile
  <2> HIDE DEF k, new
  <2> QED BY <2>2, <2>4 DEF k, new
<1>4. CASE ~b.dirty
  <2>1. k = m
    BY <1>4
  <2>2. new = b
    BY <1>2, <1>4 DEF Block
  <2>3. AllInFile(a, b.first_undef_row, m.file[a], w)
    BY <1>1, <1>4 DEF AllInFile, RowOK
  <2>4. OnlyArray(m, m, a, b, m.file[a])
    BY <1>2, OnlyArrayFacts
  <2> HIDE DEF k, new, b
  <2>5. OnlyArray(m, k, a, new, m.file[a]) /\ k.failed = m.failed
    BY <2>1, <2>2, <2>4
  <2> QED BY <1>1, <2>3, <2>5 DEF k, new, b
<1> QED BY <1>3, <1>4

\* One change of an array after another.
LEMMA OnlyArrayTwice ==
  ASSUME NEW m, NEW n, NEW k, NEW a \in Array, NEW b, NEW f, NEW c, NEW g,
         OnlyArray(m, n, a, b, f), OnlyArray(n, k, a, c, g)
  PROVE  OnlyArray(m, k, a, c, g)
  BY DEF OnlyArray

\* The window moved: what the access does not find in the buffer it reads, and no
\* row is lost on the way.
Moved(a, m, k, n, w, start_row, end_row) ==
  \E b \in Block, f \in Lines :
    /\ OnlyArray(m, k, a, b, f) /\ ArrayOK(a, b, f, w) /\ Strip(a, b, n)
    /\ b.first_undef_row = m.block[a].first_undef_row /\ b.b_s_open = m.block[a].b_s_open
    /\ ~k.failed => b.cur_start_row <= start_row /\ end_row <= b.cur_start_row + n

\* Moving the window keeps the array, and brings the rows asked for into it.
LEMMA MoveWindowMoves ==
  ASSUME NEW m \in Manager, NEW a \in Array, NEW w,
         ArrayOK(a, m.block[a], m.file[a], w), NEW n \in Nat, Strip(a, m.block[a], n),
         NEW start_row \in Nat, NEW end_row \in Nat, start_row < end_row,
         end_row <= Shape[a].rows, end_row - start_row <= Shape[a].maxaccess
  PROVE  Moved(a, m, MoveWindow(m, a, start_row, end_row), n, w, start_row, end_row)
<1> DEFINE b == m.block[a]
           k == MoveWindow(m, a, start_row, end_row)
           flushed == IF b.dirty THEN WriteStore(m, a) ELSE m
           start == IF start_row > b.cur_start_row THEN start_row ELSE Max({0, end_row - n})
           inside == start_row >= b.cur_start_row /\ end_row <= b.cur_start_row + n
           at == [flushed EXCEPT !.block[a].cur_start_row = start]
<1>1. /\ n \in Nat \ {0} /\ DOMAIN b.mem_buffer = 0..n - 1 /\ b.cur_start_row \in Nat
      /\ b.rowsperchunk \in Nat \ {0}
      /\ b.first_undef_row \in 0..Shape[a].rows /\ Shape[a].rows \in Nat
      /\ Shape[a].maxaccess \in Nat
  BY MemoryAssumption DEF ArrayOK, Strip, BlockOK
<1>2. Cardinality(DOMAIN b.mem_buffer) = n
  <2>1. Cardinality(0..n - 1) = n
    BY <1>1, FS_Interval
  <2> QED BY <1>1, <2>1
<1>3. k = IF inside THEN m
          ELSE IF ~b.b_s_open THEN [m EXCEPT !.failed = TRUE]
          ELSE ReadStore(at, a)
  BY <1>2 DEF MoveWindow
<1>4. b \in Block /\ m.file[a] \in Lines /\ OnlyArray(m, m, a, b, m.file[a])
  <2>1. b \in Block /\ m.file[a] \in Lines
    BY DEF Manager
  <2> QED BY <2>1, OnlyArrayFacts
<1> HIDE DEF k
<1>5. CASE inside
  <2>1. k = m
    BY <1>3, <1>5
  <2> HIDE DEF b
  <2> QED BY <1>1, <1>4, <1>5, <2>1 DEF Moved, b, k
<1>6. CASE ~inside /\ ~b.b_s_open
  <2>1. k = [m EXCEPT !.failed = TRUE]
    BY <1>3, <1>6
  <2>2. OnlyArray(m, k, a, b, m.file[a]) /\ k.failed
    BY <1>4, <2>1 DEF OnlyArray, Manager
  <2> HIDE DEF b
  <2> QED BY <1>4, <2>2 DEF Moved, b, k
<1>7. CASE ~inside /\ b.b_s_open
  <2>1. k = ReadStore(at, a)
    BY <1>3, <1>7
  <2>2. Shape[a].maxaccess <= n
    BY <1>1, <1>7 DEF Strip
  <2>3. start \in Nat /\ start <= start_row /\ end_row <= start + n
    <3>1. Max({0, end_row - n}) = IF 0 >= end_row - n THEN 0 ELSE end_row - n
      BY <1>1, MaxOfTwo
    <3> HIDE DEF b
    <3> QED BY <1>1, <2>2, <3>1
  <2> HIDE DEF start
  <2>4. PICK f : /\ FileOK(a, f) /\ AllInFile(a, b.first_undef_row, f, w)
                 /\ OnlyArray(m, flushed, a, [b EXCEPT !.dirty = FALSE], f)
                 /\ flushed.failed = m.failed
    BY FlushWrites
  <2> HIDE DEF flushed
  <2> DEFINE c == [b EXCEPT !.dirty = FALSE, !.cur_start_row = start]
  <2>5. c \in Block /\ f \in Lines
    <3>1. c \in Block
      <4>1. b \in Block /\ start \in Int
        BY <1>4, <2>3
      <4> HIDE DEF b
      <4> QED BY <4>1 DEF Block
    <3>2. flushed \in Manager /\ flushed.file[a] = f
      BY <2>4 DEF OnlyArray
    <3> QED BY <3>1, <3>2 DEF Manager
  <2>6. OnlyArray(flushed, at, a, c, f)
    <3>1. flushed \in Manager /\ flushed.file[a] = f
      BY <2>4 DEF OnlyArray
    <3>2. flushed.block[a] = [b EXCEPT !.dirty = FALSE]
      BY <2>4 DEF OnlyArray
    <3>3. at = [flushed EXCEPT !.block[a] = c]
      BY <1>4, <3>1, <3>2 DEF Manager, Block
    <3> HIDE DEF at, c
    <3> QED BY <2>5, <3>1, <3>3, OnlyArrayFacts
  <2>7. /\ c.mem_buffer = b.mem_buffer /\ c.rowsperchunk = b.rowsperchunk
        /\ c.cur_start_row = start /\ c.first_undef_row = b.first_undef_row
        /\ ~c.dirty /\ c.b_s_open = b.b_s_open
    BY <1>4 DEF Block
  <2>8. at \in Manager /\ at.block[a] = c /\ at.file[a] = f
    BY <2>6 DEF OnlyArray
  <2> HIDE DEF at, c
  <2>9. Strip(a, c, n)
    BY <1>1, <1>7, <2>2, <2>3, <2>7 DEF Strip
  <2>10. BlockOK(a, c)
    <3>1. Range(c.mem_buffer) \subseteq Row(a)
      BY <2>7 DEF ArrayOK, BlockOK
    <3> QED BY <1>1, <2>7, <2>9, <3>1 DEF BlockOK
  <2>11. \A r \in Rows(a) : InBuffer(c, r) /\ r < c.first_undef_row => r \in DOMAIN f
    BY <2>4, <2>7 DEF AllInFile
  <2>12. PICK g \in [0..n - 1 -> Row(a)] :
           /\ OnlyArray(at, ReadStore(at, a), a, [c EXCEPT !.mem_buffer = g], f)
           /\ ReadStore(at, a).failed = at.failed
           /\ \A r \in Rows(a) : InBuffer(c, r) /\ r < c.first_undef_row
                                   => g[r - c.cur_start_row] = f[r]
    BY <2>4, <2>8, <2>9, <2>10, <2>11, ReadStoreReads
  <2> DEFINE d == [c EXCEPT !.mem_buffer = g]
  <2>13. /\ d.mem_buffer = g /\ d.rowsperchunk = c.rowsperchunk
         /\ d.cur_start_row = start /\ d.first_undef_row = b.first_undef_row
         /\ ~d.dirty /\ d.b_s_open = b.b_s_open
    BY <2>5, <2>7 DEF Block
  <2>14. d \in Block
    BY <2>8, <2>12 DEF OnlyArray, Manager
  <2> HIDE DEF d
  <2>15. OnlyArray(m, k, a, d, f)
    <3>1. OnlyArray(m, at, a, c, f)
      BY <2>4, <2>6, OnlyArrayTwice
    <3>2. OnlyArray(at, k, a, d, f)
      BY <2>1, <2>12 DEF d
    <3> QED BY <3>1, <3>2, OnlyArrayTwice
  <2>16. Strip(a, d, n)
    BY <1>1, <2>7, <2>9, <2>12, <2>13 DEF Strip
  <2>17. BlockOK(a, d)
    <3>1. Range(d.mem_buffer) \subseteq Row(a)
      BY <2>12, <2>13 DEF Range
    <3> QED BY <1>1, <2>13, <2>16, <3>1 DEF BlockOK
  <2>18. ASSUME NEW r \in Rows(a) PROVE RowOK(a, d, f, w, r)
    <3>1. RowOK(a, b, m.file[a], w, r)
      BY DEF ArrayOK
    <3>2. r >= d.first_undef_row => w[r] = Untouched(a)[r]
      BY <2>13, <3>1 DEF RowOK
    <3>3. r < d.first_undef_row => r \in DOMAIN f /\ (w[r] # "undefined" => f[r] = w[r])
      BY <2>4, <2>13 DEF AllInFile
    <3>4. r < d.first_undef_row /\ InBuffer(d, r) => d.mem_buffer[r - d.cur_start_row] = f[r]
      <4>1. InBuffer(d, r) => InBuffer(c, r)
        BY <1>1, <2>7, <2>12, <2>13 DEF InBuffer
      <4> QED BY <2>7, <2>12, <2>13, <4>1
    <3> QED BY <3>2, <3>3, <3>4 DEF RowOK
  <2>19. ArrayOK(a, d, f, w)
    <3>1. w \in [Rows(a) -> Row(a)]
      BY DEF ArrayOK
    <3> QED BY <2>4, <2>17, <2>18, <3>1 DEF ArrayOK
  <2>20. d.cur_start_row <= start_row /\ end_row <= d.cur_start_row + n
    BY <2>3, <2>13
  <2> QED BY <2>5, <2>13, <2>14, <2>15, <2>16, <2>19, <2>20 DEF Moved, k, b
<1> QED BY <1>5, <1>6, <1>7

-----------------------------------------------------------------------------
(* Granting access *)

\* What an access to rows in the buffer makes of the block: undefined rows are
\* zeroed if that was asked for, and are defined from now on for a writer.
Defined(a, b, c, n, from, to, writable) ==
  /\ c.cur_start_row = b.cur_start_row /\ c.rowsperchunk = b.rowsperchunk
  /\ c.b_s_open = b.b_s_open
  /\ writable => c.dirty
  /\ ~writable => c.dirty = b.dirty
  /\ c.first_undef_row = IF writable /\ b.first_undef_row < to THEN to ELSE b.first_undef_row
  /\ b.first_undef_row < to => /\ writable => from <= b.first_undef_row
                               /\ writable \/ Shape[a].pre_zero
  /\ DOMAIN c.mem_buffer = 0..n - 1
  /\ \A i \in 0..n - 1 :
       LET r == i + b.cur_start_row
       IN  c.mem_buffer[i] = IF Shape[a].pre_zero /\ b.first_undef_row <= r /\ from <= r /\ r < to
                             THEN "zero" ELSE b.mem_buffer[i]

\* The array is kept, and the rows may be read.
LEMMA DefinedKeeps ==
  ASSUME NEW a \in Array, NEW b \in Block, NEW c, NEW f, NEW w, NEW n \in Nat,
         NEW writable \in BOOLEAN, ArrayOK(a, b, f, w), Strip(a, b, n), NEW from \in Nat, NEW to \in Nat,
         to <= Shape[a].rows, b.cur_start_row <= from, to <= b.cur_start_row + n,
         Defined(a, b, c, n, from, to, writable)
  PROVE  /\ ArrayOK(a, c, f, w) /\ Reads(c, w, from, to)
         /\ writable => c.dirty /\ to <= c.first_undef_row
<1> DEFINE undef == b.first_undef_row
           cur == b.cur_start_row
<1>1. /\ n \in Nat \ {0} /\ DOMAIN b.mem_buffer = 0..n - 1 /\ cur \in Nat
      /\ undef \in 0..Shape[a].rows /\ Shape[a].rows \in Nat
      /\ Range(b.mem_buffer) \subseteq Row(a)
  BY MemoryAssumption DEF ArrayOK, Strip, BlockOK
<1>2. c.first_undef_row \in 0..Shape[a].rows
  BY <1>1 DEF Defined
<1>3. Range(c.mem_buffer) \subseteq Row(a)
  <2>1. "zero" \in Row(a)
    BY DEF Row
  <2>2. \A i \in 0..n - 1 : b.mem_buffer[i] \in Row(a)
    BY <1>1 DEF Range
  <2>3. \A i \in 0..n - 1 : c.mem_buffer[i] \in Row(a)
    BY <2>1, <2>2 DEF Defined
  <2> QED BY <2>3 DEF Defined, Range
<1>4. Strip(a, c, n)
  BY DEF Strip, Defined
<1>5. BlockOK(a, c)
  BY <1>2, <1>3, <1>4 DEF BlockOK
<1>6. \A r \in Rows(a) : RowOK(a, b, f, w, r)
  BY DEF ArrayOK
<1>7. \A r \in Rows(a) : Untouched(a)[r] = IF Shape[a].pre_zero THEN "zero" ELSE "undefined"
  BY DEF Untouched
<1>8. \A r \in Int : InBuffer(b, r) <=> r - cur \in 0..n - 1
  BY <1>1 DEF InBuffer
<1>9. \A r \in Int : InBuffer(c, r) <=> InBuffer(b, r)
  BY <1>8 DEF InBuffer, Defined
<1>10. ASSUME NEW r \in Rows(a), InBuffer(b, r)
       PROVE  c.mem_buffer[r - cur] = IF Shape[a].pre_zero /\ undef <= r /\ from <= r /\ r < to
                                      THEN "zero" ELSE b.mem_buffer[r - cur]
  <2>1. r \in Int
    BY DEF Rows
  <2>2. r - cur \in 0..n - 1 /\ (r - cur) + cur = r
    BY <1>1, <1>8, <1>10, <2>1
  <2> QED BY <2>2 DEF Defined
<1>11. ASSUME NEW r \in Rows(a), cur <= r, r < cur + n PROVE InBuffer(b, r)
  <2>1. r \in Int
    BY DEF Rows
  <2>2. r - cur \in 0..n - 1
    BY <1>1, <1>11, <2>1
  <2> QED BY <1>8, <2>1, <2>2
<1>12. /\ c.cur_start_row = cur /\ (writable => c.dirty) /\ (~writable => c.dirty = b.dirty)
       /\ c.first_undef_row = IF writable /\ undef < to THEN to ELSE undef
       /\ (undef < to => (writable => from <= undef) /\ (writable \/ Shape[a].pre_zero))
  BY DEF Defined
<1> HIDE DEF undef, cur
<1>13. ASSUME NEW r \in Rows(a) PROVE RowOK(a, c, f, w, r)
  <2>1. r \in Int
    BY DEF Rows
  <2>2. /\ r < undef /\ (~InBuffer(b, r) \/ ~b.dirty) =>
             r \in DOMAIN f /\ (w[r] # "undefined" => f[r] = w[r])
        /\ r < undef /\ InBuffer(b, r) /\ w[r] # "undefined" => b.mem_buffer[r - cur] = w[r]
        /\ r >= undef => w[r] = Untouched(a)[r]
    BY <1>6 DEF RowOK, undef, cur
  <2>3. ASSUME r < c.first_undef_row, r >= undef
        PROVE  writable /\ InBuffer(b, r) /\ from <= r /\ r < to
    <3>1. writable /\ undef < to /\ r < to /\ from <= undef
      BY <1>1, <1>12, <2>1, <2>3
    <3>2. cur <= r /\ r < cur + n
      BY <1>1, <2>1, <2>3, <3>1 DEF cur
    <3> QED BY <1>1, <1>11, <2>1, <2>3, <3>1, <3>2
  <2>4. r < c.first_undef_row /\ (~InBuffer(c, r) \/ ~c.dirty) =>
           r \in DOMAIN f /\ (w[r] # "undefined" => f[r] = w[r])
    <3> SUFFICES ASSUME r < c.first_undef_row, ~InBuffer(c, r) \/ ~c.dirty
                 PROVE  r \in DOMAIN f /\ (w[r] # "undefined" => f[r] = w[r])
      OBVIOUS
    <3>1. ~InBuffer(b, r) \/ ~writable
      BY <1>9, <1>12, <2>1
    <3>2. r < undef
      BY <1>1, <2>1, <2>3, <3>1
    <3>3. ~InBuffer(b, r) \/ ~b.dirty
      BY <1>9, <1>12, <2>1
    <3> QED BY <2>2, <3>2, <3>3
  <2>5. r < c.first_undef_row /\ InBuffer(c, r) /\ w[r] # "undefined"
          => c.mem_buffer[r - c.cur_start_row] = w[r]
    <3> SUFFICES ASSUME r < c.first_undef_row, InBuffer(c, r), w[r] # "undefined"
                 PROVE  c.mem_buffer[r - cur] = w[r]
      BY <1>12
    <3>1. InBuffer(b, r)
      BY <1>9, <2>1
    <3>2. CASE r < undef
      <4>1. ~(undef <= r)
        BY <1>1, <2>1, <3>2
      <4> QED BY <1>10, <2>2, <3>1, <3>2, <4>1
    <3>3. CASE r >= undef
      <4>1. w[r] = "zero" /\ Shape[a].pre_zero
        BY <1>7, <2>2, <3>3
      <4>2. undef <= r /\ from <= r /\ r < to
        BY <1>1, <2>1, <2>3, <3>3
      <4> QED BY <1>10, <3>1, <4>1, <4>2
    <3> QED BY <1>1, <2>1, <3>2, <3>3
  <2>6. r >= c.first_undef_row => w[r] = Untouched(a)[r]
    <3>1. c.first_undef_row >= undef
      BY <1>1, <1>12
    <3> QED BY <1>1, <1>2, <2>1, <2>2, <3>1
  <2> QED BY <2>4, <2>5, <2>6 DEF RowOK
<1>14. ASSUME NEW r \in from..to - 1
       PROVE  InBuffer(c, r) /\ (w[r] # "undefined" => c.mem_buffer[r - c.cur_start_row] = w[r])
  <2>1. r \in Rows(a) /\ r \in Int /\ cur <= r /\ r < cur + n /\ from <= r /\ r < to
    BY <1>1 DEF Rows, cur
  <2>2. InBuffer(b, r) /\ InBuffer(c, r)
    BY <1>9, <1>11, <2>1
  <2>3. ASSUME w[r] # "undefined" PROVE c.mem_buffer[r - cur] = w[r]
    <3>1. CASE r < undef
      <4>1. b.mem_buffer[r - cur] = w[r]
        BY <1>6, <2>1, <2>2, <2>3, <3>1 DEF RowOK, undef, cur
      <4>2. ~(undef <= r)
        BY <1>1, <2>1, <3>1
      <4> QED BY <1>10, <2>1, <2>2, <4>1, <4>2
    <3>2. CASE r >= undef
      <4>1. w[r] = Untouched(a)[r]
        BY <1>6, <2>1, <3>2 DEF RowOK, undef
      <4>2. w[r] = "zero" /\ Shape[a].pre_zero
        BY <1>7, <2>1, <2>3, <4>1
      <4>3. undef <= r
        BY <1>1, <2>1, <3>2
      <4> QED BY <1>10, <2>1, <2>2, <4>2, <4>3
    <3> QED BY <1>1, <2>1, <3>1, <3>2
  <2> QED BY <1>12, <2>2, <2>3
<1>15. writable => c.dirty /\ to <= c.first_undef_row
  BY <1>1, <1>12
<1>16. ArrayOK(a, c, f, w)
  BY <1>5, <1>13 DEF ArrayOK
<1>17. Reads(c, w, from, to)
  BY <1>14 DEF Reads
<1> QED BY <1>15, <1>16, <1>17

\* An access leaves the array as it should be, and failed or read.
Accessed(a, m, k, w, from, to, writable) ==
  \E c \in Block, f \in Lines :
    /\ OnlyArray(m, k, a, c, f) /\ ArrayOK(a, c, f, w)
    /\ c.b_s_open = m.block[a].b_s_open
    /\ ~k.failed => Reads(c, w, from, to) /\ (writable => c.dirty /\ to <= c.first_undef_row)

\* Defining the rows in the window, and marking the buffer as changed.
LEMMA DefineRowsDefines ==
  ASSUME NEW m \in Manager, ~m.failed, NEW a \in Array, NEW w,
         ArrayOK(a, m.block[a], m.file[a], w), NEW n \in Nat, Strip(a, m.block[a], n),
         NEW from \in Nat, NEW to \in Nat, from < to, to <= Shape[a].rows,
         m.block[a].cur_start_row <= from, to <= m.block[a].cur_start_row + n,
         NEW writable \in BOOLEAN
  PROVE  LET k == DefineRows(m, a, from, to, writable)
             j == IF writable /\ ~k.failed THEN [k EXCEPT !.block[a].dirty = TRUE] ELSE k
         IN  Accessed(a, m, j, w, from, to, writable)
<1> DEFINE b == m.block[a]
           undef == b.first_undef_row
           undef_row == Max({from, undef})
           new == {r - b.cur_start_row : r \in undef_row..to - 1}
           zeroed == [i \in DOMAIN b.mem_buffer |->
                        IF Shape[a].pre_zero /\ i \in new THEN "zero" ELSE b.mem_buffer[i]]
           k == DefineRows(m, a, from, to, writable)
           j == IF writable /\ ~k.failed THEN [k EXCEPT !.block[a].dirty = TRUE] ELSE k
           illegal == \/ undef < from /\ writable
                      \/ ~Shape[a].pre_zero /\ ~writable
           dirty == IF writable THEN TRUE ELSE b.dirty
<1> SUFFICES Accessed(a, m, j, w, from, to, writable)
  OBVIOUS
<1>1. /\ n \in Nat \ {0} /\ DOMAIN b.mem_buffer = 0..n - 1 /\ b.cur_start_row \in Nat
      /\ undef \in 0..Shape[a].rows /\ Shape[a].rows \in Nat
      /\ Range(b.mem_buffer) \subseteq Row(a)
  BY MemoryAssumption DEF ArrayOK, Strip, BlockOK
<1>2. b \in Block /\ m.file[a] \in Lines
  BY DEF Manager
<1>3. k = IF undef >= to THEN m
          ELSE IF illegal THEN [m EXCEPT !.failed = TRUE]
          ELSE [m EXCEPT !.block[a].first_undef_row = IF writable THEN to ELSE @,
                         !.block[a].mem_buffer = zeroed]
  BY DEF DefineRows
<1>4. dirty \in BOOLEAN
  BY <1>2 DEF Block
<1>5. undef_row \in Nat /\ from <= undef_row /\ undef <= undef_row
      /\ (undef_row = from \/ undef_row = undef)
  <2>1. Max({from, undef}) = IF from >= undef THEN from ELSE undef
    BY <1>1, MaxOfTwo
  <2> QED BY <1>1, <2>1
<1>6. \A i \in 0..n - 1 :
        i \in new <=> /\ undef <= i + b.cur_start_row /\ from <= i + b.cur_start_row
                      /\ i + b.cur_start_row < to
  <2> HIDE DEF undef_row, undef
  <2> SUFFICES ASSUME NEW i \in 0..n - 1
               PROVE  i \in new <=> /\ undef <= i + b.cur_start_row /\ from <= i + b.cur_start_row
                                    /\ i + b.cur_start_row < to
    OBVIOUS
  <2>1. ASSUME i \in new PROVE i + b.cur_start_row \in undef_row..to - 1
    <3>1. PICK r \in undef_row..to - 1 : i = r - b.cur_start_row
      BY <2>1
    <3>2. i + b.cur_start_row = r
      BY <1>1, <1>5, <3>1
    <3> QED BY <3>1, <3>2
  <2>2. ASSUME i + b.cur_start_row \in undef_row..to - 1 PROVE i \in new
    <3>1. i = (i + b.cur_start_row) - b.cur_start_row
      BY <1>1
    <3> QED BY <2>2, <3>1
  <2>3. i + b.cur_start_row \in undef_row..to - 1 <=>
          /\ undef <= i + b.cur_start_row /\ from <= i + b.cur_start_row
          /\ i + b.cur_start_row < to
    <3>1. undef \in Int /\ i + b.cur_start_row \in Int
      BY <1>1
    <3> QED BY <1>5, <3>1
  <2> QED BY <2>1, <2>2, <2>3
<1>7. zeroed \in Lines
  <2>1. "zero" \in Row(a) /\ \A i \in 0..n - 1 : b.mem_buffer[i] \in Row(a)
    BY <1>1 DEF Row, Range
  <2> HIDE DEF new
  <2>2. zeroed \in [0..n - 1 -> Row(a)]
    BY <1>1, <2>1
  <2>3. 0..n - 1 \in SUBSET Int
    OBVIOUS
  <2> HIDE DEF zeroed
  <2> QED BY <2>2, <2>3, LinesFacts
<1> HIDE DEF k, undef_row, new
<1>8. CASE undef >= to
  <2> DEFINE c == [b EXCEPT !.dirty = dirty]
  <2>1. k = m
    BY <1>3, <1>8
  <2>2. c \in Block
    BY <1>2, <1>4 DEF Block
  <2>3. Defined(a, b, c, n, from, to, writable)
    <3>1. \A i \in 0..n - 1 : ~(undef <= i + b.cur_start_row /\ i + b.cur_start_row < to)
      <4>1. undef \in Int /\ b.cur_start_row \in Int
        BY <1>1
      <4> HIDE DEF undef, b
      <4> QED BY <1>8, <4>1
    <3>2. /\ c.cur_start_row = b.cur_start_row /\ c.rowsperchunk = b.rowsperchunk
          /\ c.b_s_open = b.b_s_open /\ c.dirty = dirty
          /\ c.first_undef_row = undef /\ c.mem_buffer = b.mem_buffer
      BY <1>2 DEF Block
    <3>3. ~(undef < to)
      BY <1>1, <1>8
    <3> HIDE DEF c, b
    <3>4. \A i \in 0..n - 1 : c.mem_buffer[i] =
             IF /\ Shape[a].pre_zero /\ undef <= i + b.cur_start_row
                /\ from <= i + b.cur_start_row /\ i + b.cur_start_row < to
             THEN "zero" ELSE b.mem_buffer[i]
      BY <3>1, <3>2
    <3>5. DOMAIN c.mem_buffer = 0..n - 1 /\ ~(undef < to)
      BY <1>1, <3>2, <3>3
    <3>6. (writable => c.dirty) /\ (~writable => c.dirty = b.dirty)
      BY <3>2
    <3> QED BY <3>2, <3>4, <3>5, <3>6 DEF Defined
  <2>4. j = [m EXCEPT !.block[a] = c]
    BY <1>2, <2>1 DEF Manager, Block
  <2> HIDE DEF c, j
  <2>5. OnlyArray(m, j, a, c, m.file[a])
    BY <1>2, <2>2, <2>4, OnlyArrayFacts
  <2>6. c.b_s_open = b.b_s_open
    BY <2>3 DEF Defined
  <2>7. /\ ArrayOK(a, c, m.file[a], w) /\ Reads(c, w, from, to)
        /\ writable => c.dirty /\ to <= c.first_undef_row
    BY <1>2, <2>3, DefinedKeeps
  <2> QED BY <1>2, <2>2, <2>5, <2>6, <2>7 DEF Accessed
<1>9. CASE undef < to /\ illegal
  <2>1. k = [m EXCEPT !.failed = TRUE]
    BY <1>1, <1>3, <1>9
  <2>2. k.failed /\ OnlyArray(m, k, a, b, m.file[a])
    BY <2>1 DEF Manager, OnlyArray
  <2>3. j = k
    BY <2>2
  <2> HIDE DEF j, b
  <2> QED BY <1>2, <2>2, <2>3 DEF Accessed, b
<1>10. CASE undef < to /\ ~illegal
  <2> DEFINE u == IF writable THEN to ELSE undef
             c == [b EXCEPT !.first_undef_row = u, !.mem_buffer = zeroed, !.dirty = dirty]
  <2>1. k = [m EXCEPT !.block[a].first_undef_row = u, !.block[a].mem_buffer = zeroed]
    BY <1>1, <1>3, <1>10
  <2>2. u \in Int
    BY <1>1
  <2>3. c \in Block
    <3> HIDE DEF u, dirty, zeroed
    <3> QED BY <1>2, <1>4, <1>7, <2>2 DEF Block
  <2>4. /\ c.cur_start_row = b.cur_start_row /\ c.rowsperchunk = b.rowsperchunk
        /\ c.b_s_open = b.b_s_open /\ c.dirty = dirty
        /\ c.first_undef_row = u /\ c.mem_buffer = zeroed
    <3> HIDE DEF u, dirty, zeroed
    <3> QED BY <1>2 DEF Block
  <2>5. Defined(a, b, c, n, from, to, writable)
    <3>1. /\ DOMAIN zeroed = 0..n - 1
          /\ \A i \in 0..n - 1 :
               zeroed[i] = IF Shape[a].pre_zero /\ i \in new THEN "zero" ELSE b.mem_buffer[i]
      BY <1>1
    <3>2. (writable => from <= undef) /\ (writable \/ Shape[a].pre_zero)
      BY <1>1, <1>10
    <3> HIDE DEF c, b, zeroed
    <3> QED BY <1>1, <1>6, <1>10, <2>4, <3>1, <3>2 DEF Defined
  <2>6. j = [m EXCEPT !.block[a] = c]
    <3>1. ~k.failed
      BY <2>1 DEF Manager
    <3> HIDE DEF zeroed, u
    <3>2. CASE writable
      <4>1. j = [k EXCEPT !.block[a].dirty = TRUE]
        BY <3>1, <3>2
      <4>2. c = [b EXCEPT !.first_undef_row = u, !.mem_buffer = zeroed, !.dirty = TRUE]
        BY <3>2
      <4> DEFINE d == [b EXCEPT !.first_undef_row = u, !.mem_buffer = zeroed]
      <4>3. k = [m EXCEPT !.block[a] = d]
        BY <1>2, <2>1 DEF Manager, Block
      <4> HIDE DEF j, c, b
      <4>4. c = [d EXCEPT !.dirty = TRUE]
        BY <1>2, <4>2 DEF Block
      <4> HIDE DEF d
      <4> QED BY <4>1, <4>3, <4>4 DEF Manager
    <3>3. CASE ~writable
      <4>1. j = k /\ c = [b EXCEPT !.first_undef_row = u, !.mem_buffer = zeroed]
        BY <1>2, <3>3 DEF Block
      <4> HIDE DEF j, c
      <4> QED BY <1>2, <2>1, <4>1 DEF Manager, Block
    <3> QED BY <3>2, <3>3
  <2> HIDE DEF c, j
  <2>7. OnlyArray(m, j, a, c, m.file[a])
    BY <1>2, <2>3, <2>6, OnlyArrayFacts
  <2>8. /\ ArrayOK(a, c, m.file[a], w) /\ Reads(c, w, from, to)
        /\ writable => c.dirty /\ to <= c.first_undef_row
    BY <1>2, <2>5, DefinedKeeps
  <2> QED BY <1>2, <2>3, <2>4, <2>7, <2>8 DEF Accessed
<1>11. undef >= to \/ undef < to
  BY <1>1
<1> QED BY <1>8, <1>9, <1>10, <1>11

\* An access that is illegal fails, any other one moves the window and defines.
LEMMA AccessVirtAccesses ==
  ASSUME NEW m \in Manager, ~m.failed, NEW a \in Array, NEW w,
         ArrayOK(a, m.block[a], m.file[a], w), NEW start_row \in Nat, NEW num_rows \in Nat \ {0},
         NEW writable \in BOOLEAN
  PROVE  LET k == AccessVirt(m, a, start_row, num_rows, writable)
         IN  /\ Accessed(a, m, k, w, start_row, start_row + num_rows, writable)
             /\ ~k.failed => start_row + num_rows <= Shape[a].rows
<1> DEFINE b == m.block[a]
           to == start_row + num_rows
           moved == MoveWindow(m, a, start_row, to)
           n == DefineRows(moved, a, start_row, to, writable)
           j == IF writable /\ ~n.failed THEN [n EXCEPT !.block[a].dirty = TRUE] ELSE n
           k == AccessVirt(m, a, start_row, num_rows, writable)
           illegal == to > Shape[a].rows \/ num_rows > Shape[a].maxaccess \/ ~IsRealized(m, a)
<1> SUFFICES /\ Accessed(a, m, k, w, start_row, to, writable)
             /\ ~k.failed => to <= Shape[a].rows
  OBVIOUS
<1>1. k = IF illegal THEN [m EXCEPT !.failed = TRUE] ELSE j
  BY DEF AccessVirt
<1>2. b \in Block /\ m.file[a] \in Lines
  BY DEF Manager
<1>3. to \in Nat /\ Shape[a].rows \in Nat /\ Shape[a].maxaccess \in Nat /\ start_row < to
      /\ to - start_row = num_rows
  BY MemoryAssumption
<1> HIDE DEF k, to
<1>4. CASE illegal
  <2>1. k = [m EXCEPT !.failed = TRUE]
    BY <1>1, <1>4
  <2>2. k.failed /\ OnlyArray(m, k, a, b, m.file[a])
    BY <2>1 DEF Manager, OnlyArray
  <2> HIDE DEF b
  <2> QED BY <1>2, <2>2 DEF Accessed, b
<1>5. CASE ~illegal
  <2>1. k = j /\ to <= Shape[a].rows /\ num_rows <= Shape[a].maxaccess
    BY <1>1, <1>3, <1>5
  <2>2. PICK size \in Nat : Strip(a, b, size)
    <3>1. DOMAIN b.mem_buffer # {}
      BY <1>5 DEF IsRealized
    <3>2. ~Bare(b)
      BY <3>1, LinesFacts DEF Bare
    <3> QED BY <3>2 DEF ArrayOK, BlockOK
  <2>3. Moved(a, m, moved, size, w, start_row, to)
    <3> HIDE DEF moved
    <3>1. to - start_row <= Shape[a].maxaccess
      BY <1>3, <2>1
    <3> QED BY <1>3, <2>1, <2>2, <3>1, MoveWindowMoves DEF moved
  <2> HIDE DEF moved
  <2>4. PICK c \in Block, f \in Lines :
          /\ OnlyArray(m, moved, a, c, f) /\ ArrayOK(a, c, f, w) /\ Strip(a, c, size)
          /\ c.b_s_open = b.b_s_open
          /\ ~moved.failed => c.cur_start_row <= start_row /\ to <= c.cur_start_row + size
    BY <2>3 DEF Moved
  <2>5. CASE moved.failed
    <3>1. n = moved
      BY <2>5 DEF DefineRows
    <3>2. j = moved
      BY <2>5, <3>1
    <3> HIDE DEF j
    <3> QED BY <2>1, <2>4, <2>5, <3>2 DEF Accessed
  <2>6. CASE ~moved.failed
    <3>1. moved \in Manager /\ moved.block[a] = c /\ moved.file[a] = f
      BY <2>4 DEF OnlyArray
    <3>2. Accessed(a, moved, j, w, start_row, to, writable)
      <4>1. ArrayOK(a, moved.block[a], moved.file[a], w) /\ Strip(a, moved.block[a], size)
            /\ moved.block[a].cur_start_row <= start_row
            /\ to <= moved.block[a].cur_start_row + size
        BY <2>4, <2>6, <3>1
      <4>2. start_row \in Nat /\ to \in Nat /\ start_row < to /\ to <= Shape[a].rows
        BY <1>3, <2>1
      <4> HIDE DEF j, n
      <4> QED BY <2>6, <3>1, <4>1, <4>2, DefineRowsDefines DEF j, n
    <3> HIDE DEF j
    <3>3. PICK d \in Block, g \in Lines :
            /\ OnlyArray(moved, j, a, d, g) /\ ArrayOK(a, d, g, w)
            /\ d.b_s_open = c.b_s_open
            /\ ~j.failed => /\ Reads(d, w, start_row, to)
                            /\ writable => d.dirty /\ to <= d.first_undef_row
      BY <3>1, <3>2 DEF Accessed
    <3>4. OnlyArray(m, j, a, d, g)
      BY <2>4, <3>3, OnlyArrayTwice
    <3> QED BY <2>1, <2>4, <3>3, <3>4 DEF Accessed
  <2> QED BY <2>1, <2>5, <2>6
<1> QED BY <1>4, <1>5

-----------------------------------------------------------------------------
(* What each action keeps *)

\* No row is in a bare buffer.
LEMMA BareHoldsNone ==
  ASSUME NEW b, Bare(b)
  PROVE  DOMAIN b.mem_buffer = {} /\ \A r : ~InBuffer(b, r)
<1>1. DOMAIN NoRows = {}
  BY DEF NoRows
<1>2. DOMAIN b.mem_buffer = {}
  BY <1>1 DEF Bare
<1> QED BY <1>2 DEF InBuffer

\* An array nothing was written to is as it should be.
LEMMA UntouchedOK ==
  ASSUME NEW a \in Array, NEW b, NEW f, BlockOK(a, b), b.first_undef_row = 0, FileOK(a, f)
  PROVE  ArrayOK(a, b, f, Untouched(a))
<1>1. Untouched(a) \in [Rows(a) -> Row(a)]
  BY DEF Untouched, Row
<1>2. ASSUME NEW r \in Rows(a) PROVE RowOK(a, b, f, Untouched(a), r)
  <2>1. ~(r < b.first_undef_row)
    BY DEF Rows
  <2> QED BY <2>1 DEF RowOK
<1> QED BY <1>1, <1>2 DEF ArrayOK

\* A bare block is one.
LEMMA BareOK ==
  ASSUME NEW a \in Array, NEW b, Bare(b)
  PROVE  BlockOK(a, b) /\ b.first_undef_row = 0
<1>1. 0 \in 0..Shape[a].rows
  BY MemoryAssumption
<1>2. Range(b.mem_buffer) = {}
  BY LinesFacts DEF Bare
<1> QED BY <1>1, <1>2 DEF BlockOK, Bare

\* What is wanted of an array that has no defined row.
LEMMA WantedUntouched ==
  ASSUME NEW a \in Array, NEW b, NEW f, NEW w, ArrayOK(a, b, f, w), b.first_undef_row = 0
  PROVE  w = Untouched(a)
<1>1. ASSUME NEW r \in Rows(a) PROVE w[r] = Untouched(a)[r]
  <2>1. r >= b.first_undef_row
    BY DEF Rows
  <2> QED BY <2>1 DEF ArrayOK, RowOK
<1>2. w \in [Rows(a) -> Row(a)] /\ Untouched(a) = [r \in Rows(a) |-> Untouched(a)[r]]
  BY DEF ArrayOK, Untouched
<1> QED BY <1>1, <1>2

\* Lists and total left alone, the space is accounted for.
LEMMA SameSpace ==
  ASSUME NEW m, NEW n, Accounted(m), n.total_space_allocated = m.total_space_allocated,
         n.small_list = m.small_list, n.large_list = m.large_list
  PROVE  Accounted(n)
  BY DEF Accounted, PoolSpace

\* Methods that only allocate keep the manager.
LEMMA AllocatedKeeps ==
  ASSUME NEW m, NEW n, NEW w, ManagerOK(m, w), Allocated(m, n)
  PROVE  ManagerOK(n, w)
  BY DEF ManagerOK, Allocated, SameArrays, ListOK

\* Realizing keeps the manager.
LEMMA RealizedKeeps ==
  ASSUME NEW m, NEW n, NEW w, ManagerOK(m, w), RealizedSome(m, n)
  PROVE  ManagerOK(n, w)
<1>1. n \in Manager /\ Accounted(n) /\ FilesListed(n) /\ n.virt_list = m.virt_list
  BY DEF RealizedSome
<1>2. ListOK(n)
  <2>1. ASSUME NEW a \in Array, a \notin Range(n.virt_list) PROVE Bare(n.block[a])
    BY <1>1, <2>1 DEF RealizedSome, ManagerOK, ListOK
  <2> QED BY <1>1, <2>1 DEF ListOK, ManagerOK, FilesListed
<1>3. ASSUME NEW a \in Array PROVE ArrayOK(a, n.block[a], n.file[a], w[a])
  <2>1. ArrayOK(a, m.block[a], m.file[a], w[a])
    BY DEF ManagerOK
  <2>2. CASE n.block[a] = m.block[a] /\ n.file[a] = m.file[a]
    BY <2>1, <2>2
  <2>3. CASE Bare(m.block[a]) /\ Fresh(a, n.block[a]) /\ FileOK(a, n.file[a])
    <3>1. w[a] = Untouched(a)
      BY <2>1, <2>3, WantedUntouched DEF Bare
    <3>2. ArrayOK(a, n.block[a], n.file[a], Untouched(a))
      BY <2>3, UntouchedOK DEF Fresh
    <3> QED BY <3>1, <3>2
  <2> QED BY <2>2, <2>3 DEF RealizedSome
<1> QED BY <1>1, <1>2, <1>3 DEF ManagerOK

\* Changing one array that is on the list.
LEMMA OnlyArrayKeeps ==
  ASSUME NEW m, NEW n, NEW w, NEW a \in Array, NEW b, NEW f, NEW v,
         ManagerOK(m, w), a \in Range(m.virt_list), OnlyArray(m, n, a, b, f),
         b.b_s_open = m.block[a].b_s_open, ArrayOK(a, b, f, v)
  PROVE  /\ n \in Manager /\ Accounted(n) /\ ListOK(n)
         /\ ArrayOK(a, n.block[a], n.file[a], v)
         /\ \A c \in Array : c # a => ArrayOK(c, n.block[c], n.file[c], w[c])
<1>1. /\ n \in Manager /\ n.block[a] = b /\ n.file[a] = f
      /\ \A c \in Array : c # a => n.block[c] = m.block[c] /\ n.file[c] = m.file[c]
      /\ n.virt_list = m.virt_list /\ n.exists = m.exists
  BY DEF OnlyArray
<1>2. Accounted(n)
  BY SameSpace DEF OnlyArray, ManagerOK
<1>3. ListOK(n)
  <2>1. \A c \in m.exists : c \in Array
    BY DEF ManagerOK, Manager
  <2> QED BY <1>1, <2>1 DEF ListOK, ManagerOK
<1>4. \A c \in Array : c # a => ArrayOK(c, n.block[c], n.file[c], w[c])
  BY <1>1 DEF ManagerOK
<1> QED BY <1>1, <1>2, <1>3, <1>4

\* A pool that was emptied takes no space.
LEMMA EmptySpace ==
  ASSUME NEW m, NEW p, m.small_list[p] = <<>>, m.large_list[p] = <<>>
  PROVE  PoolSpace(m, p) = 0
<1>1. [i \in DOMAIN m.small_list[p] |-> m.small_list[p][i].bytes_used
                                         + m.small_list[p][i].bytes_left + PoolHdr] = <<>>
  OBVIOUS
<1>2. [i \in DOMAIN m.large_list[p] |-> m.large_list[p][i] + PoolHdr] = <<>>
  OBVIOUS
<1> QED BY <1>1, <1>2, SumOfNothing DEF PoolSpace

\* Every row of every array is to read as when it was requested.
AllUntouched == [a \in Array |-> Untouched(a)]

\* Freeing the image pool closes every file, and leaves no array behind.
LEMMA CloseFilesKeeps ==
  ASSUME NEW m, NEW w, ManagerOK(m, w)
  PROVE  LET n == CloseFiles(m)
         IN  /\ n \in Manager /\ ListOK(n)
             /\ \A a \in Array : ArrayOK(a, n.block[a], n.file[a], Untouched(a))
             /\ n.small_list = m.small_list /\ n.large_list = m.large_list
             /\ n.total_space_allocated = m.total_space_allocated
<1> DEFINE listed == Range(m.virt_list)
           open == {a \in listed : m.block[a].b_s_open}
           file == [a \in Array |-> IF a \in open THEN NoRows ELSE m.file[a]]
           block == [a \in Array |-> IF a \in listed THEN Unrealized ELSE m.block[a]]
           n == CloseFiles(m)
<1>1. n = [m EXCEPT !.exists = @ \ open, !.virt_list = <<>>, !.file = file, !.block = block]
  BY DEF CloseFiles, ManagerOK, Manager
<1>2. m \in Manager /\ m.exists \subseteq open
  BY DEF ManagerOK, ListOK
<1>3. Unrealized \in Block /\ Bare(Unrealized)
  <2>1. NoRows \in Lines
    <3>1. NoRows \in [{} -> Stuff]
      BY DEF NoRows
    <3>2. {} \in SUBSET Int
      OBVIOUS
    <3> QED BY <3>1, <3>2 DEF Lines
  <2> QED BY <2>1 DEF Unrealized, Block, Bare
<1>4. block \in [Array -> Block] /\ file \in [Array -> Lines]
  <2>1. m.block \in [Array -> Block] /\ m.file \in [Array -> Lines]
    BY <1>2 DEF Manager
  <2>2. \A a \in Array : NoRows \in Lines
    BY LinesFacts
  <2> QED BY <1>3, <2>1, <2>2
<1>5. ASSUME NEW a \in Array PROVE Bare(block[a]) /\ FileOK(a, file[a])
  <2>1. Bare(block[a])
    BY <1>3 DEF ManagerOK, ListOK
  <2>2. FileOK(a, m.file[a]) /\ FileOK(a, NoRows)
    BY LinesFacts DEF ManagerOK, ArrayOK
  <2> QED BY <2>1, <2>2
<1> HIDE DEF n, block, file, open
<1>6. /\ n \in Manager /\ n.virt_list = <<>> /\ n.exists = {} /\ n.block = block /\ n.file = file
      /\ n.small_list = m.small_list /\ n.large_list = m.large_list
      /\ n.total_space_allocated = m.total_space_allocated
  <2>1. m.exists \ open = {} /\ <<>> \in Seq(Array)
    BY <1>2
  <2> QED BY <1>1, <1>2, <1>4, <2>1 DEF Manager
<1>7. ListOK(n)
  <2>1. IsInjective(<<>>)
    BY DEF IsInjective
  <2> QED BY <1>5, <1>6, <2>1 DEF ListOK
<1>8. ASSUME NEW a \in Array PROVE ArrayOK(a, n.block[a], n.file[a], Untouched(a))
  <2>1. BlockOK(a, block[a]) /\ block[a].first_undef_row = 0
    BY <1>5, BareOK
  <2> QED BY <1>5, <1>6, <2>1, UntouchedOK
<1> QED BY <1>6, <1>7, <1>8 DEF n

\* What freeing a pool releases is what it held.
LEMMA FreePoolAccounts ==
  ASSUME NEW m \in Manager, Accounted(m), NEW n, NEW p \in Pool,
         n.total_space_allocated = m.total_space_allocated - PoolSpace(m, p),
         n.small_list = [m.small_list EXCEPT ![p] = <<>>],
         n.large_list = [m.large_list EXCEPT ![p] = <<>>]
  PROVE  Accounted(n)
<1>1. PoolSpace(n, p) = 0
  <2>1. n.small_list[p] = <<>> /\ n.large_list[p] = <<>>
    BY DEF Manager
  <2> QED BY <2>1, EmptySpace
<1>2. \A q \in Pool : q # p => PoolSpace(n, q) = PoolSpace(m, q)
  <2>1. \A q \in Pool : q # p => n.small_list[q] = m.small_list[q] /\ n.large_list[q] = m.large_list[q]
    BY DEF Manager
  <2> QED BY <2>1 DEF PoolSpace
<1>3. \A q \in Pool : PoolSpace(m, q) \in Nat
  BY PoolSpaces
<1>4. m.total_space_allocated \in Int /\ ControlBlock \in Nat
  BY MemoryAssumption DEF Manager
<1>5. CASE p = "IMAGE"
  <2>1. PoolSpace(n, "IMAGE") = 0 /\ PoolSpace(n, "PERMANENT") = PoolSpace(m, "PERMANENT")
        /\ n.total_space_allocated = m.total_space_allocated - PoolSpace(m, "IMAGE")
    BY <1>1, <1>2, <1>5 DEF Pool
  <2>2. PoolSpace(m, "IMAGE") \in Nat /\ PoolSpace(m, "PERMANENT") \in Nat
    BY <1>3 DEF Pool
  <2> QED BY <1>4, <2>1, <2>2 DEF Accounted
<1>6. CASE p = "PERMANENT"
  <2>1. PoolSpace(n, "PERMANENT") = 0 /\ PoolSpace(n, "IMAGE") = PoolSpace(m, "IMAGE")
        /\ n.total_space_allocated = m.total_space_allocated - PoolSpace(m, "PERMANENT")
    BY <1>1, <1>2, <1>6 DEF Pool
  <2>2. PoolSpace(m, "IMAGE") \in Nat /\ PoolSpace(m, "PERMANENT") \in Nat
    BY <1>3 DEF Pool
  <2> QED BY <1>4, <2>1, <2>2 DEF Accounted
<1> QED BY <1>5, <1>6 DEF Pool

\* Freeing the image pool, or all, keeps the manager, its arrays gone.
LEMMA FreeImageKeeps ==
  ASSUME NEW m, NEW w, ManagerOK(m, w)
  PROVE  ManagerOK(FreePool(m, "IMAGE"), AllUntouched)
<1> DEFINE n == CloseFiles(m)
           k == FreePool(m, "IMAGE")
<1>1. /\ n \in Manager /\ ListOK(n)
      /\ \A a \in Array : ArrayOK(a, n.block[a], n.file[a], Untouched(a))
      /\ n.small_list = m.small_list /\ n.large_list = m.large_list
      /\ n.total_space_allocated = m.total_space_allocated
  BY CloseFilesKeeps
<1>2. k = [n EXCEPT !.total_space_allocated = @ - PoolSpace(m, "IMAGE"),
                    !.small_list["IMAGE"] = <<>>, !.large_list["IMAGE"] = <<>>]
  BY DEF FreePool
<1>3. m \in Manager /\ Accounted(m) /\ "IMAGE" \in Pool /\ PoolSpace(m, "IMAGE") \in Int
  <2>1. m \in Manager /\ Accounted(m) /\ "IMAGE" \in Pool
    BY DEF ManagerOK, Pool
  <2> QED BY <2>1, PoolSpaces
<1> HIDE DEF n, k
<1>4. /\ k \in Manager /\ k.virt_list = n.virt_list /\ k.exists = n.exists
      /\ k.block = n.block /\ k.file = n.file
      /\ k.total_space_allocated = m.total_space_allocated - PoolSpace(m, "IMAGE")
      /\ k.small_list = [m.small_list EXCEPT !["IMAGE"] = <<>>]
      /\ k.large_list = [m.large_list EXCEPT !["IMAGE"] = <<>>]
  <2>1. <<>> \in Seq(Chunk) /\ <<>> \in Seq(Nat)
    OBVIOUS
  <2> DEFINE total == m.total_space_allocated - PoolSpace(m, "IMAGE")
             small == [m.small_list EXCEPT !["IMAGE"] = <<>>]
             large == [m.large_list EXCEPT !["IMAGE"] = <<>>]
  <2>2. total \in Int /\ small \in [Pool -> Seq(Chunk)] /\ large \in [Pool -> Seq(Nat)]
    BY <1>3, <2>1 DEF Manager
  <2>3. k = [n EXCEPT !.total_space_allocated = total, !.small_list = small, !.large_list = large]
    BY <1>1, <1>2, <1>3 DEF Manager
  <2> HIDE DEF total, small, large
  <2>4. /\ k \in Manager /\ k.virt_list = n.virt_list /\ k.exists = n.exists
        /\ k.block = n.block /\ k.file = n.file
        /\ k.total_space_allocated = total /\ k.small_list = small /\ k.large_list = large
    BY <1>1, <1>2, <2>2, <2>3 DEF Manager
  <2> QED BY <2>4 DEF total, small, large
<1>5. Accounted(k)
  BY <1>3, <1>4, FreePoolAccounts
<1>6. ListOK(k)
  BY <1>1, <1>4 DEF ListOK
<1>7. \A a \in Array : ArrayOK(a, k.block[a], k.file[a], AllUntouched[a])
  BY <1>1, <1>4 DEF AllUntouched
<1> QED BY <1>4, <1>5, <1>6, <1>7 DEF ManagerOK, k

LEMMA FreePermanentKeeps ==
  ASSUME NEW m, NEW w, ManagerOK(m, w)
  PROVE  ManagerOK(FreePool(m, "PERMANENT"), w)
<1> DEFINE k == FreePool(m, "PERMANENT")
<1>1. k = [m EXCEPT !.total_space_allocated = @ - PoolSpace(m, "PERMANENT"),
                    !.small_list["PERMANENT"] = <<>>, !.large_list["PERMANENT"] = <<>>]
  BY DEF FreePool
<1>2. m \in Manager /\ Accounted(m) /\ "PERMANENT" \in Pool /\ PoolSpace(m, "PERMANENT") \in Int
  <2>1. m \in Manager /\ Accounted(m) /\ "PERMANENT" \in Pool
    BY DEF ManagerOK, Pool
  <2> QED BY <2>1, PoolSpaces
<1> HIDE DEF k
<1>3. /\ k \in Manager /\ k.virt_list = m.virt_list /\ k.exists = m.exists
      /\ k.block = m.block /\ k.file = m.file
      /\ k.total_space_allocated = m.total_space_allocated - PoolSpace(m, "PERMANENT")
      /\ k.small_list = [m.small_list EXCEPT !["PERMANENT"] = <<>>]
      /\ k.large_list = [m.large_list EXCEPT !["PERMANENT"] = <<>>]
  <2>1. <<>> \in Seq(Chunk) /\ <<>> \in Seq(Nat)
    OBVIOUS
  <2> DEFINE total == m.total_space_allocated - PoolSpace(m, "PERMANENT")
             small == [m.small_list EXCEPT !["PERMANENT"] = <<>>]
             large == [m.large_list EXCEPT !["PERMANENT"] = <<>>]
  <2>2. total \in Int /\ small \in [Pool -> Seq(Chunk)] /\ large \in [Pool -> Seq(Nat)]
    BY <1>2, <2>1 DEF Manager
  <2>3. k = [m EXCEPT !.total_space_allocated = total, !.small_list = small, !.large_list = large]
    BY <1>1, <1>2 DEF Manager
  <2> HIDE DEF total, small, large
  <2>4. /\ k \in Manager /\ k.virt_list = m.virt_list /\ k.exists = m.exists
        /\ k.block = m.block /\ k.file = m.file
        /\ k.total_space_allocated = total /\ k.small_list = small /\ k.large_list = large
    BY <1>1, <1>2, <2>2, <2>3 DEF Manager
  <2> QED BY <2>4 DEF total, small, large
<1>4. Accounted(k)
  BY <1>2, <1>3, FreePoolAccounts
<1>5. ListOK(k) /\ \A a \in Array : ArrayOK(a, k.block[a], k.file[a], w[a])
  BY <1>3 DEF ManagerOK, ListOK
<1> QED BY <1>3, <1>4, <1>5 DEF ManagerOK, k

\* Filling rows that were granted, and wanting them so.
LEMMA FillKeeps ==
  ASSUME NEW a \in Array, NEW b \in Block, NEW f, NEW w, NEW v \in Value[a], ArrayOK(a, b, f, w),
         NEW from \in Nat, NEW to \in Nat, to <= b.first_undef_row, b.dirty,
         \A r \in from..to - 1 : InBuffer(b, r)
  PROVE  LET g == [i \in DOMAIN b.mem_buffer |->
                     IF i + b.cur_start_row \in from..to - 1 THEN v ELSE b.mem_buffer[i]]
             u == [r \in Rows(a) |-> IF r \in from..to - 1 THEN v ELSE w[r]]
         IN  ArrayOK(a, [b EXCEPT !.mem_buffer = g], f, u) /\ [b EXCEPT !.mem_buffer = g] \in Block
<1> DEFINE rows == from..to - 1
           g == [i \in DOMAIN b.mem_buffer |->
                   IF i + b.cur_start_row \in rows THEN v ELSE b.mem_buffer[i]]
           u == [r \in Rows(a) |-> IF r \in rows THEN v ELSE w[r]]
           c == [b EXCEPT !.mem_buffer = g]
<1>1. PICK n \in Nat : Strip(a, b, n)
  BY DEF ArrayOK, BlockOK, Bare
<1>2. /\ n \in Nat \ {0} /\ DOMAIN b.mem_buffer = 0..n - 1 /\ b.cur_start_row \in Nat
      /\ b.first_undef_row \in 0..Shape[a].rows /\ Shape[a].rows \in Nat
      /\ Range(b.mem_buffer) \subseteq Row(a)
  BY <1>1, MemoryAssumption DEF ArrayOK, Strip, BlockOK
<1>3. v \in Row(a)
  BY DEF Row
<1>4. g \in [0..n - 1 -> Row(a)]
  <2>1. \A i \in 0..n - 1 : b.mem_buffer[i] \in Row(a)
    BY <1>2 DEF Range
  <2> HIDE DEF rows
  <2> QED BY <1>2, <1>3, <2>1
<1>5. u \in [Rows(a) -> Row(a)]
  BY <1>3 DEF ArrayOK
<1>6. c \in Block
  <2>1. 0..n - 1 \in SUBSET Int
    OBVIOUS
  <2> HIDE DEF g
  <2>2. g \in Lines
    BY <1>4, <2>1, LinesFacts
  <2> QED BY <2>2 DEF Block
<1>7. /\ c.mem_buffer = g /\ c.rowsperchunk = b.rowsperchunk
      /\ c.cur_start_row = b.cur_start_row /\ c.first_undef_row = b.first_undef_row
      /\ c.dirty = b.dirty /\ c.b_s_open = b.b_s_open
  BY DEF Block
<1>8. \A i \in 0..n - 1 : g[i] = IF i + b.cur_start_row \in rows THEN v ELSE b.mem_buffer[i]
  BY <1>2
<1>9. \A r \in Rows(a) : u[r] = IF r \in rows THEN v ELSE w[r]
  OBVIOUS
<1> HIDE DEF g, u, c
<1>10. BlockOK(a, c)
  <2>1. Strip(a, c, n)
    BY <1>1, <1>2, <1>4, <1>7 DEF Strip
  <2>2. Range(c.mem_buffer) \subseteq Row(a)
    BY <1>4, <1>7 DEF Range
  <2> QED BY <1>2, <1>7, <2>1, <2>2 DEF BlockOK
<1>11. ASSUME NEW r \in Rows(a) PROVE RowOK(a, c, f, u, r)
  <2>1. r \in Int
    BY DEF Rows
  <2>2. RowOK(a, b, f, w, r)
    BY DEF ArrayOK
  <2>3. InBuffer(c, r) <=> InBuffer(b, r)
    BY <1>2, <1>4, <1>7 DEF InBuffer
  <2>4. CASE r \in rows
    <3>1. InBuffer(b, r) /\ r < b.first_undef_row /\ u[r] = v
      BY <1>2, <1>9, <2>1, <2>4
    <3>2. r - b.cur_start_row \in 0..n - 1 /\ (r - b.cur_start_row) + b.cur_start_row = r
      BY <1>2, <2>1, <3>1 DEF InBuffer
    <3>3. g[r - b.cur_start_row] = v
      BY <1>8, <2>4, <3>2
    <3>4. ~(r >= b.first_undef_row)
      BY <1>2, <2>1, <3>1
    <3> QED BY <1>7, <2>3, <3>1, <3>3, <3>4 DEF RowOK
  <2>5. CASE r \notin rows
    <3>1. u[r] = w[r]
      BY <1>9, <2>5
    <3>2. InBuffer(b, r) => g[r - b.cur_start_row] = b.mem_buffer[r - b.cur_start_row]
      <4> SUFFICES ASSUME InBuffer(b, r)
                   PROVE  g[r - b.cur_start_row] = b.mem_buffer[r - b.cur_start_row]
        OBVIOUS
      <4>1. r - b.cur_start_row \in 0..n - 1 /\ (r - b.cur_start_row) + b.cur_start_row = r
        BY <1>2, <2>1 DEF InBuffer
      <4> HIDE DEF rows
      <4> QED BY <1>8, <2>5, <4>1
    <3> HIDE DEF rows
    <3> QED BY <1>7, <2>2, <2>3, <3>1, <3>2 DEF RowOK
  <2> QED BY <2>4, <2>5
<1>12. ArrayOK(a, c, f, u)
  BY <1>5, <1>10, <1>11 DEF ArrayOK
<1> QED BY <1>6, <1>12 DEF c, g, u

\* Requesting an array that is not on the list.
LEMMA RequestKeeps ==
  ASSUME NEW m, NEW w, ManagerOK(m, w), NEW a \in Array, a \notin Range(m.virt_list),
         NEW heap \in Heap
  PROVE  LET n == RequestVirt(m, a, heap)
         IN  /\ n \in Manager /\ Accounted(n) /\ ListOK(n)
             /\ ArrayOK(a, n.block[a], n.file[a], Untouched(a))
             /\ \A c \in Array : c # a => ArrayOK(c, n.block[c], n.file[c], w[c])
<1> DEFINE k == AllocSmall(m, "IMAGE", ControlBlock, heap)
           n == RequestVirt(m, a, heap)
           list == <<a>> \o m.virt_list
<1>1. m \in Manager /\ "IMAGE" \in Pool /\ ControlBlock \in Nat
  BY MemoryAssumption DEF ManagerOK, Pool
<1>2. Allocated(m, k)
  BY <1>1, AllocSmallAllocates
<1> HIDE DEF k
<1>3. ManagerOK(k, w)
  BY <1>2, AllocatedKeeps
<1>4. /\ k.virt_list = m.virt_list /\ k.block = m.block /\ k.file = m.file /\ k.exists = m.exists
  BY <1>2 DEF Allocated, SameArrays
<1>5. Bare(m.block[a]) /\ FileOK(a, m.file[a])
  BY DEF ManagerOK, ListOK, ArrayOK
<1>6. Unrealized \in Block /\ Bare(Unrealized)
  <2>1. NoRows \in Lines
    BY LinesFacts
  <2> QED BY <2>1 DEF Unrealized, Block, Bare
<1>7. n = IF k.failed THEN k ELSE [k EXCEPT !.virt_list = list, !.block[a] = Unrealized]
  BY <1>4 DEF RequestVirt, k
<1> HIDE DEF n
<1>8. \A b : Bare(b) => ArrayOK(a, b, m.file[a], Untouched(a))
  BY <1>5, BareOK, UntouchedOK
<1>9. CASE k.failed
  <2>1. n = k
    BY <1>7, <1>9
  <2> QED BY <1>3, <1>4, <1>5, <1>8, <2>1 DEF ManagerOK, n
<1>10. CASE ~k.failed
  <2>1. m.virt_list \in Seq(Array) /\ IsInjective(m.virt_list)
    BY <1>1 DEF Manager, ManagerOK, ListOK
  <2>2. /\ list \in Seq(Array) /\ Range(list) = Range(m.virt_list) \cup {a}
        /\ IsInjective(list)
    <3> DEFINE old == m.virt_list
    <3>1. /\ old \in Seq(Array) /\ Len(old) \in Nat /\ DOMAIN old = 1..Len(old)
          /\ \A i \in 1..Len(old) : old[i] # a
          /\ \A i, j \in 1..Len(old) : old[i] = old[j] => i = j
      BY <2>1 DEF Range, IsInjective
    <3> HIDE DEF old
    <3>2. /\ list = <<a>> \o old
      BY DEF old
    <3> HIDE DEF list
    <3>3. /\ list \in Seq(Array) /\ Len(list) = Len(old) + 1 /\ DOMAIN list = 1..(Len(old) + 1)
          /\ list[1] = a /\ \A i \in 2..(Len(old) + 1) : i - 1 \in 1..Len(old) /\ list[i] = old[i - 1]
      BY <3>1, <3>2
    <3>4. \A i \in 1..(Len(old) + 1) : i = 1 \/ i \in 2..(Len(old) + 1)
      BY <3>1
    <3>5. ASSUME NEW i \in 1..(Len(old) + 1), NEW j \in 1..(Len(old) + 1), list[i] = list[j]
          PROVE  i = j
      <4>1. CASE i = 1 /\ j = 1
        BY <4>1
      <4>2. CASE i # 1 /\ j # 1
        <5>1. i - 1 \in 1..Len(old) /\ j - 1 \in 1..Len(old) /\ old[i - 1] = old[j - 1]
          BY <3>3, <3>4, <3>5, <4>2
        <5>2. i - 1 = j - 1
          BY <3>1, <5>1
        <5> QED BY <3>1, <5>2
      <4>3. CASE i = 1 /\ j # 1
        BY <3>1, <3>3, <3>4, <3>5, <4>3
      <4>4. CASE i # 1 /\ j = 1
        BY <3>1, <3>3, <3>4, <3>5, <4>4
      <4> QED BY <4>1, <4>2, <4>3, <4>4
    <3>6. IsInjective(list)
      BY <3>3, <3>5 DEF IsInjective
    <3>7. Range(list) = Range(old) \cup {a}
      <4>1. ASSUME NEW x \in Range(list) PROVE x \in Range(old) \cup {a}
        <5>1. PICK i \in 1..(Len(old) + 1) : x = list[i]
          BY <3>3 DEF Range
        <5>2. CASE i = 1
          BY <3>3, <5>1, <5>2
        <5>3. CASE i # 1
          <6>1. i - 1 \in 1..Len(old) /\ x = old[i - 1]
            BY <3>3, <3>4, <5>1, <5>3
          <6> QED BY <3>1, <6>1 DEF Range
        <5> QED BY <5>2, <5>3
      <4>2. ASSUME NEW x \in Range(old) PROVE x \in Range(list)
        <5>1. PICK i \in 1..Len(old) : x = old[i]
          BY <3>1 DEF Range
        <5>2. i + 1 \in 2..(Len(old) + 1) /\ (i + 1) - 1 = i /\ i + 1 \in DOMAIN list
          BY <3>1, <3>3
        <5>3. list[i + 1] = x
          BY <3>3, <5>1, <5>2
        <5> QED BY <5>2, <5>3 DEF Range
      <4>3. a \in Range(list)
        BY <3>1, <3>3 DEF Range
      <4> QED BY <4>1, <4>2, <4>3
    <3> QED BY <3>3, <3>6, <3>7 DEF old
  <2>3. n = [k EXCEPT !.virt_list = list, !.block[a] = Unrealized]
    BY <1>7, <1>10
  <2> HIDE DEF list
  <2>4. /\ n \in Manager /\ n.virt_list = list /\ n.exists = k.exists /\ n.file = k.file
        /\ n.block[a] = Unrealized /\ \A c \in Array : c # a => n.block[c] = k.block[c]
        /\ n.small_list = k.small_list /\ n.large_list = k.large_list
        /\ n.total_space_allocated = k.total_space_allocated
    BY <1>2, <1>6, <2>2, <2>3 DEF Allocated, Manager
  <2>5. Accounted(n)
    BY <1>3, <2>4, SameSpace DEF ManagerOK
  <2>6. ListOK(n)
    <3>1. ASSUME NEW c \in Array, c \notin Range(n.virt_list) PROVE Bare(n.block[c])
      BY <1>3, <1>4, <2>2, <2>4, <3>1 DEF ManagerOK, ListOK
    <3>2. ASSUME NEW c \in n.exists PROVE c \in Range(n.virt_list) /\ n.block[c].b_s_open
      <4>1. c \in Array /\ c \in Range(m.virt_list) /\ k.block[c].b_s_open
        BY <1>1, <1>3, <1>4, <2>4 DEF ManagerOK, ListOK, Manager
      <4> QED BY <2>2, <2>4, <4>1
    <3> QED BY <2>2, <2>4, <3>1, <3>2 DEF ListOK
  <2>7. ArrayOK(a, n.block[a], n.file[a], Untouched(a))
    BY <1>4, <1>6, <1>8, <2>4
  <2>8. \A c \in Array : c # a => ArrayOK(c, n.block[c], n.file[c], w[c])
    BY <1>3, <2>4 DEF ManagerOK
  <2> QED BY <2>4, <2>5, <2>6, <2>7, <2>8 DEF n
<1> QED BY <1>9, <1>10

-----------------------------------------------------------------------------
(* The actions *)

\* A grant stays as it is while its buffer does.
LEMMA GrantStays ==
  ASSUME GrantOK, UNCHANGED <<granted, wanted>>,
         \A a \in Array : mem'.block[a] = mem.block[a] \/ Bare(mem.block[a])
  PROVE  GrantOK'
<1>1. CASE granted = NoGrant
  BY <1>1 DEF GrantOK
<1>2. CASE granted # NoGrant
  <2>1. PICK a \in Array :
          LET b == mem.block[a]
          IN  /\ granted.array = {a} /\ granted.from \in Nat /\ granted.to \in Nat
              /\ granted.from < granted.to /\ granted.to <= Shape[a].rows
              /\ granted.writable => b.dirty /\ granted.to <= b.first_undef_row
              /\ Reads(b, wanted[a], granted.from, granted.to)
    BY <1>2 DEF GrantOK
  <2>2. InBuffer(mem.block[a], granted.from)
    <3>1. granted.from \in granted.from..granted.to - 1
      BY <2>1
    <3> QED BY <2>1, <3>1 DEF Reads
  <2>3. mem'.block[a] = mem.block[a]
    BY <2>2, BareHoldsNone
  <2> QED BY <2>1, <2>3 DEF GrantOK
<1> QED BY <1>1, <1>2

\* The first state.
LEMMA InitKeeps == Init => MemoryInv
<1> SUFFICES ASSUME Init PROVE MemoryInv
  OBVIOUS
<1>1. Unrealized \in Block /\ Bare(Unrealized) /\ NoRows \in Lines
  <2>1. NoRows \in Lines
    <3>1. NoRows \in [{} -> Stuff]
      BY DEF NoRows
    <3>2. {} \in SUBSET Int
      OBVIOUS
    <3> QED BY <3>1, <3>2 DEF Lines
  <2> QED BY <2>1 DEF Unrealized, Block, Bare
<1>2. mem \in Manager
  <2>1. ControlBlock \in Int /\ <<>> \in Seq(Chunk) /\ <<>> \in Seq(Nat) /\ <<>> \in Seq(Array)
    BY MemoryAssumption
  <2> QED BY <1>1, <2>1 DEF Init, Manager
<1>3. Accounted(mem)
  <2>1. /\ mem.small_list["IMAGE"] = <<>> /\ mem.large_list["IMAGE"] = <<>>
        /\ mem.small_list["PERMANENT"] = <<>> /\ mem.large_list["PERMANENT"] = <<>>
        /\ mem.total_space_allocated = ControlBlock
    BY DEF Init, Pool
  <2>2. PoolSpace(mem, "IMAGE") = 0 /\ PoolSpace(mem, "PERMANENT") = 0
    BY <2>1, EmptySpace
  <2> QED BY <2>1, <2>2, MemoryAssumption DEF Accounted
<1>4. ListOK(mem)
  <2>1. /\ mem.virt_list = <<>> /\ mem.exists = {} /\ \A a \in Array : mem.block[a] = Unrealized
    BY DEF Init
  <2> QED BY <1>1, <2>1 DEF ListOK, IsInjective
<1>5. \A a \in Array : ArrayOK(a, mem.block[a], mem.file[a], wanted[a])
  <2> SUFFICES ASSUME NEW a \in Array PROVE ArrayOK(a, mem.block[a], mem.file[a], wanted[a])
    OBVIOUS
  <2>1. mem.block[a] = Unrealized /\ mem.file[a] = NoRows /\ wanted[a] = Untouched(a)
    BY DEF Init
  <2> QED BY <1>1, <2>1, BareOK, LinesFacts, UntouchedOK
<1>6. GrantOK /\ wanted = [a \in Array |-> wanted[a]]
  BY DEF Init, GrantOK
<1> QED BY <1>2, <1>3, <1>4, <1>5, <1>6 DEF MemoryInv, ManagerOK

\* alloc_small and alloc_large.
LEMMA AllocateKeeps ==
  ASSUME MemoryInv, NEW bytes \in ObjectSize, AllocateSmall(bytes) \/ AllocateLarge(bytes)
  PROVE  MemoryInv'
<1>1. bytes \in Nat /\ mem \in Manager /\ "PERMANENT" \in Pool /\ "IMAGE" \in Pool
  BY MemoryAssumption DEF MemoryInv, ManagerOK, Pool
<1>2. Allocated(mem, mem') /\ UNCHANGED <<granted, wanted>>
  BY <1>1, AllocSmallAllocates, AllocLargeAllocates DEF AllocateSmall, AllocateLarge
<1>3. ManagerOK(mem', wanted)
  BY <1>2, AllocatedKeeps DEF MemoryInv
<1>4. GrantOK'
  <2>1. \A a \in Array : mem'.block[a] = mem.block[a]
    BY <1>2 DEF Allocated, SameArrays
  <2> QED BY <1>2, <2>1, GrantStays DEF MemoryInv
<1> QED BY <1>2, <1>3, <1>4 DEF MemoryInv

\* request_virt_sarray and request_virt_barray.
LEMMA RequestArrayKeeps ==
  ASSUME MemoryInv, NEW a \in Array, RequestArray(a)
  PROVE  MemoryInv'
<1>1. PICK heap \in Heap : mem' = RequestVirt(mem, a, heap)
  BY DEF RequestArray
<1>2. /\ ManagerOK(mem, wanted) /\ a \notin Range(mem.virt_list)
      /\ wanted' = [wanted EXCEPT ![a] = Untouched(a)] /\ granted' = granted
      /\ \A b \in Array : DOMAIN mem.block[b].mem_buffer = {}
  BY DEF RequestArray, MemoryInv, IsRealized
<1>3. /\ mem' \in Manager /\ Accounted(mem') /\ ListOK(mem')
      /\ ArrayOK(a, mem'.block[a], mem'.file[a], Untouched(a))
      /\ \A c \in Array : c # a => ArrayOK(c, mem'.block[c], mem'.file[c], wanted[c])
  BY <1>1, <1>2, RequestKeeps
<1>4. /\ wanted' = [c \in Array |-> wanted'[c]]
      /\ wanted'[a] = Untouched(a) /\ \A c \in Array : c # a => wanted'[c] = wanted[c]
  BY <1>2 DEF MemoryInv
<1>5. granted = NoGrant
  <2>1. ASSUME NEW b \in Array, granted.from \in Nat, granted.to \in Nat, granted.from < granted.to,
               Reads(mem.block[b], wanted[b], granted.from, granted.to)
        PROVE  FALSE
    <3>1. granted.from \in granted.from..granted.to - 1
      BY <2>1
    <3>2. InBuffer(mem.block[b], granted.from)
      BY <2>1, <3>1 DEF Reads
    <3> QED BY <1>2, <3>2 DEF InBuffer
  <2> QED BY <2>1 DEF MemoryInv, GrantOK
<1>6. GrantOK'
  BY <1>2, <1>5 DEF GrantOK
<1> QED BY <1>3, <1>4, <1>6 DEF MemoryInv, ManagerOK

\* realize_virt_arrays.
LEMMA RealizeArraysKeeps ==
  ASSUME MemoryInv, RealizeArrays
  PROVE  MemoryInv'
<1>1. PICK heap \in Heap, disk \in BOOLEAN : mem' = RealizeAll(mem, heap, disk)
  BY DEF RealizeArrays
<1>2. UNCHANGED <<granted, wanted>> /\ Waiting(mem) # {}
  BY DEF RealizeArrays
<1>3. /\ mem \in Manager /\ Accounted(mem) /\ FilesListed(mem)
      /\ \A a \in Array : BlockOK(a, mem.block[a]) /\ FileOK(a, mem.file[a])
  BY DEF MemoryInv, ManagerOK, ListOK, FilesListed, ArrayOK
<1>4. RealizedSome(mem, mem')
  BY <1>1, <1>2, <1>3, RealizeAllRealizes
<1>5. ManagerOK(mem', wanted)
  BY <1>4, RealizedKeeps DEF MemoryInv
<1>6. GrantOK'
  <2>1. \A a \in Array : mem'.block[a] = mem.block[a] \/ Bare(mem.block[a])
    BY <1>4 DEF RealizedSome
  <2> QED BY <1>2, <2>1, GrantStays DEF MemoryInv
<1> QED BY <1>2, <1>5, <1>6 DEF MemoryInv

\* access_virt_sarray and access_virt_barray.
LEMMA AccessKeeps ==
  ASSUME MemoryInv, Usable, NEW a \in Array, a \in Range(mem.virt_list), NEW r \in Rows(a),
         NEW n \in 1..2, NEW writable \in BOOLEAN, AccessRows(a, r, n, writable)
  PROVE  MemoryInv'
<1>1. /\ mem \in Manager /\ ~mem.failed /\ r \in Nat /\ n \in Nat \ {0}
      /\ ArrayOK(a, mem.block[a], mem.file[a], wanted[a])
  <2>1. r \in Nat /\ n \in Nat \ {0}
    BY DEF Rows
  <2> QED BY <2>1 DEF MemoryInv, ManagerOK, Usable
<1>2. /\ Accessed(a, mem, mem', wanted[a], r, r + n, writable)
      /\ ~mem'.failed => r + n <= Shape[a].rows
  BY <1>1, AccessVirtAccesses DEF AccessRows
<1>3. PICK c \in Block, f \in Lines :
        /\ OnlyArray(mem, mem', a, c, f) /\ ArrayOK(a, c, f, wanted[a])
        /\ c.b_s_open = mem.block[a].b_s_open
        /\ ~mem'.failed => /\ Reads(c, wanted[a], r, r + n)
                           /\ writable => c.dirty /\ r + n <= c.first_undef_row
  BY <1>2 DEF Accessed
<1>4. ManagerOK(mem', wanted)
  <2>1. ManagerOK(mem, wanted)
    BY DEF MemoryInv
  <2>2. /\ mem' \in Manager /\ Accounted(mem') /\ ListOK(mem')
        /\ ArrayOK(a, mem'.block[a], mem'.file[a], wanted[a])
        /\ \A d \in Array : d # a => ArrayOK(d, mem'.block[d], mem'.file[d], wanted[d])
    BY <1>3, <2>1, OnlyArrayKeeps
  <2> QED BY <2>2 DEF ManagerOK
<1>5. GrantOK'
  <2>1. CASE mem'.failed
    BY <2>1 DEF AccessRows, GrantOK
  <2>2. CASE ~mem'.failed
    <3>1. granted' = [array |-> {a}, from |-> r, to |-> r + n, writable |-> writable]
      BY <2>2 DEF AccessRows
    <3>2. mem'.block[a] = c /\ wanted' = wanted
      BY <1>3 DEF OnlyArray, AccessRows
    <3>3. r \in Nat /\ r + n \in Nat /\ r < r + n
      BY <1>1
    <3> QED BY <1>2, <1>3, <2>2, <3>1, <3>2, <3>3 DEF GrantOK
  <2> QED BY <2>1, <2>2
<1>6. wanted' = wanted
  BY DEF AccessRows
<1> QED BY <1>4, <1>5, <1>6 DEF MemoryInv

\* The rows granted are filled.
LEMMA FillRowsKeeps ==
  ASSUME MemoryInv, NEW a \in Array, NEW v \in Value[a], FillRows(a, v)
  PROVE  MemoryInv'
<1> DEFINE b == mem.block[a]
           from == granted.from
           to == granted.to
           g == [i \in DOMAIN b.mem_buffer |->
                   IF i + b.cur_start_row \in from..to - 1 THEN v ELSE b.mem_buffer[i]]
           u == [r \in Rows(a) |-> IF r \in from..to - 1 THEN v ELSE wanted[a][r]]
           c == [b EXCEPT !.mem_buffer = g]
<1>1. /\ mem \in Manager /\ b \in Block /\ ArrayOK(a, b, mem.file[a], wanted[a])
      /\ ManagerOK(mem, wanted)
  BY DEF MemoryInv, ManagerOK, Manager
<1>2. /\ from \in Nat /\ to \in Nat /\ from < to /\ to <= b.first_undef_row /\ b.dirty
      /\ Reads(b, wanted[a], from, to)
  <2>1. granted.array = {a} /\ granted.writable
    BY DEF FillRows
  <2>2. granted # NoGrant
    BY <2>1 DEF NoGrant
  <2> QED BY <2>1, <2>2 DEF MemoryInv, GrantOK
<1>3. \A r \in from..to - 1 : InBuffer(b, r)
  BY <1>2 DEF Reads
<1>4. a \in Range(mem.virt_list)
  <2>1. from \in from..to - 1
    BY <1>2
  <2>2. ~Bare(b)
    BY <1>3, <2>1, BareHoldsNone
  <2> QED BY <1>1, <2>2 DEF ManagerOK, ListOK
<1>5. /\ mem' = [mem EXCEPT !.block[a].mem_buffer = g]
      /\ wanted' = [wanted EXCEPT ![a] = u] /\ granted' = NoGrant
  BY <1>1 DEF FillRows
<1> HIDE DEF from, to
<1>6. ArrayOK(a, c, mem.file[a], u) /\ c \in Block
  <2> HIDE DEF b
  <2> QED BY <1>1, <1>2, <1>3, FillKeeps
<1>7. c.b_s_open = b.b_s_open
  BY <1>1 DEF Block
<1> HIDE DEF g, u
<1>8. mem' = [mem EXCEPT !.block[a] = c]
  BY <1>1, <1>5 DEF Manager, Block
<1> HIDE DEF c
<1>9. OnlyArray(mem, mem', a, c, mem.file[a])
  <2>1. mem.file[a] \in Lines
    BY <1>1 DEF Manager
  <2> QED BY <1>1, <1>6, <1>8, <2>1, OnlyArrayFacts
<1>10. /\ mem' \in Manager /\ Accounted(mem') /\ ListOK(mem')
       /\ ArrayOK(a, mem'.block[a], mem'.file[a], u)
       /\ \A d \in Array : d # a => ArrayOK(d, mem'.block[d], mem'.file[d], wanted[d])
  BY <1>1, <1>4, <1>6, <1>7, <1>9, OnlyArrayKeeps
<1>11. /\ wanted' = [d \in Array |-> wanted'[d]]
       /\ wanted'[a] = u /\ \A d \in Array : d # a => wanted'[d] = wanted[d]
  BY <1>5 DEF MemoryInv
<1>12. GrantOK'
  BY <1>5 DEF GrantOK
<1> QED BY <1>10, <1>11, <1>12 DEF MemoryInv, ManagerOK

\* Aborting frees the image pool, and the manager may be used again.
LEMMA AbortKeeps ==
  ASSUME MemoryInv, Abort
  PROVE  MemoryInv'
<1> DEFINE k == FreePool(mem, "IMAGE")
<1>1. ManagerOK(k, AllUntouched)
  BY FreeImageKeeps DEF MemoryInv
<1>2. mem' = [k EXCEPT !.failed = FALSE] /\ granted' = NoGrant /\ wanted' = AllUntouched
  BY DEF Abort, AllUntouched
<1> HIDE DEF k
<1>3. /\ mem' \in Manager /\ mem'.virt_list = k.virt_list /\ mem'.exists = k.exists
      /\ mem'.block = k.block /\ mem'.file = k.file
      /\ mem'.small_list = k.small_list /\ mem'.large_list = k.large_list
      /\ mem'.total_space_allocated = k.total_space_allocated
  BY <1>1, <1>2 DEF ManagerOK, Manager
<1>4. Accounted(mem')
  BY <1>1, <1>3, SameSpace DEF ManagerOK
<1>5. ManagerOK(mem', AllUntouched)
  BY <1>1, <1>3, <1>4 DEF ManagerOK, ListOK
<1>6. GrantOK' /\ wanted' = [a \in Array |-> wanted'[a]]
  BY <1>2 DEF GrantOK, AllUntouched
<1> QED BY <1>2, <1>5, <1>6 DEF MemoryInv

\* Destroying the object frees both pools.
LEMMA SelfDestructKeeps ==
  ASSUME MemoryInv, SelfDestruct
  PROVE  MemoryInv'
<1> DEFINE k == FreePool(FreePool(mem, "IMAGE"), "PERMANENT")
<1>1. ManagerOK(k, AllUntouched)
  <2>1. ManagerOK(FreePool(mem, "IMAGE"), AllUntouched)
    BY FreeImageKeeps DEF MemoryInv
  <2> QED BY <2>1, FreePermanentKeeps
<1>2. mem' = [k EXCEPT !.state = "destroyed"] /\ granted' = NoGrant /\ wanted' = AllUntouched
  BY DEF SelfDestruct, AllUntouched
<1> HIDE DEF k
<1>3. /\ mem' \in Manager /\ mem'.virt_list = k.virt_list /\ mem'.exists = k.exists
      /\ mem'.block = k.block /\ mem'.file = k.file
      /\ mem'.small_list = k.small_list /\ mem'.large_list = k.large_list
      /\ mem'.total_space_allocated = k.total_space_allocated
  BY <1>1, <1>2 DEF ManagerOK, Manager
<1>4. Accounted(mem')
  BY <1>1, <1>3, SameSpace DEF ManagerOK
<1>5. ManagerOK(mem', AllUntouched)
  BY <1>1, <1>3, <1>4 DEF ManagerOK, ListOK
<1>6. GrantOK' /\ wanted' = [a \in Array |-> wanted'[a]]
  BY <1>2 DEF GrantOK, AllUntouched
<1> QED BY <1>2, <1>5, <1>6 DEF MemoryInv

\* Every action keeps the invariant, and so does a step that does nothing.
LEMMA NextKeeps == MemoryInv /\ [Next]_vars => MemoryInv'
<1> SUFFICES ASSUME MemoryInv, [Next]_vars PROVE MemoryInv'
  OBVIOUS
<1>1. ASSUME NEW bytes \in ObjectSize, AllocateSmall(bytes) \/ AllocateLarge(bytes)
      PROVE  MemoryInv'
  BY <1>1, AllocateKeeps
<1>2. ASSUME NEW a \in Array, RequestArray(a) PROVE MemoryInv'
  BY <1>2, RequestArrayKeeps
<1>3. CASE RealizeArrays
  BY <1>3, RealizeArraysKeeps
<1>4. CASE AccessVirtSarray
  <2>1. PICK a \in Sarray \cap Range(mem.virt_list), n \in 1..2, w \in BOOLEAN :
          \E r \in Rows(a) : AccessRows(a, r, n, w)
    BY <1>4 DEF AccessVirtSarray
  <2>2. a \in Array /\ Usable
    BY <1>4 DEF Array, AccessVirtSarray
  <2> QED BY <2>1, <2>2, AccessKeeps
<1>5. CASE AccessVirtBarray
  <2>1. PICK a \in Barray \cap Range(mem.virt_list), n \in 1..2, w \in BOOLEAN :
          \E r \in Rows(a) : AccessRows(a, r, n, w)
    BY <1>5 DEF AccessVirtBarray
  <2>2. a \in Array /\ Usable
    BY <1>5 DEF Array, AccessVirtBarray
  <2> QED BY <2>1, <2>2, AccessKeeps
<1>6. ASSUME NEW a \in Array, NEW v \in Value[a], FillRows(a, v) PROVE MemoryInv'
  BY <1>6, FillRowsKeeps
<1>7. CASE Abort
  BY <1>7, AbortKeeps
<1>8. CASE SelfDestruct
  BY <1>8, SelfDestructKeeps
<1>9. CASE UNCHANGED vars
  BY <1>9 DEF vars, MemoryInv, GrantOK
<1> QED BY <1>1, <1>2, <1>3, <1>4, <1>5, <1>6, <1>7, <1>8, <1>9 DEF Next

-----------------------------------------------------------------------------
(* The theorems *)

\* The inductive invariant: the pools account for their space, the list for the
\* files, and every row is where the manager looks for it (jmemmgr.c).
THEOREM MemoryInvariant == Spec => []MemoryInv
  BY InitKeeps, NextKeeps, PTL DEF Spec

\* The types of the manager and its blocks, whatever allocation fails.
THEOREM MemoryTypes == Spec => []TypeOK
<1>1. MemoryInv => TypeOK
  <2> SUFFICES ASSUME MemoryInv PROVE TypeOK
    OBVIOUS
  <2>1. mem \in Manager /\ Accounted(mem) /\ IsInjective(mem.virt_list)
    BY DEF MemoryInv, ManagerOK, ListOK
  <2>2. mem.total_space_allocated \in Nat
    <3>1. \A p \in Pool : PoolSpace(mem, p) \in Nat
      BY <2>1, PoolSpaces
    <3>2. PoolSpace(mem, "IMAGE") \in Nat /\ PoolSpace(mem, "PERMANENT") \in Nat
      BY <3>1 DEF Pool
    <3> QED BY <2>1, <3>2, MemoryAssumption DEF Accounted
  <2>3. ASSUME NEW a \in Array
        PROVE  /\ Range(mem.block[a].mem_buffer) \subseteq Row(a)
               /\ DOMAIN mem.file[a] \subseteq Rows(a)
               /\ mem.block[a].first_undef_row \in 0..Shape[a].rows
               /\ granted.array = {a} => granted.to <= Shape[a].rows
    <3>1. granted.array = {a} => granted.to <= Shape[a].rows
      <4> SUFFICES ASSUME granted.array = {a} PROVE granted.to <= Shape[a].rows
        OBVIOUS
      <4>1. granted # NoGrant
        BY DEF NoGrant
      <4> QED BY <4>1 DEF MemoryInv, GrantOK
    <3>2. ArrayOK(a, mem.block[a], mem.file[a], wanted[a])
      BY DEF MemoryInv, ManagerOK
    <3> QED BY <3>1, <3>2 DEF ArrayOK, BlockOK, FileOK
  <2> QED BY <2>1, <2>2, <2>3 DEF TypeOK, Manager, Chunk
<1> QED BY <1>1, MemoryInvariant, PTL

\* The count kept of the memory in use is what the pools hold, in every state,
\* whatever sizes are asked for and whichever of them malloc refuses
\* (jmemmgr.c:253-447, free_pool).
THEOREM SpaceIsAccounted == Spec => []SpaceAccounted
<1>1. MemoryInv => SpaceAccounted
  BY DEF MemoryInv, ManagerOK, Accounted, SpaceAccounted
<1> QED BY <1>1, MemoryInvariant, PTL

\* Every row once granted to a writer reads as last written, in the strip or in the
\* file, for any shapes and any sequence of legal or refused accesses
\* (access_virt_sarray, do_sarray_io).
THEOREM EveryRowIsKept == Spec => []RowsKept
<1>1. MemoryInv => RowsKept
  <2> SUFFICES ASSUME MemoryInv, NEW a \in Range(mem.virt_list), NEW r \in Rows(a),
                      r < mem.block[a].first_undef_row, wanted[a][r] # "undefined"
               PROVE  Held(a, r) = wanted[a][r]
    BY DEF RowsKept
  <2>1. a \in Array
    BY DEF MemoryInv, ManagerOK, Manager, Range
  <2>2. RowOK(a, mem.block[a], mem.file[a], wanted[a], r)
    BY <2>1 DEF MemoryInv, ManagerOK, ArrayOK
  <2> QED BY <2>2 DEF RowOK, InBuffer, InWindow, Held
<1> QED BY <1>1, MemoryInvariant, PTL

\* A caller that was granted rows finds them in the buffer, within the array, and
\* reading as last written (jmemmgr.c:808-835).
THEOREM GrantsRead == Spec => []GrantReads
<1>1. MemoryInv => GrantReads
  <2> SUFFICES ASSUME MemoryInv, NEW a \in granted.array, NEW r \in granted.from..granted.to - 1
               PROVE  /\ r \in Rows(a) /\ InWindow(a, r)
                      /\ wanted[a][r] # "undefined" => Held(a, r) = wanted[a][r]
    BY DEF GrantReads
  <2>1. granted # NoGrant
    BY DEF NoGrant
  <2>2. /\ a \in Array /\ granted.from \in Nat /\ granted.to \in Nat
        /\ granted.to <= Shape[a].rows
        /\ Reads(mem.block[a], wanted[a], granted.from, granted.to)
    BY <2>1 DEF MemoryInv, GrantOK
  <2>3. r \in Rows(a)
    BY <2>2, MemoryAssumption DEF Rows
  <2> QED BY <2>2, <2>3 DEF Reads, InBuffer, InWindow, Held
<1> QED BY <1>1, MemoryInvariant, PTL

\* Every temporary file that exists will be closed when the image pool is freed,
\* also after a failure between two arrays (jmemmgr.c:633-665).
THEOREM NoFileIsLost == Spec => []NoFileLost
<1>1. MemoryInv => NoFileLost
  BY DEF MemoryInv, ManagerOK, ListOK, NoFileLost
<1> QED BY <1>1, MemoryInvariant, PTL
=============================================================================
