------------------------------ MODULE Folding ------------------------------
(***************************************************************************)
(* FoldLeft of the community modules, for one operator and one claim about  *)
(* its values: an instance of this module names the two, and has the claim  *)
(* of the fold if it holds at first and the operator keeps it.  With the    *)
(* lemmas about natural numbers that this and other proofs rest on.         *)
(***************************************************************************)
EXTENDS Integers, Sequences, Folds
LOCAL INSTANCE WellFoundedInduction
LOCAL INSTANCE TLAPS

CONSTANTS
    Op(_, _, _),   \* what is known all the while, the value so far, the next element
    Good(_, _)     \* what is known all the while, a value

-----------------------------------------------------------------------------
(* Sets of natural numbers have extremes; induction up to a bound; recursive *)
(* functions of a number exist.                                              *)

\* A set of numbers that is not empty has a smallest one.
LEMMA HasSmallest ==
    ASSUME NEW S, S \subseteq Nat, S # {}
    PROVE  \E x \in S : \A y \in S : x <= y
<1> DEFINE R == OpToRel(<, Nat)
<1>1. IsWellFoundedOn(R, Nat)
  BY NatLessThanWellFounded
<1>2. PICK x \in S : \A y \in S : ~ (<<y, x>> \in R)
  BY <1>1, WFMin
<1>3. \A y \in S : x \in Nat /\ y \in Nat
  BY <1>2
<1>4. \A y \in S : x \in Nat /\ y \in Nat /\ ~(y < x)
  BY <1>2, <1>3 DEF OpToRel
<1>5. \A y \in S : x <= y
  BY <1>4
<1> QED BY <1>2, <1>5

\* A set of numbers that is not empty has a greatest one, if it is bounded.
LEMMA HasGreatest ==
    ASSUME NEW N \in Nat, NEW S, S \subseteq (1..N), S # {}
    PROVE  \E x \in S : \A y \in S : y <= x
<1> DEFINE T == {N - x : x \in S}
<1>1. T \subseteq Nat /\ T # {}
  <2>1. \A x \in S : x \in 1..N
    OBVIOUS
  <2>2. \A x \in S : N - x \in Nat
    BY <2>1
  <2> QED BY <2>2
<1>2. PICK t \in T : \A u \in T : t <= u
  BY <1>1, HasSmallest
<1>3. PICK x \in S : t = N - x
  OBVIOUS
<1>4. \A y \in S : N - x <= N - y
  BY <1>2, <1>3
<1>5. \A y \in S : y \in 1..N /\ x \in 1..N
  OBVIOUS
<1>6. \A y \in S : y <= x
  BY <1>4, <1>5
<1> QED BY <1>6

\* Zero is in a set, and whatever follows a member up to a bound.
Hereditary(S, N) == 0 \in S /\ \A k \in 1..N : k - 1 \in S => k \in S

\* Induction up to a bound: what holds at 0 and goes from k - 1 to k holds of all.
\* The claim is the set of the numbers it holds of.
LEMMA BoundedInduction ==
    ASSUME NEW N \in Nat, NEW S, Hereditary(S, N)
    PROVE  0..N \subseteq S
<1> DEFINE bad == {k \in 0..N : k \notin S}
<1> SUFFICES ASSUME bad # {} PROVE FALSE
  OBVIOUS
<1>1. PICK k \in bad : \A j \in bad : k <= j
  <2>1. bad \subseteq Nat
    OBVIOUS
  <2> QED BY <2>1, HasSmallest
<1>2. k \in 1..N /\ k - 1 \in 0..N /\ ~(k <= k - 1)
  BY DEF Hereditary
<1> QED BY <1>1, <1>2 DEF Hereditary

\* The values up to N of a function defined by recursion on a number, each by a
\* step from the one before.
Iterates(f, N, X, base, step) ==
    /\ f \in [0..N -> X]
    /\ f[0] = base
    /\ \A k \in 1..N : f[k] = step[k][f[k - 1]]

\* There is such a function.
LEMMA RecursionExists ==
    ASSUME NEW N \in Nat, NEW X, NEW base \in X, NEW step \in [1..N -> [X -> X]]
    PROVE  \E f : Iterates(f, N, X, base, step)
<1> DEFINE Upto(n, f) == Iterates(f, n, X, base, step)
           S == {n \in 0..N : \E f : Upto(n, f)}
<1>1. 0 \in S
  <2>1. Upto(0, [k \in 0..0 |-> base])
    BY DEF Iterates
  <2>2. \E f : Upto(0, f)
    <3> HIDE DEF Upto
    <3> QED BY <2>1
  <2> QED BY <2>2
<1>2. ASSUME NEW n \in 1..N, n - 1 \in S
      PROVE  n \in S
  <2>1. PICK f : Upto(n - 1, f)
    BY <1>2
  <2> USE <2>1 DEF Iterates
  <2> DEFINE g == [k \in 0..n |-> IF k = n THEN step[n][f[n - 1]] ELSE f[k]]
  <2>2. n - 1 \in Nat /\ \A k \in 0..n : k # n => k \in 0..(n - 1)
    OBVIOUS
  <2>3. step[n][f[n - 1]] \in X
    BY <2>1, <2>2
  <2>4. g \in [0..n -> X]
    BY <2>1, <2>2, <2>3
  <2>5. ASSUME NEW k \in 1..n PROVE g[k] = step[k][g[k - 1]]
    <3>1. k - 1 \in 0..n /\ k - 1 # n
      OBVIOUS
    <3>2. g[k - 1] = f[k - 1]
      BY <3>1
    <3>3. CASE k = n
      <4>1. g[k] = step[n][f[n - 1]]
        BY <3>3
      <4> HIDE DEF g
      <4> QED BY <4>1, <3>2, <3>3
    <3>4. CASE k # n
      BY <3>2, <3>4, <2>1, <2>2
    <3> QED BY <3>3, <3>4
  <2>6. g[0] = base
    BY <2>1
  <2>7. Upto(n, g)
    BY <2>4, <2>5, <2>6
  <2>8. \E h : Upto(n, h)
    <3> HIDE DEF Upto, g
    <3> QED BY <2>7
  <2> HIDE DEF Iterates, g
  <2> QED BY <2>8
<1>3. N \in S
  <2>1. Hereditary(S, N)
    <3> HIDE DEF S
    <3> QED BY <1>1, <1>2 DEF Hereditary
  <2> HIDE DEF S
  <2>2. 0..N \subseteq S
    BY <2>1, BoundedInduction
  <2> QED BY <2>2
<1> QED BY <1>3

-----------------------------------------------------------------------------
(* Folds *)

\* FoldLeft of SequencesExt with its definition expanded: an instance of this module
\* then carries none of that one's operators along.
Greatest(S) == CHOOSE x \in S : \A y \in S : x >= y
Fold(c, base, s) ==
    MapThenFoldSet(LAMBDA x, value : Op(c, value, x), base, LAMBDA k : s[k], LAMBDA S : Greatest(S), DOMAIN s)

Keeps(c, x) == \A value : Good(c, value) => Good(c, Op(c, value, x))

\* The value before the first element, and after each.
Steps(c, base, s, f) == f[0] = base /\ \A k \in 1..Len(s) : f[k] = Op(c, f[k - 1], s[k])

LEMMA MaxOfPrefix ==
    ASSUME NEW k \in Nat, k # 0
    PROVE  Greatest(1..k) = k /\ (1..k) \ {k} = 1..(k - 1)
<1> DEFINE IsMax(x) == x \in 1..k /\ \A y \in 1..k : x >= y
<1>1. IsMax(k) /\ \A x : IsMax(x) => x = k
  OBVIOUS
<1>2. Greatest(1..k) = (CHOOSE x : IsMax(x))
  BY DEF Greatest
<1>3. IsMax(CHOOSE x : IsMax(x))
  <2> HIDE DEF IsMax
  <2> QED BY <1>1
<1>4. Greatest(1..k) = k
  <2> HIDE DEF IsMax
  <2> QED BY <1>1, <1>2, <1>3
<1> QED BY <1>4

\* Without its greatest number a set of numbers up to n is one of numbers up to n - 1.
LEMMA MaxRemoved ==
    ASSUME NEW n \in Nat \ {0}, NEW S \in SUBSET (1..n), S # {}
    PROVE  S \ {Greatest(S)} \in SUBSET (1..(n - 1))
<1> DEFINE IsMax(x) == x \in S /\ \A y \in S : x >= y
<1>1. PICK x \in S : \A y \in S : y <= x
  BY HasGreatest
<1>2. S \subseteq Nat /\ IsMax(x)
  BY <1>1
<1>3. Greatest(S) = (CHOOSE z : IsMax(z))
  BY DEF Greatest
<1>4. IsMax(Greatest(S))
  <2> HIDE DEF IsMax
  <2> QED BY <1>2, <1>3
<1> DEFINE m == Greatest(S)
<1>5. m \in 1..n /\ \A y \in S : y \in 1..n /\ y <= m
  BY <1>4
<1> HIDE DEF m
<1>6. \A y \in S \ {m} : y \in 1..(n - 1)
  BY <1>5
<1> QED BY <1>6 DEF m

\* The fold goes through such values, and its own is the last of them.
LEMMA FoldGoesThrough ==
    ASSUME NEW c, NEW base, NEW X, NEW s \in Seq(X)
    PROVE  \E f : Steps(c, base, s, f) /\ Fold(c, base, s) = f[Len(s)]
<1> DEFINE N == Len(s)
           Step(S, g) == IF S = {} THEN base ELSE Op(c, g[S \ {Greatest(S)}], s[Greatest(S)])
           Upto(n, g) == g = [S \in SUBSET (1..n) |-> Step(S, g)]
           K == {n \in 0..N : \E g : Upto(n, g)}
<1>1. N \in Nat /\ DOMAIN s = 1..N
  OBVIOUS
<1>2. 0 \in K
  <2>1. Upto(0, [S \in SUBSET (1..0) |-> base])
    <3>1. \A S \in SUBSET (1..0) : S = {}
      OBVIOUS
    <3> QED BY <3>1
  <2> HIDE DEF Upto
  <2> QED BY <1>1, <2>1
<1>3. ASSUME NEW n \in 1..N, n - 1 \in K PROVE n \in K
  <2>1. PICK g : Upto(n - 1, g)
    BY <1>3
  <2> DEFINE h == [S \in SUBSET (1..n) |-> IF S \in SUBSET (1..(n - 1)) THEN g[S] ELSE Step(S, g)]
  <2>2. ASSUME NEW S \in SUBSET (1..(n - 1)) PROVE g[S] = Step(S, g)
    <3> HIDE DEF Step
    <3> QED BY <2>1
  <2>3. ASSUME NEW S \in SUBSET (1..n) PROVE Step(S, h) = Step(S, g)
    <3>1. CASE S # {}
      <4> DEFINE R == S \ {Greatest(S)}
      <4>1. R \in SUBSET (1..(n - 1))
        BY <1>1, <3>1, MaxRemoved
      <4>2. R \in SUBSET (1..n)
        BY <1>1, <4>1
      <4>3. h[R] = g[R]
        <5> HIDE DEF R, Step
        <5> QED BY <4>1, <4>2
      <4> HIDE DEF h
      <4> QED BY <3>1, <4>3
    <3> QED BY <3>1
  <2>4. \A S \in SUBSET (1..n) : h[S] = Step(S, h)
    <3> HIDE DEF Step
    <3> QED BY <2>2, <2>3
  <2>5. Upto(n, h)
    <3>1. h = [S \in SUBSET (1..n) |-> h[S]]
      <4> HIDE DEF Step
      <4> QED OBVIOUS
    <3> HIDE DEF h, Step
    <3> QED BY <2>4, <3>1
  <2> HIDE DEF Upto, h
  <2> QED BY <2>5
<1>4. \E g : Upto(N, g)
  <2>1. Hereditary(K, N)
    <3> HIDE DEF K
    <3> QED BY <1>2, <1>3 DEF Hereditary
  <2>2. N \in K
    <3> HIDE DEF K
    <3> QED BY <1>1, <2>1, BoundedInduction
  <2> HIDE DEF Upto
  <2> QED BY <2>2
<1> DEFINE g == CHOOSE g : Upto(N, g)
<1>5. Upto(N, g)
  <2> HIDE DEF Upto
  <2> QED BY <1>4
<1>6. Fold(c, base, s) = g[1..N]
  BY <1>1 DEF Fold, MapThenFoldSet
<1> HIDE DEF g
<1>7. ASSUME NEW S \in SUBSET (1..N) PROVE g[S] = Step(S, g)
  <2> HIDE DEF Step
  <2> QED BY <1>5
<1> DEFINE f == [k \in 0..N |-> g[1..k]]
<1>8. f[0] = base
  <2>1. 1..0 = {} /\ {} \in SUBSET (1..N)
    OBVIOUS
  <2>2. g[{}] = base
    BY <1>7, <2>1
  <2>3. f[0] = g[1..0]
    BY <1>1
  <2> HIDE DEF f
  <2> QED BY <2>1, <2>2, <2>3
<1>9. ASSUME NEW k \in 1..N PROVE f[k] = Op(c, f[k - 1], s[k])
  <2>1. 1..k \in SUBSET (1..N) /\ 1..k # {} /\ k \in Nat /\ k # 0 /\ k - 1 \in 0..N /\ k \in 0..N
    BY <1>1
  <2>2. g[1..k] = Op(c, g[(1..k) \ {Greatest(1..k)}], s[Greatest(1..k)])
    BY <1>7, <2>1
  <2>3. g[1..k] = Op(c, g[1..(k - 1)], s[k])
    BY <2>1, <2>2, MaxOfPrefix
  <2>4. f[k] = g[1..k] /\ f[k - 1] = g[1..(k - 1)]
    BY <2>1
  <2> HIDE DEF f
  <2> QED BY <2>3, <2>4
<1>10. f[N] = g[1..N]
  BY <1>1
<1> HIDE DEF f
<1>11. Steps(c, base, s, f) /\ Fold(c, base, s) = f[Len(s)]
  BY <1>6, <1>8, <1>9, <1>10 DEF Steps
<1> QED BY <1>11

\* What holds after one element, and is kept at every later one, holds at last.
LEMMA StepsReach ==
    ASSUME NEW c, NEW base, NEW X, NEW s \in Seq(X), NEW f, Steps(c, base, s, f),
           NEW i \in 0..Len(s), Good(c, f[i]), \A k \in DOMAIN s : k > i => Keeps(c, s[k])
    PROVE  Good(c, f[Len(s)])
<1> DEFINE N == Len(s)
           K == {k \in 0..N : k >= i => Good(c, f[k])}
<1>1. N \in Nat /\ DOMAIN s = 1..N
  OBVIOUS
<1>2. 0 \in K
  BY <1>1
<1>3. ASSUME NEW k \in 1..N, k - 1 \in K PROVE k \in K
  <2>1. CASE k > i
    <3>1. Good(c, f[k - 1]) /\ f[k] = Op(c, f[k - 1], s[k]) /\ Keeps(c, s[k])
      BY <1>1, <1>3, <2>1 DEF Steps
    <3> QED BY <1>1, <3>1 DEF Keeps
  <2>2. CASE ~(k > i)
    BY <1>1, <2>2
  <2> QED BY <2>1, <2>2
<1>4. Hereditary(K, N)
  <2> HIDE DEF K
  <2> QED BY <1>2, <1>3 DEF Hereditary
<1>5. N \in K
  <2> HIDE DEF K
  <2> QED BY <1>1, <1>4, BoundedInduction
<1> QED BY <1>1, <1>5

\* What holds at first, and is kept at every element, holds at last.
LEMMA FoldKeeps ==
    ASSUME NEW c, NEW base, Good(c, base),
           NEW X, NEW s \in Seq(X), \A k \in DOMAIN s : Keeps(c, s[k])
    PROVE  Good(c, Fold(c, base, s))
<1>1. PICK f : Steps(c, base, s, f) /\ Fold(c, base, s) = f[Len(s)]
  BY FoldGoesThrough
<1>2. 0 \in 0..Len(s) /\ Good(c, f[0])
  BY <1>1 DEF Steps
<1> QED BY <1>1, <1>2, StepsReach

\* So does what one element brings about, and the later ones keep.
LEMMA FoldReaches ==
    ASSUME NEW c, NEW base, NEW X, NEW s \in Seq(X), NEW i \in DOMAIN s,
           \A value : Good(c, Op(c, value, s[i])),
           \A k \in DOMAIN s : k > i => Keeps(c, s[k])
    PROVE  Good(c, Fold(c, base, s))
<1>1. PICK f : Steps(c, base, s, f) /\ Fold(c, base, s) = f[Len(s)]
  BY FoldGoesThrough
<1>2. i \in 1..Len(s) /\ i \in 0..Len(s)
  OBVIOUS
<1>3. Good(c, f[i])
  BY <1>1, <1>2 DEF Steps
<1> QED BY <1>1, <1>2, <1>3, StepsReach

-----------------------------------------------------------------------------
(* Finite sets, and folds over them *)

\* What cardinality is to the parts of a finite set of N members.
Sizes(S, N, size) ==
    /\ N \in Nat /\ size \in [SUBSET S -> 0..N]
    /\ \A T \in SUBSET S : /\ size[T] = 0 <=> T = {}
                           /\ \A x \in T : size[T \ {x}] = size[T] - 1

\* What is in F, is so for being there without any one of its members.
Builds(S, F) == \A T \in SUBSET S : (\A x \in T : T \ {x} \in F) => T \in F

\* Induction over the parts of a finite set, one member at a time.
LEMMA SubsetInduction ==
    ASSUME NEW S, NEW N, NEW size, Sizes(S, N, size), NEW F, Builds(S, F)
    PROVE  SUBSET S \subseteq F
<1> DEFINE K == {n \in 0..N : \A T \in SUBSET S : size[T] = n => T \in F}
<1>1. N \in Nat
  BY DEF Sizes
<1>2. 0 \in K
  <2>1. ASSUME NEW T \in SUBSET S, size[T] = 0 PROVE T \in F
    BY <2>1 DEF Sizes, Builds
  <2> QED BY <1>1, <2>1
<1>3. ASSUME NEW n \in 1..N, n - 1 \in K PROVE n \in K
  <2>1. ASSUME NEW T \in SUBSET S, size[T] = n PROVE T \in F
    <3>1. \A x \in T : T \ {x} \in SUBSET S /\ size[T \ {x}] = n - 1
      BY <2>1 DEF Sizes
    <3> QED BY <1>3, <3>1 DEF Builds
  <2> QED BY <1>1, <2>1
<1>4. 0..N \subseteq K
  <2>1. Hereditary(K, N)
    <3> HIDE DEF K
    <3> QED BY <1>2, <1>3 DEF Hereditary
  <2> HIDE DEF K
  <2> QED BY <1>1, <2>1, BoundedInduction
<1>5. \A T \in SUBSET S : size[T] \in 0..N
  BY DEF Sizes
<1> QED BY <1>4, <1>5

\* What MapThenFoldSet makes of a set, an element at a time in the order that CHOOSE has.
First(T) == CHOOSE x \in T : TRUE
SetFold(c, base, S) ==
    MapThenFoldSet(LAMBDA x, value : Op(c, value, x), base, LAMBDA x : x,
                   LAMBDA T : CHOOSE x \in T : TRUE, S)

\* The value for each part of the set.
SetSteps(c, base, S, h) ==
    \A T \in SUBSET S :
        h[T] = IF T = {} THEN base ELSE Op(c, h[T \ {First(T)}], First(T))

LEMMA SetFoldGoesThrough ==
    ASSUME NEW c, NEW base, NEW S, NEW N, NEW size, Sizes(S, N, size)
    PROVE  \E h : SetSteps(c, base, S, h) /\ SetFold(c, base, S) = h[S]
<1> DEFINE Step(T, g) == IF T = {} THEN base ELSE Op(c, g[T \ {First(T)}], First(T))
           Small(n) == {T \in SUBSET S : size[T] <= n}
           Upto(n, g) == g = [T \in Small(n) |-> Step(T, g)]
           K == {n \in 0..N : \E g : Upto(n, g)}
<1>1. N \in Nat /\ Small(N) = SUBSET S
  BY DEF Sizes
<1>2. ASSUME NEW T \in SUBSET S PROVE size[T] \in Nat /\ (size[T] = 0 <=> T = {})
  BY DEF Sizes
<1>a. /\ \A T \in Small(0) : T = {}
      /\ \A n \in 1..N : /\ Small(n - 1) \subseteq Small(n)
                         /\ \A T \in Small(n) : T # {} => T \ {First(T)} \in Small(n - 1) /\ First(T) \in S
  <2>1. ASSUME NEW T \in Small(0) PROVE T = {}
    BY <1>2
  <2>2. ASSUME NEW n \in 1..N, NEW T \in Small(n - 1) PROVE T \in Small(n)
    <3>1. T \in SUBSET S /\ size[T] <= n - 1 /\ size[T] \in Nat
      BY <1>1, <1>2
    <3> QED BY <1>1, <3>1
  <2>3. ASSUME NEW n \in 1..N, NEW T \in Small(n), T # {}
        PROVE  T \ {First(T)} \in Small(n - 1) /\ First(T) \in S
    <3> DEFINE x == First(T)
    <3>1. T \in SUBSET S /\ size[T] <= n /\ x \in T
      BY <2>3 DEF First
    <3> HIDE DEF x
    <3>2. size[T \ {x}] = size[T] - 1 /\ size[T] \in Nat
      BY <1>2, <3>1 DEF Sizes
    <3>3. T \ {x} \in Small(n - 1) /\ x \in S
      BY <1>1, <3>1, <3>2
    <3> QED BY <3>3 DEF x
  <2> HIDE DEF Small
  <2> QED BY <2>1, <2>2, <2>3
<1>3. 0 \in K
  <2> DEFINE g == [T \in Small(0) |-> base]
  <2>1. \A T \in Small(0) : T = {}
    <3> HIDE DEF Small
    <3> QED BY <1>a
  <2>2. Upto(0, g)
    BY <2>1
  <2> HIDE DEF Upto, g
  <2> QED BY <1>1, <2>2
<1>4. ASSUME NEW n \in 1..N, n - 1 \in K PROVE n \in K
  <2>1. PICK g : Upto(n - 1, g)
    BY <1>4
  <2> DEFINE h == [T \in Small(n) |-> IF T \in Small(n - 1) THEN g[T] ELSE Step(T, g)]
  <2>2. \A T \in Small(n - 1) : T \in Small(n) /\ g[T] = Step(T, g)
    <3>1. \A T \in Small(n - 1) : g[T] = Step(T, g)
      <4> HIDE DEF Step, Small
      <4> QED BY <2>1
    <3>2. \A T \in Small(n - 1) : T \in Small(n)
      <4> HIDE DEF Small
      <4> QED BY <1>a
    <3> QED BY <3>1, <3>2
  <2>3. ASSUME NEW T \in Small(n), T # {}
        PROVE  LET R == T \ {First(T)} IN R \in Small(n - 1) /\ h[R] = g[R] /\ First(T) \in S
    <3> DEFINE R == T \ {First(T)}
    <3>1. R \in Small(n - 1) /\ First(T) \in S
      <4> HIDE DEF Small
      <4> QED BY <1>a, <2>3
    <3>2. R \in Small(n)
      BY <2>2, <3>1
    <3> HIDE DEF R, Small, Step
    <3>3. h[R] = g[R]
      BY <3>1, <3>2
    <3> HIDE DEF h
    <3> QED BY <3>1, <3>3 DEF R
  <2>4. \A T \in Small(n) : Step(T, h) = Step(T, g)
    <3> HIDE DEF h, Small
    <3> QED BY <2>3
  <2>5. \A T \in Small(n) : h[T] = Step(T, g)
    <3> HIDE DEF Step, Small
    <3> QED BY <2>2
  <2>6. Upto(n, h)
    <3>1. h = [T \in Small(n) |-> h[T]]
      <4> HIDE DEF Step, Small
      <4> QED OBVIOUS
    <3> HIDE DEF h, Step, Small
    <3> QED BY <2>4, <2>5, <3>1
  <2> HIDE DEF Upto, h
  <2> QED BY <2>6
<1>5. \E g : Upto(N, g)
  <2>1. Hereditary(K, N)
    <3> HIDE DEF K
    <3> QED BY <1>3, <1>4 DEF Hereditary
  <2>2. N \in K
    <3> HIDE DEF K
    <3> QED BY <1>1, <2>1, BoundedInduction
  <2> HIDE DEF Upto
  <2> QED BY <2>2
<1> DEFINE Full(g) == g = [T \in SUBSET S |-> Step(T, g)]
           h == CHOOSE g : Full(g)
<1>6. Full(h)
  <2>1. \A g : Upto(N, g) => Full(g)
    <3> HIDE DEF Small, Step
    <3> QED BY <1>1
  <2> HIDE DEF Upto, Full
  <2> QED BY <1>5, <2>1
<1>7. SetFold(c, base, S) = h[S]
  BY DEF SetFold, MapThenFoldSet, First
<1> HIDE DEF h
<1>8. \A T \in SUBSET S : h[T] = Step(T, h)
  <2> HIDE DEF Step
  <2> QED BY <1>6
<1>9. SetSteps(c, base, S, h)
  BY <1>8 DEF SetSteps
<1> QED BY <1>7, <1>9
=============================================================================
