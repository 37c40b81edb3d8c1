-------------------------- MODULE DedupWorkerProofs --------------------------
(***************************************************************************)
(* Proofs about the dedup workers (module DedupWorker), for any corpus and   *)
(* any number of instances: the types, the lock while it is a run's own, the *)
(* soundness of each pass, what stays settled, and what a run that nothing   *)
(* disturbs leaves unmatched.  First, for every corpus whatever, what the    *)
(* builders of module Matching find: each group is sound pairwise, and       *)
(* greedy clustering around an anchor hides no pair of notices that match.   *)
(***************************************************************************)
EXTENDS DedupWorker, FiniteSetTheorems, TLAPS

\* The lemmas about numbers beside those about folds, which take an operator each.
Numbers == INSTANCE Folding WITH Op <- LAMBDA c, value, x : value, Good <- LAMBDA c, value : TRUE

-----------------------------------------------------------------------------
(* Gathering *)

\* One more notice of the order.
Joins(order, free, near, agree, k, j, members) ==
    {n \in free \cap {order[j]} :
        <<n, order[k]>> \in near /\ Agrees(agree, n, order[k], members)}

\* What is gathered, notice by notice.
GatherRun(f, window, order, free, near, agree, k) ==
    /\ f \in [0..Len(order) -> SUBSET window]
    /\ Gather(order, free, near, agree, k) = f[Len(order)]
    /\ \A j \in 0..k : f[j] = {order[k]}
    /\ \A j \in (k + 1)..Len(order) :
          f[j] = f[j - 1] \cup Joins(order, free, near, agree, k, j, f[j - 1])

\* The recursion of Gather is well founded.
LEMMA GatherSteps ==
    ASSUME NEW window, NEW order \in Seq(window), NEW free, free \subseteq window,
           NEW near, NEW agree, NEW k \in 1..Len(order)
    PROVE  \E f : GatherRun(f, window, order, free, near, agree, k)
<1> DEFINE N == Len(order)
           X == SUBSET window
           Following(j, S) == IF j <= k THEN {order[k]}
                         ELSE S \cup Joins(order, free, near, agree, k, j, S)
           base == {order[k]}
           step == [j \in 1..N |-> [S \in X |-> Following(j, S)]]
           Rec(f) == f = [j \in 0..N |-> IF j <= k THEN {order[k]}
                                         ELSE f[j - 1] \cup Joins(order, free, near, agree, k, j, f[j - 1])]
<1>1. N \in Nat /\ order[k] \in window
  OBVIOUS
<1>2. step \in [1..N -> [X -> X]]
  <2>1. ASSUME NEW j \in 1..N, NEW S \in X PROVE Following(j, S) \in X
    BY <1>1 DEF Joins
  <2> HIDE DEF Following, X
  <2> QED BY <2>1
<1>3. PICK f : Numbers!Iterates(f, N, X, base, step)
  <2>1. base \in X
    BY <1>1
  <2> HIDE DEF step, X, N, base
  <2> QED BY <1>1, <1>2, <2>1, Numbers!RecursionExists
<1>4. /\ f \in [0..N -> X] /\ f[0] = base
      /\ \A j \in 1..N : f[j] = step[j][f[j - 1]]
  BY <1>3 DEF Numbers!Iterates
<1>5. \A j \in 1..N : f[j] = Following(j, f[j - 1])
  <2> TAKE j \in 1..N
  <2>1. j - 1 \in 0..N
    BY <1>1
  <2>2. f[j - 1] \in X
    BY <2>1, <1>4
  <2> HIDE DEF Following, X
  <2> QED BY <2>2, <1>4
<1>6. Rec(f)
  <2>1. \A j \in 0..N : f[j] = Following(j, f[j - 1])
    <3> TAKE j \in 0..N
    <3>1. CASE j = 0
      <4>1. f[0] = {order[k]} /\ 0 <= k
        BY <1>1, <1>4
      <4> QED BY <3>1, <4>1
    <3>2. CASE j # 0
      <4>1. j \in 1..N
        BY <3>2, <1>1
      <4> QED BY <1>5, <4>1
    <3> QED BY <3>1, <3>2
  <2> HIDE DEF X
  <2> QED BY <2>1, <1>4
<1>7. Gather(order, free, near, agree, k) = (CHOOSE g : Rec(g))[N]
  BY DEF Gather, Joins
<1>8. Rec(CHOOSE g : Rec(g))
  <2>1. \E g : Rec(g)
    <3> HIDE DEF Rec
    <3> QED BY <1>6
  <2> HIDE DEF Rec
  <2> QED BY <2>1
<1>9. PICK g : Rec(g) /\ Gather(order, free, near, agree, k) = g[N]
  <2> HIDE DEF Rec
  <2> QED BY <1>7, <1>8
<1>10. \A j \in 0..N : g[j] = IF j <= k THEN {order[k]}
                            ELSE g[j - 1] \cup Joins(order, free, near, agree, k, j, g[j - 1])
  BY <1>9
<1>11. \A j \in 0..N : g[j] \in X
  <2> DEFINE S == {i \in 0..N : g[i] \in X}
  <2>1. 0 \in S
    <3>1. 0 \in 0..N /\ 0 <= k
      BY <1>1
    <3>2. g[0] = {order[k]}
      BY <3>1, <1>10
    <3> QED BY <1>1, <3>1, <3>2
  <2>2. ASSUME NEW j \in 1..N, j - 1 \in S PROVE j \in S
    <3>1. j \in 0..N /\ g[j - 1] \in X
      BY <2>2
    <3>2. Joins(order, free, near, agree, k, j, g[j - 1]) \in X
      BY DEF Joins
    <3>3. g[j] \in X
      BY <1>1, <1>10, <3>1, <3>2
    <3> QED BY <3>1, <3>3
  <2> HIDE DEF S
  <2>3. Numbers!Hereditary(S, N)
    BY <2>1, <2>2 DEF Numbers!Hereditary
  <2>4. 0..N \subseteq S
    BY <1>1, <2>3, Numbers!BoundedInduction
  <2> QED BY <2>4 DEF S
<1>12. g \in [0..N -> X]
  <2>1. g = [j \in 0..N |-> g[j]]
    BY <1>9
  <2> HIDE DEF X, Rec
  <2> QED BY <1>11, <2>1
<1>13. /\ \A j \in 0..k : g[j] = {order[k]}
       /\ \A j \in (k + 1)..N :
             g[j] = g[j - 1] \cup Joins(order, free, near, agree, k, j, g[j - 1])
  <2> HIDE DEF X, Rec, step, Following
  <2>1. ASSUME NEW j \in 0..k PROVE g[j] = {order[k]}
    <3>1. j \in 0..N /\ j <= k
      BY <1>1
    <3> QED BY <1>10, <3>1
  <2>2. ASSUME NEW j \in (k + 1)..N
        PROVE  g[j] = g[j - 1] \cup Joins(order, free, near, agree, k, j, g[j - 1])
    <3>1. j \in 0..N /\ ~(j <= k)
      BY <1>1
    <3> QED BY <1>10, <3>1
  <2> QED BY <2>1, <2>2
<1>14. GatherRun(g, window, order, free, near, agree, k)
  <2> HIDE DEF Rec, step, Following
  <2> QED BY <1>9, <1>12, <1>13 DEF GatherRun
<1> QED BY <1>14

\* The notices gathered by the k-th are that one and later ones, free and near it,
\* and agree pairwise.
GatheredSound(order, free, near, agree, k, j, members) ==
    /\ order[k] \in members
    /\ \A n \in members \ {order[k]} :
          /\ n \in free /\ <<n, order[k]>> \in near
          /\ \E i \in (k + 1)..j : order[i] = n
    /\ \A n, m \in members : n # m => <<n, m>> \in agree \/ <<m, n>> \in agree

LEMMA GatherSound ==
    ASSUME NEW window, NEW order \in Seq(window), NEW free, free \subseteq window,
           NEW near, NEW agree, NEW k \in 1..Len(order)
    PROVE  GatheredSound(order, free, near, agree, k, Len(order),
                         Gather(order, free, near, agree, k))
<1> DEFINE N == Len(order)
           Sound(j, members) == GatheredSound(order, free, near, agree, k, j, members)
<1>1. N \in Nat
  OBVIOUS
<1>2. PICK f : GatherRun(f, window, order, free, near, agree, k)
  BY GatherSteps
<1>3. ASSUME NEW j \in 0..k PROVE Sound(j, f[j])
  <2>1. f[j] = {order[k]}
    BY <1>2 DEF GatherRun
  <2> QED BY <2>1 DEF GatheredSound
<1>4. ASSUME NEW j \in (k + 1)..N, Sound(j - 1, f[j - 1]) PROVE Sound(j, f[j])
  <2>1. f[j] = f[j - 1] \cup Joins(order, free, near, agree, k, j, f[j - 1])
    BY <1>2 DEF GatherRun
  <2>2. \A n \in f[j] \ f[j - 1] :
           /\ n = order[j] /\ n \in free /\ <<n, order[k]>> \in near
           /\ \A m \in f[j - 1] : <<n, m>> \in agree
    BY <2>1 DEF Joins, Agrees
  <2>3. order[k] \in f[j]
    BY <1>4, <2>1 DEF GatheredSound
  <2>4. ASSUME NEW n \in f[j] \ {order[k]}
        PROVE  n \in free /\ <<n, order[k]>> \in near /\ \E i \in (k + 1)..j : order[i] = n
    <3>1. CASE n \in f[j - 1]
      <4>1. n \in free /\ <<n, order[k]>> \in near
        BY <1>4, <3>1 DEF GatheredSound
      <4>2. PICK i \in (k + 1)..(j - 1) : order[i] = n
        BY <1>4, <3>1 DEF GatheredSound
      <4>3. i \in (k + 1)..j
        BY <1>1
      <4> QED BY <4>1, <4>2, <4>3
    <3>2. CASE n \notin f[j - 1]
      <4>1. j \in (k + 1)..j
        BY <1>1
      <4> QED BY <2>2, <3>2, <4>1
    <3> QED BY <3>1, <3>2
  <2>5. ASSUME NEW n \in f[j], NEW m \in f[j], n # m
        PROVE  <<n, m>> \in agree \/ <<m, n>> \in agree
    <3>1. CASE n \in f[j - 1] /\ m \in f[j - 1]
      BY <1>4, <2>5, <3>1 DEF GatheredSound
    <3>2. CASE n \notin f[j - 1] /\ m \in f[j - 1]
      BY <2>2, <3>2
    <3>3. CASE n \in f[j - 1] /\ m \notin f[j - 1]
      BY <2>2, <3>3
    <3>4. ~(n \notin f[j - 1] /\ m \notin f[j - 1])
      <4> SUFFICES ASSUME n \notin f[j - 1], m \notin f[j - 1] PROVE FALSE
        OBVIOUS
      <4>1. n = order[j] /\ m = order[j]
        BY <2>2
      <4> QED BY <2>5, <4>1
    <3> QED BY <3>1, <3>2, <3>3, <3>4
  <2> QED BY <2>3, <2>4, <2>5 DEF GatheredSound
<1>5. Sound(N, f[N])
  <2> DEFINE S == {j \in 0..N : Sound(j, f[j])}
  <2> HIDE DEF Sound
  <2>1. 0 \in S
    BY <1>1, <1>3
  <2>2. ASSUME NEW j \in 1..N, j - 1 \in S PROVE j \in S
    <3>1. CASE j <= k
      <4>1. j \in 0..k /\ j \in 0..N
        BY <1>1, <3>1
      <4> QED BY <1>3, <4>1
    <3>2. CASE ~(j <= k)
      <4>1. j \in (k + 1)..N /\ j \in 0..N
        BY <1>1, <3>2
      <4> QED BY <1>4, <2>2, <4>1
    <3> QED BY <3>1, <3>2
  <2> HIDE DEF S
  <2>3. Numbers!Hereditary(S, N)
    BY <2>1, <2>2 DEF Numbers!Hereditary
  <2>4. N \in S
    BY <1>1, <2>3, Numbers!BoundedInduction
  <2> QED BY <2>4 DEF S
<1>6. Gather(order, free, near, agree, k) = f[N]
  BY <1>2 DEF GatherRun
<1> QED BY <1>5, <1>6

\* A later notice that could join on its own is not the reason to stay alone: it
\* joins, or another near the anchor has joined before it.
LEMMA GatherComplete ==
    ASSUME NEW window, NEW order \in Seq(window), NEW free, free \subseteq window,
           NEW near, NEW agree, NEW k \in 1..Len(order), NEW j \in (k + 1)..Len(order),
           order[j] \in free, <<order[j], order[k]>> \in near,
           <<order[j], order[k]>> \in agree
    PROVE  \E n \in Gather(order, free, near, agree, k) : <<n, order[k]>> \in near
<1> DEFINE N == Len(order)
           gathered == Gather(order, free, near, agree, k)
<1>1. N \in Nat
  OBVIOUS
<1>2. PICK f : GatherRun(f, window, order, free, near, agree, k)
  BY GatherSteps
<1>3. gathered = f[N]
  BY <1>2 DEF GatherRun
<1>4. f[j] \subseteq f[N]
  <2> DEFINE S == {i \in 0..N : i >= j => f[j] \subseteq f[i]}
  <2>1. 0 \in S
    BY <1>1
  <2>2. ASSUME NEW i \in 1..N, i - 1 \in S PROVE i \in S
    <3>1. CASE i <= j
      <4>1. i >= j => i = j
        BY <3>1
      <4> QED BY <4>1
    <3>2. CASE ~(i <= j)
      <4>1. i \in (k + 1)..N /\ i - 1 >= j
        BY <1>1, <3>2
      <4>2. f[i - 1] \subseteq f[i]
        BY <1>2, <4>1 DEF GatherRun
      <4>3. f[j] \subseteq f[i]
        BY <2>2, <4>1, <4>2
      <4> QED BY <4>3
    <3> QED BY <3>1, <3>2
  <2> HIDE DEF S
  <2>3. Numbers!Hereditary(S, N)
    BY <2>1, <2>2 DEF Numbers!Hereditary
  <2>4. N \in S
    BY <1>1, <2>3, Numbers!BoundedInduction
  <2>5. N >= j
    BY <1>1
  <2> QED BY <2>4, <2>5 DEF S
<1>5. f[j] = f[j - 1] \cup Joins(order, free, near, agree, k, j, f[j - 1])
  BY <1>2 DEF GatherRun
<1>6. CASE f[j - 1] \subseteq {order[k]}
  <2>1. order[j] \in Joins(order, free, near, agree, k, j, f[j - 1])
    BY <1>6 DEF Joins, Agrees
  <2> QED BY <1>3, <1>4, <1>5, <2>1
<1>7. CASE ~(f[j - 1] \subseteq {order[k]})
  <2>1. PICK n \in f[j - 1] : n # order[k]
    BY <1>7
  <2>2. n \in gathered
    BY <1>3, <1>4, <1>5, <2>1
  <2>3. GatheredSound(order, free, near, agree, k, N, gathered)
    BY GatherSound
  <2>4. <<n, order[k]>> \in near
    BY <2>1, <2>2, <2>3 DEF GatheredSound
  <2> QED BY <2>2, <2>4
<1> QED BY <1>6, <1>7

-----------------------------------------------------------------------------
(* Visiting the notices of a bucket in order *)

Near(corpus, bucket, days) ==
    {p \in bucket \X bucket : /\ corpus[p[1]].source # corpus[p[2]].source
                              /\ NearAndDated(corpus, p[1], p[2], days)}
Untaken(bucket, found) == bucket \ UNION {c.members : c \in found}
Cluster(order, free, near, agree, k) ==
    [anchor |-> order[k], members |-> Gather(order, free, near, agree, k)]

\* The k-th notice opens a cluster, or is passed over.
Opens(corpus, order, free, near, agree, k) ==
    /\ order[k] \in free
    /\ corpus[order[k]].published # 0
    /\ Cardinality(Sources(corpus, Gather(order, free, near, agree, k))) >= 2
Visit(corpus, order, bucket, near, agree, k, found) ==
    IF Opens(corpus, order, Untaken(bucket, found), near, agree, k)
      THEN found \cup {Cluster(order, Untaken(bucket, found), near, agree, k)} ELSE found

\* What is found, notice by notice.
ClusterRun(f, window, corpus, order, bucket, days, agree) ==
    /\ f \in [0..Len(order) -> SUBSET [anchor : window, members : SUBSET window]]
    /\ Clusters(corpus, order, bucket, days, agree) = f[Len(order)]
    /\ f[0] = {}
    /\ \A k \in 1..Len(order) :
          f[k] = Visit(corpus, order, bucket, Near(corpus, bucket, days), agree, k, f[k - 1])

\* The recursion of Clusters is well founded.
LEMMA ClusterSteps ==
    ASSUME NEW corpus, NEW window, NEW order \in Seq(window),
           NEW bucket, bucket \subseteq window, NEW days, NEW agree
    PROVE  \E f : ClusterRun(f, window, corpus, order, bucket, days, agree)
<1> DEFINE N == Len(order)
           X == SUBSET [anchor : window, members : SUBSET window]
           near == Near(corpus, bucket, days)
           Following(k, S) == Visit(corpus, order, bucket, near, agree, k, S)
           base == {}
           step == [k \in 1..N |-> [S \in X |-> Following(k, S)]]
           Rec(f) == f = [k \in 0..N |-> IF k = 0 THEN {}
                                         ELSE Visit(corpus, order, bucket, near, agree, k, f[k - 1])]
<1>1. N \in Nat
  OBVIOUS
<1>2. ASSUME NEW k \in 1..N, NEW S \in X PROVE Following(k, S) \in X
  <2> DEFINE free == Untaken(bucket, S)
  <2>1. free \subseteq window
    BY DEF Untaken
  <2>2. Gather(order, free, near, agree, k) \in SUBSET window
    <3>1. PICK f : GatherRun(f, window, order, free, near, agree, k)
      <4> HIDE DEF free, near, X
      <4> QED BY <2>1, GatherSteps
    <3> HIDE DEF free, near
    <3> QED BY <1>1, <3>1 DEF GatherRun
  <2>3. order[k] \in window
    OBVIOUS
  <2>4. Cluster(order, free, near, agree, k) \in [anchor : window, members : SUBSET window]
    BY <2>2, <2>3 DEF Cluster
  <2> QED BY <2>4 DEF Visit
<1>3. step \in [1..N -> [X -> X]]
  <2> HIDE DEF Following, X
  <2> QED BY <1>2
<1>4. PICK f : Numbers!Iterates(f, N, X, base, step)
  <2>1. base \in X
    OBVIOUS
  <2> HIDE DEF step, X, N, base
  <2> QED BY <1>1, <1>3, <2>1, Numbers!RecursionExists
<1>5. /\ f \in [0..N -> X] /\ f[0] = base
      /\ \A k \in 1..N : f[k] = step[k][f[k - 1]]
  BY <1>4 DEF Numbers!Iterates
<1>6. \A k \in 1..N : f[k] = Following(k, f[k - 1])
  <2> TAKE k \in 1..N
  <2>1. k - 1 \in 0..N
    BY <1>1
  <2>2. f[k - 1] \in X
    BY <2>1, <1>5
  <2> HIDE DEF Following, X
  <2> QED BY <2>2, <1>5
<1>7. Rec(f)
  <2>1. \A k \in 0..N : f[k] = IF k = 0 THEN {} ELSE Following(k, f[k - 1])
    <3> HIDE DEF Following
    <3> QED BY <1>1, <1>5, <1>6
  <2> HIDE DEF X
  <2> QED BY <2>1, <1>5
<1>8. Clusters(corpus, order, bucket, days, agree) = (CHOOSE g : Rec(g))[N]
  BY DEF Clusters, Visit, Opens, Untaken, Cluster, Near
<1>9. Rec(CHOOSE g : Rec(g))
  <2>1. \E g : Rec(g)
    <3> HIDE DEF Rec
    <3> QED BY <1>7
  <2> HIDE DEF Rec
  <2> QED BY <2>1
<1>10. PICK g : Rec(g) /\ Clusters(corpus, order, bucket, days, agree) = g[N]
  <2> HIDE DEF Rec
  <2> QED BY <1>8, <1>9
<1>11. /\ g[0] = {}
       /\ \A k \in 1..N : g[k] = Following(k, g[k - 1])
  <2>1. \A k \in 0..N : g[k] = IF k = 0 THEN {} ELSE Following(k, g[k - 1])
    BY <1>10
  <2>2. 0 \in 0..N /\ \A k \in 1..N : k \in 0..N /\ k # 0
    BY <1>1
  <2> HIDE DEF Following, Rec
  <2> QED BY <2>1, <2>2
<1>12. \A k \in 0..N : g[k] \in X
  <2> DEFINE S == {i \in 0..N : g[i] \in X}
  <2>1. 0 \in S
    BY <1>1, <1>11
  <2>2. ASSUME NEW k \in 1..N, k - 1 \in S PROVE k \in S
    <3>1. k \in 0..N /\ g[k - 1] \in X
      BY <2>2
    <3>2. g[k] \in X
      <4> HIDE DEF Following, X
      <4> QED BY <1>2, <1>11, <3>1
    <3> QED BY <3>1, <3>2
  <2> HIDE DEF S
  <2>3. Numbers!Hereditary(S, N)
    BY <2>1, <2>2 DEF Numbers!Hereditary
  <2>4. 0..N \subseteq S
    BY <1>1, <2>3, Numbers!BoundedInduction
  <2> QED BY <2>4 DEF S
<1>13. g \in [0..N -> X]
  <2>1. g = [k \in 0..N |-> g[k]]
    BY <1>10
  <2> HIDE DEF X, Rec
  <2> QED BY <1>12, <2>1
<1>14. ClusterRun(g, window, corpus, order, bucket, days, agree)
  <2> HIDE DEF Rec
  <2> QED BY <1>10, <1>11, <1>13 DEF ClusterRun
<1> QED BY <1>14

\* What a pass wants of a cluster: its notices belong together pairwise, the anchor
\* is the earliest, and there are two sources.
ClusterSound(corpus, bucket, days, agree, c) ==
    /\ c.anchor \in c.members /\ c.members \subseteq bucket
    /\ \A n \in c.members : corpus[c.anchor].published <= corpus[n].published
    /\ Cardinality(Sources(corpus, c.members)) >= 2
    /\ \A n, m \in c.members :
          /\ NearAndDated(corpus, n, m, days)
          /\ n # m => <<n, m>> \in agree \/ <<m, n>> \in agree

\* The order of a query sorted by date.
Sorted(corpus, order) ==
    \A i, j \in 1..Len(order) : i < j => corpus[order[i]].published <= corpus[order[j]].published

\* Whoever is within days after the same notice is within days of each other.
LEMMA NearTheEarliest ==
    ASSUME NEW days \in Nat, NEW a \in Nat, NEW x \in Nat, NEW y \in Nat,
           a <= x, a <= y, Distance(x, a) <= days, Distance(y, a) <= days
    PROVE  Distance(x, y) <= days
BY DEF Distance

\* A cluster that is opened is sound.
LEMMA OpenedSound ==
    ASSUME NEW corpus, NEW window, \A n \in window : corpus[n].published \in Nat,
           NEW order \in Seq(window), Sorted(corpus, order),
           NEW bucket, bucket \subseteq window, NEW days \in Nat, NEW agree,
           NEW free, free \subseteq bucket, NEW k \in 1..Len(order),
           Opens(corpus, order, free, Near(corpus, bucket, days), agree, k)
    PROVE  ClusterSound(corpus, bucket, days, agree,
                        Cluster(order, free, Near(corpus, bucket, days), agree, k))
<1> DEFINE near == Near(corpus, bucket, days)
           c == Cluster(order, free, near, agree, k)
           gathered == Gather(order, free, near, agree, k)
           anchor == order[k]
<1>1. c.anchor = anchor /\ c.members = gathered
  BY DEF Cluster
<1>2. GatheredSound(order, free, near, agree, k, Len(order), gathered)
  <2> HIDE DEF near
  <2> QED BY GatherSound
<1>3. anchor \in free /\ corpus[anchor].published # 0
  BY DEF Opens
<1>4. Cardinality(Sources(corpus, gathered)) >= 2
  BY DEF Opens
<1>5. anchor \in gathered /\ gathered \subseteq free
  BY <1>2, <1>3 DEF GatheredSound
<1>6. ASSUME NEW n \in gathered
      PROVE  /\ n \in window /\ corpus[n].published # 0
             /\ corpus[anchor].published <= corpus[n].published
             /\ Distance(corpus[n].published, corpus[anchor].published) <= days
  <2>1. n \in window /\ anchor \in window
    BY <1>3, <1>5
  <2>2. CASE n = anchor
    BY <1>3, <2>1, <2>2 DEF Distance
  <2>3. CASE n # anchor
    <3>1. <<n, anchor>> \in near
      BY <1>2, <2>3 DEF GatheredSound
    <3>2. PICK i \in (k + 1)..Len(order) : order[i] = n
      BY <1>2, <2>3 DEF GatheredSound
    <3>3. i \in 1..Len(order) /\ k < i
      OBVIOUS
    <3>4. corpus[anchor].published <= corpus[n].published
      BY <3>2, <3>3 DEF Sorted
    <3> QED BY <2>1, <3>1, <3>4 DEF Near, NearAndDated
  <2> QED BY <2>2, <2>3
<1>7. ASSUME NEW n \in gathered, NEW m \in gathered
      PROVE  /\ NearAndDated(corpus, n, m, days)
             /\ n # m => <<n, m>> \in agree \/ <<m, n>> \in agree
  <2>1. n # m => <<n, m>> \in agree \/ <<m, n>> \in agree
    BY <1>2 DEF GatheredSound
  <2>2. anchor \in window
    BY <1>3
  <2>3. Distance(corpus[n].published, corpus[m].published) <= days
    <3> HIDE DEF gathered, anchor
    <3> QED BY <1>6, <2>2, NearTheEarliest
  <2> QED BY <1>6, <2>1, <2>3 DEF NearAndDated
<1>8. ClusterSound(corpus, bucket, days, agree, c)
  <2> HIDE DEF gathered, c, anchor, near
  <2> QED BY <1>1, <1>3, <1>4, <1>5, <1>6, <1>7 DEF ClusterSound
<1> QED BY <1>8

\* Greedy clustering, whatever it finds, finds sound clusters.
LEMMA ClustersSound ==
    ASSUME NEW corpus, NEW window, \A n \in window : corpus[n].published \in Nat,
           NEW order \in Seq(window), Sorted(corpus, order),
           NEW bucket, bucket \subseteq window, NEW days \in Nat, NEW agree,
           NEW c \in Clusters(corpus, order, bucket, days, agree)
    PROVE  ClusterSound(corpus, bucket, days, agree, c)
<1> DEFINE N == Len(order)
           near == Near(corpus, bucket, days)
           Sound(d) == ClusterSound(corpus, bucket, days, agree, d)
<1>1. N \in Nat
  OBVIOUS
<1>2. PICK f : ClusterRun(f, window, corpus, order, bucket, days, agree)
  BY ClusterSteps
<1>3. ASSUME NEW k \in 1..N, \A d \in f[k - 1] : Sound(d)
      PROVE  \A d \in f[k] : Sound(d)
  <2> DEFINE free == Untaken(bucket, f[k - 1])
  <2>1. f[k] = Visit(corpus, order, bucket, near, agree, k, f[k - 1])
    BY <1>2 DEF ClusterRun
  <2>2. CASE Opens(corpus, order, free, near, agree, k)
    <3>1. free \subseteq bucket
      BY DEF Untaken
    <3>2. Sound(Cluster(order, free, near, agree, k))
      <4> HIDE DEF free
      <4> QED BY <2>2, <3>1, OpenedSound
    <3>3. f[k] = f[k - 1] \cup {Cluster(order, free, near, agree, k)}
      BY <2>1, <2>2 DEF Visit
    <3> HIDE DEF Sound, free, near
    <3> QED BY <1>3, <3>2, <3>3
  <2>3. CASE ~Opens(corpus, order, free, near, agree, k)
    <3>1. f[k] = f[k - 1]
      BY <2>1, <2>3 DEF Visit
    <3> QED BY <1>3, <3>1
  <2> QED BY <2>2, <2>3
<1>4. \A d \in f[N] : Sound(d)
  <2> DEFINE S == {k \in 0..N : \A d \in f[k] : Sound(d)}
  <2> HIDE DEF Sound
  <2>1. 0 \in S
    BY <1>1, <1>2 DEF ClusterRun
  <2>2. ASSUME NEW k \in 1..N, k - 1 \in S PROVE k \in S
    BY <1>3, <2>2
  <2> HIDE DEF S
  <2>3. Numbers!Hereditary(S, N)
    BY <2>1, <2>2 DEF Numbers!Hereditary
  <2>4. N \in S
    BY <1>1, <2>3, Numbers!BoundedInduction
  <2> QED BY <2>4 DEF S
<1>5. c \in f[N]
  BY <1>2 DEF ClusterRun
<1> QED BY <1>4, <1>5

\* Two notices of two sources.
LEMMA TwoSources ==
    ASSUME NEW corpus, NEW S, IsFiniteSet(S), NEW n \in S, NEW m \in S,
           corpus[n].source # corpus[m].source
    PROVE  Cardinality(Sources(corpus, S)) >= 2
<1> DEFINE T == Sources(corpus, S)
           f == [x \in S |-> corpus[x].source]
           pair == {corpus[n].source, corpus[m].source}
<1>1. f \in Surjection(S, T)
  BY DEF Surjection, Sources
<1>2. IsFiniteSet(T)
  <2> HIDE DEF f, T
  <2> QED BY <1>1, FS_Surjection
<1>3. pair \in SUBSET T
  BY DEF Sources
<1>4. IsFiniteSet(pair) /\ Cardinality(pair) = 2
  <2>1. IsFiniteSet({corpus[n].source}) /\ Cardinality({corpus[n].source}) = 1
    BY FS_Singleton
  <2>2. pair = {corpus[n].source} \cup {corpus[m].source}
    OBVIOUS
  <2>3. corpus[m].source \notin {corpus[n].source}
    OBVIOUS
  <2> HIDE DEF pair
  <2> QED BY <2>1, <2>2, <2>3, FS_AddElement
<1>5. Cardinality(pair) <= Cardinality(T)
  <2> HIDE DEF T, pair
  <2> QED BY <1>2, <1>3, FS_Subset
<1>6. Cardinality(T) \in Nat
  <2> HIDE DEF T
  <2> QED BY <1>2, FS_CardinalityType
<1> QED BY <1>4, <1>5, <1>6

\* Greedy clustering hides no pair: of two notices that match, one is in a cluster.
LEMMA ClustersComplete ==
    ASSUME NEW corpus, NEW window, IsFiniteSet(window),
           NEW order \in Seq(window),
           NEW bucket, bucket \subseteq window, NEW days, NEW agree,
           NEW i \in 1..Len(order), NEW j \in 1..Len(order), i < j,
           order[i] \in bucket, order[j] \in bucket,
           corpus[order[i]].source # corpus[order[j]].source,
           NearAndDated(corpus, order[j], order[i], days),
           <<order[j], order[i]>> \in agree
    PROVE  \E c \in Clusters(corpus, order, bucket, days, agree) :
              order[i] \in c.members \/ order[j] \in c.members
<1> DEFINE N == Len(order)
           near == Near(corpus, bucket, days)
           Has(c) == order[i] \in c.members \/ order[j] \in c.members
<1>1. N \in Nat
  OBVIOUS
<1>2. PICK f : ClusterRun(f, window, corpus, order, bucket, days, agree)
  BY ClusterSteps
<1>3. \A k \in 1..N : f[k - 1] \subseteq f[k]
  BY <1>2 DEF ClusterRun, Visit
<1>4. f[i] \subseteq f[N]
  <2> DEFINE S == {k \in 0..N : k >= i => f[i] \subseteq f[k]}
  <2>1. 0 \in S
    BY <1>1
  <2>2. ASSUME NEW k \in 1..N, k - 1 \in S PROVE k \in S
    <3>1. CASE k <= i
      <4>1. k >= i => k = i
        BY <3>1
      <4> QED BY <4>1
    <3>2. CASE ~(k <= i)
      <4>1. k - 1 >= i
        BY <1>1, <3>2
      <4> QED BY <1>3, <2>2, <4>1
    <3> QED BY <3>1, <3>2
  <2> HIDE DEF S
  <2>3. Numbers!Hereditary(S, N)
    BY <2>1, <2>2 DEF Numbers!Hereditary
  <2>4. N \in S
    BY <1>1, <2>3, Numbers!BoundedInduction
  <2>5. N >= i
    BY <1>1
  <2> QED BY <2>4, <2>5 DEF S
<1>5. f[i - 1] \subseteq f[N] /\ f[i] = Visit(corpus, order, bucket, near, agree, i, f[i - 1])
  BY <1>2, <1>3, <1>4 DEF ClusterRun
<1>6. CASE \E c \in f[i - 1] : Has(c)
  BY <1>2, <1>5, <1>6 DEF ClusterRun
<1>7. CASE ~ \E c \in f[i - 1] : Has(c)
  <2> DEFINE free == Untaken(bucket, f[i - 1])
             gathered == Gather(order, free, near, agree, i)
  <2>1. order[i] \in free /\ order[j] \in free /\ free \subseteq window
    BY <1>7 DEF Untaken
  <2>2. <<order[j], order[i]>> \in near
    BY DEF Near
  <2>3. j \in (i + 1)..N
    BY <1>1
  <2>4. PICK n \in gathered : <<n, order[i]>> \in near
    <3> HIDE DEF near, free
    <3> QED BY <2>1, <2>2, <2>3, GatherComplete
  <2>5. corpus[n].source # corpus[order[i]].source
    BY <2>4 DEF Near
  <2>6. GatheredSound(order, free, near, agree, i, N, gathered)
    <3> HIDE DEF near, free
    <3> QED BY <2>1, GatherSound
  <2>7. order[i] \in gathered /\ gathered \subseteq free
    BY <2>1, <2>6 DEF GatheredSound
  <2>8. Cardinality(Sources(corpus, gathered)) >= 2
    <3>1. IsFiniteSet(gathered)
      <4> HIDE DEF free, gathered
      <4> QED BY <2>1, <2>7, FS_Subset
    <3> HIDE DEF gathered
    <3> QED BY <2>4, <2>5, <2>7, <3>1, TwoSources
  <2>9. Opens(corpus, order, free, near, agree, i)
    <3>1. corpus[order[i]].published # 0
      BY DEF NearAndDated
    <3> QED BY <2>1, <2>8, <3>1 DEF Opens
  <2>10. Cluster(order, free, near, agree, i) \in f[i]
    BY <1>5, <2>9 DEF Visit
  <2>11. order[i] \in Cluster(order, free, near, agree, i).members
    BY <2>7 DEF Cluster
  <2>12. f[N] = Clusters(corpus, order, bucket, days, agree)
    BY <1>2 DEF ClusterRun
  <2> HIDE DEF free, gathered
  <2> QED BY <1>4, <2>10, <2>11, <2>12
<1> QED BY <1>6, <1>7

-----------------------------------------------------------------------------
(* The orders of a query, and the earliest of a set *)

\* Each notice of the window, in an order by date.
ByDate(corpus, window, order) ==
    /\ order \in Seq(window)
    /\ Sorted(corpus, order)
    /\ \A n \in window : \E i \in 1..Len(order) : order[i] = n

\* So a query returns them.
LEMMA QueryOrder ==
    ASSUME NEW corpus, NEW window, IsFiniteSet(window),
           NEW order \in SortedByDate(corpus, window)
    PROVE  ByDate(corpus, window, order)
<1> DEFINE D == 1..Cardinality(window)
<1>1. Cardinality(window) \in Nat
  BY FS_CardinalityType
<1>2. order \in [D -> window] /\ \A i, j \in D : i # j => order[i] # order[j]
  BY DEF SortedByDate, SetToSeqs
<1>3. order \in Seq(window) /\ Len(order) = Cardinality(window) /\ DOMAIN order = D
  BY <1>1, <1>2
<1>4. order \in Injection(D, window)
  BY <1>2 DEF Injection, IsInjective
<1>5. Cardinality(D) = Cardinality(window)
  <2>1. Cardinality(D) = IF 1 > Cardinality(window) THEN 0 ELSE Cardinality(window) - 1 + 1
    BY <1>1, FS_Interval
  <2> QED BY <1>1, <2>1
<1>6. order \in Surjection(D, window)
  <2> HIDE DEF D
  <2> QED BY <1>4, <1>5, FS_Injection
<1>7. \A n \in window : \E i \in D : order[i] = n
  BY <1>6 DEF Surjection
<1>8. Sorted(corpus, order)
  BY <1>3 DEF SortedByDate, Sorted
<1> QED BY <1>3, <1>7, <1>8 DEF ByDate

\* The first of a set in the order is of the set, and no other has an earlier date.
LEMMA EarliestOfSet ==
    ASSUME NEW corpus, NEW window, \A n \in window : corpus[n].published \in Nat,
           NEW order, ByDate(corpus, window, order),
           NEW S, S \subseteq window, S # {}
    PROVE  /\ Earliest(order, S) \in S
           /\ \A n \in S : corpus[Earliest(order, S)].published <= corpus[n].published
<1> DEFINE places == {i \in 1..Len(order) : order[i] \in S}
           First(k) == order[k] \in S /\ \A j \in 1..(k - 1) : order[j] \notin S
<1>1. places \subseteq Nat /\ places # {} /\ DOMAIN order = 1..Len(order) /\ Len(order) \in Nat
  BY DEF ByDate
<1>2. PICK k \in places : \A j \in places : k <= j
  <2> HIDE DEF places
  <2> QED BY <1>1, Numbers!HasSmallest
<1>3. k \in DOMAIN order /\ First(k)
  <2>1. ASSUME NEW j \in 1..(k - 1) PROVE order[j] \notin S
    <3>1. j \in 1..Len(order) /\ ~(k <= j)
      BY <1>1
    <3> QED BY <1>2, <3>1
  <2> QED BY <1>1, <2>1
<1>4. PICK e \in DOMAIN order : First(e) /\ Earliest(order, S) = order[e]
  BY <1>3 DEF Earliest
<1>5. ASSUME NEW n \in S PROVE corpus[order[e]].published <= corpus[n].published
  <2>1. PICK i \in 1..Len(order) : order[i] = n
    BY DEF ByDate
  <2>2. i = e \/ e < i
    <3>1. i \notin 1..(e - 1)
      BY <1>4, <2>1
    <3> QED BY <1>1, <3>1
  <2>3. CASE i = e
    <3> DEFINE day == corpus[n].published
    <3>1. day \in Nat
      OBVIOUS
    <3>2. day <= day
      <4> HIDE DEF day
      <4> QED BY <3>1
    <3>3. order[e] = n
      BY <2>1, <2>3
    <3> QED BY <3>2, <3>3
  <2>4. CASE e < i
    BY <1>1, <2>1, <2>4 DEF Sorted, ByDate
  <2> QED BY <2>2, <2>3, <2>4
<1> QED BY <1>4, <1>5

-----------------------------------------------------------------------------
(* The builders *)

\* The dates of a corpus are numbers, and its window is finite.
Dated(corpus, window) ==
    IsFiniteSet(window) /\ \A n \in window : corpus[n].published \in Nat

\* What a builder's group is: sound, of the window, and, but for the first pass,
\* of unassigned notices.
BuiltSound(match_type, corpus, assigned, window, g) ==
    /\ g \in [canonical_id : window, notices : (SUBSET window) \ {{}}, match_type : {match_type}]
    /\ SoundGroup(corpus, g)
    /\ match_type # "ico_cpv" => \A n \in g.notices : assigned[n] = None

LEMMA IcoCpvGroupsSound ==
    ASSUME NEW corpus, NEW assigned, NEW window, Dated(corpus, window),
           NEW order \in SortedByDate(corpus, window),
           NEW g \in build_ico_cpv_groups(corpus, assigned, window, order)
    PROVE  BuiltSound("ico_cpv", corpus, assigned, window, g)
<1> DEFINE Bucket(n) == {m \in window : SameProcurerAndCpv(corpus, n, m)}
<1>1. PICK x \in window :
         /\ g = Group(corpus, Bucket(x), Earliest(order, Bucket(x)), "ico_cpv")
         /\ Cardinality(Sources(corpus, Bucket(x))) >= 2
         /\ \E n \in Bucket(x) : assigned[n] = None
  BY DEF build_ico_cpv_groups
<1> DEFINE B == Bucket(x)
<1>2. B \subseteq window /\ B # {}
  BY <1>1
<1>3. Earliest(order, B) \in B /\ \A n \in B : corpus[Earliest(order, B)].published <= corpus[n].published
  <2>1. ByDate(corpus, window, order)
    BY QueryOrder DEF Dated
  <2> HIDE DEF B
  <2> QED BY <1>2, <2>1, EarliestOfSet DEF Dated
<1>4. \A n, m \in B : SameProcurerAndCpv(corpus, n, m)
  BY DEF SameProcurerAndCpv
<1>5. /\ g = [canonical_id |-> Earliest(order, B), notices |-> B, match_type |-> "ico_cpv"]
      /\ Cardinality(Sources(corpus, B)) >= 2
  BY <1>1 DEF Group
<1> HIDE DEF B, Bucket
<1>6. SoundGroup(corpus, g)
  BY <1>3, <1>4, <1>5 DEF SoundGroup
<1> QED BY <1>2, <1>3, <1>5, <1>6 DEF BuiltSound

LEMMA TitleSlugGroupsSound ==
    ASSUME NEW corpus, NEW assigned, NEW window, Dated(corpus, window),
           NEW order \in SortedByDate(corpus, window),
           NEW g \in build_title_slug_groups(corpus, assigned, window, order)
    PROVE  BuiltSound("title_slug_date", corpus, assigned, window, g)
<1> DEFINE pool == NoIco(corpus, assigned, window)
           Bucket(slug) == {n \in pool : corpus[n].slug = slug}
<1>1. PICK slug \in {corpus[n].slug : n \in pool} :
        \E c \in Clusters(corpus, order, Bucket(slug), TITLE_WINDOW_DAYS, Bucket(slug) \X Bucket(slug)) :
           g = Group(corpus, c.members, c.anchor, "title_slug_date")
  BY DEF build_title_slug_groups
<1> DEFINE B == Bucket(slug)
<1>2. PICK c \in Clusters(corpus, order, B, TITLE_WINDOW_DAYS, B \X B) :
           g = Group(corpus, c.members, c.anchor, "title_slug_date")
  BY <1>1
<1>3. \A n \in B : n \in window /\ assigned[n] = None /\ corpus[n].slug = slug
  BY DEF NoIco
<1>4. ClusterSound(corpus, B, TITLE_WINDOW_DAYS, B \X B, c)
  <2>1. order \in Seq(window) /\ Sorted(corpus, order)
    BY QueryOrder DEF Dated, ByDate
  <2>2. B \subseteq window /\ TITLE_WINDOW_DAYS \in Nat
    BY <1>3 DEF TITLE_WINDOW_DAYS
  <2> HIDE DEF B
  <2> QED BY <2>1, <2>2, ClustersSound DEF Dated
<1>5. g = [canonical_id |-> c.anchor, notices |-> c.members, match_type |-> "title_slug_date"]
  BY <1>2 DEF Group
<1> HIDE DEF B, Bucket, pool
<1>6. SoundGroup(corpus, g)
  BY <1>3, <1>4, <1>5 DEF ClusterSound, SoundGroup
<1> QED BY <1>3, <1>4, <1>5, <1>6 DEF ClusterSound, BuiltSound

LEMMA ValueWindowGroupsSound ==
    ASSUME NEW corpus, NEW assigned, NEW window, Dated(corpus, window),
           NEW order \in SortedByDate(corpus, window),
           NEW g \in build_ico_value_window_groups(corpus, assigned, window, order)
    PROVE  BuiltSound("supplier_ico_value_window", corpus, assigned, window, g)
<1> DEFINE Bucket(ico) == Unassigned(corpus, assigned, window, ico)
<1>1. PICK ico \in UNION {Suppliers(corpus, n) : n \in window} :
        \E c \in Clusters(corpus, order, Bucket(ico), ICO_VALUE_WINDOW_DAYS,
                          Compatible(corpus, Bucket(ico), ico)) :
           g = Group(corpus, c.members, c.anchor, "supplier_ico_value_window")
  BY DEF build_ico_value_window_groups
<1> DEFINE B == Bucket(ico)
           agree == Compatible(corpus, B, ico)
<1>2. PICK c \in Clusters(corpus, order, B, ICO_VALUE_WINDOW_DAYS, agree) :
           g = Group(corpus, c.members, c.anchor, "supplier_ico_value_window")
  BY <1>1
<1>3. \A n \in B : n \in window /\ assigned[n] = None /\ ico \in Suppliers(corpus, n)
  BY DEF Unassigned
<1>4. ClusterSound(corpus, B, ICO_VALUE_WINDOW_DAYS, agree, c)
  <2>1. order \in Seq(window) /\ Sorted(corpus, order)
    BY QueryOrder DEF Dated, ByDate
  <2>2. B \subseteq window /\ ICO_VALUE_WINDOW_DAYS \in Nat
    BY <1>3 DEF ICO_VALUE_WINDOW_DAYS
  <2> HIDE DEF B, agree
  <2> QED BY <2>1, <2>2, ClustersSound DEF Dated
<1>5. g = [canonical_id |-> c.anchor, notices |-> c.members,
           match_type |-> "supplier_ico_value_window"]
  BY <1>2 DEF Group
<1>6. \A n, m : <<n, m>> \in agree \/ <<m, n>> \in agree
         => ValuesCompatible(Values(corpus, n, ico), Values(corpus, m, ico))
  BY DEF Compatible, ValuesCompatible
<1> HIDE DEF B, Bucket, agree
<1>7. SoundGroup(corpus, g)
  BY <1>3, <1>4, <1>5, <1>6 DEF ClusterSound, SoundGroup
<1> QED BY <1>3, <1>4, <1>5, <1>7 DEF ClusterSound, BuiltSound

\* What a pass groups belongs together, was free to be grouped, and is named by its
\* earliest notice: build_*_groups, on any corpus, in any order its query may return.
THEOREM BuildSound ==
    ASSUME NEW match_type \in Passes,
           NEW corpus, NEW assigned, NEW window, Dated(corpus, window),
           NEW order \in SortedByDate(corpus, window),
           NEW g \in Build(match_type, corpus, assigned, window, order)
    PROVE  BuiltSound(match_type, corpus, assigned, window, g)
BY IcoCpvGroupsSound, TitleSlugGroupsSound, ValueWindowGroupsSound DEF Build, Passes

\* Two notices of two sources that a pass takes for the same contract.
PassMatch(match_type, corpus, window, n, m) ==
    /\ corpus[n].source # corpus[m].source
    /\ CASE match_type = "ico_cpv" -> SameProcurerAndCpv(corpus, n, m)
         [] match_type = "title_slug_date" ->
               /\ corpus[n].procurer = None /\ corpus[m].procurer = None
               /\ corpus[n].slug # None /\ corpus[n].slug = corpus[m].slug
               /\ NearAndDated(corpus, n, m, TITLE_WINDOW_DAYS)
         [] match_type = "supplier_ico_value_window" ->
               \E ico \in Suppliers(corpus, n) \cap Suppliers(corpus, m) :
                  /\ NearAndDated(corpus, n, m, ICO_VALUE_WINDOW_DAYS)
                  /\ ValuesCompatible(Values(corpus, n, ico), Values(corpus, m, ico))
                  /\ Cardinality({k \in window : ico \in Suppliers(corpus, k)})
                         <= MAX_NOTICES_PER_SUPPLIER_ICO

\* Notices match when one of the passes says so.
LEMMA MatchingByPass ==
    ASSUME NEW corpus, NEW window, NEW n, NEW m
    PROVE  Matching(corpus, window, n, m)
              <=> \E match_type \in Passes : PassMatch(match_type, corpus, window, n, m)
<1>1. Matching(corpus, window, n, m) <=>
         \/ PassMatch("ico_cpv", corpus, window, n, m)
         \/ PassMatch("title_slug_date", corpus, window, n, m)
         \/ PassMatch("supplier_ico_value_window", corpus, window, n, m)
  BY DEF Matching, PassMatch
<1> QED BY <1>1 DEF Passes

LEMMA NearIsMutual ==
    ASSUME NEW corpus, NEW window, Dated(corpus, window), NEW n \in window, NEW m \in window,
           NEW days, NearAndDated(corpus, n, m, days)
    PROVE  NearAndDated(corpus, m, n, days)
<1> DEFINE x == corpus[n].published
           y == corpus[m].published
<1>1. x \in Nat /\ y \in Nat
  BY DEF Dated
<1>2. Distance(x, y) = Distance(y, x)
  <2> HIDE DEF x, y
  <2> QED BY <1>1 DEF Distance
<1> QED BY <1>2 DEF NearAndDated

\* Greedy clustering in an order of the query hides no pair that agrees.
LEMMA ClustersHideNoPair ==
    ASSUME NEW corpus, NEW window, Dated(corpus, window),
           NEW order \in SortedByDate(corpus, window),
           NEW bucket, bucket \subseteq window, NEW days, NEW agree,
           NEW n \in bucket, NEW m \in bucket,
           corpus[n].source # corpus[m].source,
           NearAndDated(corpus, n, m, days),
           <<n, m>> \in agree, <<m, n>> \in agree
    PROVE  \E c \in Clusters(corpus, order, bucket, days, agree) :
              n \in c.members \/ m \in c.members
<1>1. /\ order \in Seq(window) /\ IsFiniteSet(window)
      /\ \A x \in window : \E i \in 1..Len(order) : order[i] = x
  <2>1. IsFiniteSet(window)
    BY DEF Dated
  <2>2. ByDate(corpus, window, order)
    BY <2>1, QueryOrder
  <2> QED BY <2>1, <2>2 DEF ByDate
<1>2. n \in window /\ m \in window
  OBVIOUS
<1>3. PICK i \in 1..Len(order), j \in 1..Len(order) : order[i] = n /\ order[j] = m
  BY <1>1, <1>2
<1>4. NearAndDated(corpus, m, n, days)
  BY <1>2, NearIsMutual
<1>5. i < j \/ j < i
  <2>1. i # j
    BY <1>3
  <2> QED BY <2>1
<1>6. CASE i < j
  BY <1>1, <1>3, <1>4, <1>6, ClustersComplete
<1>7. CASE j < i
  <2>1. \E c \in Clusters(corpus, order, bucket, days, agree) :
              order[j] \in c.members \/ order[i] \in c.members
    BY <1>1, <1>3, <1>7, ClustersComplete
  <2> QED BY <1>3, <2>1
<1> QED BY <1>5, <1>6, <1>7

LEMMA IcoCpvGroupsComplete ==
    ASSUME NEW corpus, NEW assigned, NEW window, Dated(corpus, window), NEW order,
           NEW n \in window, NEW m \in window,
           PassMatch("ico_cpv", corpus, window, n, m), assigned[n] = None
    PROVE  \E g \in build_ico_cpv_groups(corpus, assigned, window, order) : n \in g.notices
<1> DEFINE Bucket(x) == {y \in window : SameProcurerAndCpv(corpus, x, y)}
           g == Group(corpus, Bucket(n), Earliest(order, Bucket(n)), "ico_cpv")
<1>1. n \in Bucket(n) /\ m \in Bucket(n)
  BY DEF PassMatch, SameProcurerAndCpv
<1>2. Cardinality(Sources(corpus, Bucket(n))) >= 2
  <2>1. IsFiniteSet(Bucket(n))
    BY FS_Subset DEF Dated
  <2>2. corpus[n].source # corpus[m].source
    BY DEF PassMatch
  <2> HIDE DEF Bucket
  <2> QED BY <1>1, <2>1, <2>2, TwoSources
<1>3. g \in build_ico_cpv_groups(corpus, assigned, window, order)
  BY <1>1, <1>2 DEF build_ico_cpv_groups
<1>4. g.notices = Bucket(n)
  BY DEF Group
<1> HIDE DEF g, Bucket
<1> QED BY <1>1, <1>3, <1>4

LEMMA TitleSlugGroupsComplete ==
    ASSUME NEW corpus, NEW assigned, NEW window, Dated(corpus, window),
           NEW order \in SortedByDate(corpus, window),
           NEW n \in window, NEW m \in window,
           PassMatch("title_slug_date", corpus, window, n, m),
           assigned[n] = None, assigned[m] = None
    PROVE  \E g \in build_title_slug_groups(corpus, assigned, window, order) :
              n \in g.notices \/ m \in g.notices
<1> DEFINE pool == NoIco(corpus, assigned, window)
           slug == corpus[n].slug
           B == {x \in pool : corpus[x].slug = slug}
<1>1. n \in pool /\ n \in B /\ m \in B /\ B \subseteq window
  BY DEF PassMatch, NoIco
<1>2. PICK c \in Clusters(corpus, order, B, TITLE_WINDOW_DAYS, B \X B) :
           n \in c.members \/ m \in c.members
  <2>1. corpus[n].source # corpus[m].source /\ NearAndDated(corpus, n, m, TITLE_WINDOW_DAYS)
    BY DEF PassMatch
  <2>2. <<n, m>> \in B \X B /\ <<m, n>> \in B \X B
    BY <1>1
  <2> HIDE DEF B
  <2> QED BY <1>1, <2>1, <2>2, ClustersHideNoPair
<1> DEFINE g == Group(corpus, c.members, c.anchor, "title_slug_date")
<1>3. g \in build_title_slug_groups(corpus, assigned, window, order)
  BY <1>1, <1>2 DEF build_title_slug_groups
<1>4. g.notices = c.members
  BY DEF Group
<1> HIDE DEF g, B
<1> QED BY <1>2, <1>3, <1>4

LEMMA ValueWindowGroupsComplete ==
    ASSUME NEW corpus, NEW assigned, NEW window, Dated(corpus, window),
           NEW order \in SortedByDate(corpus, window),
           NEW n \in window, NEW m \in window,
           PassMatch("supplier_ico_value_window", corpus, window, n, m),
           assigned[n] = None, assigned[m] = None
    PROVE  \E g \in build_ico_value_window_groups(corpus, assigned, window, order) :
              n \in g.notices \/ m \in g.notices
<1> DEFINE Bucket(ico) == Unassigned(corpus, assigned, window, ico)
           Found(ico) == Clusters(corpus, order, Bucket(ico), ICO_VALUE_WINDOW_DAYS,
                                  Compatible(corpus, Bucket(ico), ico))
           icos == {ico \in UNION {Suppliers(corpus, x) : x \in window} :
                       Cardinality(Bucket(ico)) <= MAX_NOTICES_PER_SUPPLIER_ICO}
<1>1. PICK ico \in Suppliers(corpus, n) \cap Suppliers(corpus, m) :
         /\ NearAndDated(corpus, n, m, ICO_VALUE_WINDOW_DAYS)
         /\ ValuesCompatible(Values(corpus, n, ico), Values(corpus, m, ico))
         /\ Cardinality({k \in window : ico \in Suppliers(corpus, k)})
                <= MAX_NOTICES_PER_SUPPLIER_ICO
  BY DEF PassMatch
<1> DEFINE B == Bucket(ico)
           won == {k \in window : ico \in Suppliers(corpus, k)}
<1>2. n \in B /\ m \in B /\ B \subseteq won /\ won \subseteq window
  BY DEF Unassigned
<1>3. ico \in icos
  <2>1. IsFiniteSet(won)
    <3> HIDE DEF won
    <3> QED BY <1>2, FS_Subset DEF Dated
  <2>2. Cardinality(B) <= Cardinality(won) /\ IsFiniteSet(B)
    <3> HIDE DEF won, B
    <3> QED BY <1>2, <2>1, FS_Subset
  <2>3. Cardinality(won) \in Nat /\ Cardinality(B) \in Nat
    <3> HIDE DEF won, B
    <3> QED BY <2>1, <2>2, FS_CardinalityType
  <2>4. Cardinality(B) <= MAX_NOTICES_PER_SUPPLIER_ICO
    <3> HIDE DEF B
    <3> QED BY <1>1, <2>2, <2>3, MatchingAssumption
  <2>5. ico \in UNION {Suppliers(corpus, x) : x \in window}
    OBVIOUS
  <2> QED BY <2>4, <2>5
<1>4. PICK c \in Found(ico) : n \in c.members \/ m \in c.members
  <2>1. corpus[n].source # corpus[m].source
    BY DEF PassMatch
  <2>2. <<n, m>> \in Compatible(corpus, B, ico) /\ <<m, n>> \in Compatible(corpus, B, ico)
    <3>1. ValuesCompatible(Values(corpus, m, ico), Values(corpus, n, ico))
      BY <1>1 DEF ValuesCompatible
    <3> HIDE DEF B
    <3> QED BY <1>1, <1>2, <3>1 DEF Compatible
  <2>3. B \subseteq window
    BY <1>2
  <2> HIDE DEF B
  <2>4. \E c \in Clusters(corpus, order, B, ICO_VALUE_WINDOW_DAYS, Compatible(corpus, B, ico)) :
           n \in c.members \/ m \in c.members
    BY <1>1, <1>2, <2>1, <2>2, <2>3, ClustersHideNoPair
  <2> QED BY <2>4 DEF B
<1> DEFINE g == Group(corpus, c.members, c.anchor, "supplier_ico_value_window")
<1>5. g \in build_ico_value_window_groups(corpus, assigned, window, order)
  BY <1>3, <1>4 DEF build_ico_value_window_groups
<1>6. g.notices = c.members
  BY DEF Group
<1> HIDE DEF g, Found
<1> QED BY <1>4, <1>5, <1>6

\* No builder hides a pair: of two unassigned notices that its pass matches one is
\* in a group, and the first pass puts an unassigned one with its settled match.
THEOREM BuildComplete ==
    ASSUME NEW match_type \in Passes,
           NEW corpus, NEW assigned, NEW window, Dated(corpus, window),
           NEW order \in SortedByDate(corpus, window),
           NEW n \in window, NEW m \in window,
           PassMatch(match_type, corpus, window, n, m),
           assigned[n] = None, assigned[m] = None \/ match_type = "ico_cpv"
    PROVE  \E g \in Build(match_type, corpus, assigned, window, order) :
              n \in g.notices \/ (match_type # "ico_cpv" /\ m \in g.notices)
<1>1. CASE match_type = "ico_cpv"
  <2>1. \E g \in build_ico_cpv_groups(corpus, assigned, window, order) : n \in g.notices
    BY <1>1, IcoCpvGroupsComplete
  <2> QED BY <1>1, <2>1 DEF Build
<1>2. CASE match_type = "title_slug_date"
  <2>1. \E g \in build_title_slug_groups(corpus, assigned, window, order) :
            n \in g.notices \/ m \in g.notices
    BY <1>2, TitleSlugGroupsComplete
  <2> QED BY <1>2, <2>1 DEF Build
<1>3. CASE match_type = "supplier_ico_value_window"
  <2>1. \E g \in build_ico_value_window_groups(corpus, assigned, window, order) :
            n \in g.notices \/ m \in g.notices
    BY <1>3, ValueWindowGroupsComplete
  <2> QED BY <1>3, <2>1 DEF Build
<1> QED BY <1>1, <1>2, <1>3 DEF Passes

-----------------------------------------------------------------------------
(* The corpus *)

\* No notice is stored in a version it does not have.
RevisionsExist ==
    /\ revision \in [Ids -> Nat]
    /\ \A n \in Ids : revision[n] <= Len(Versions[n])

LEMMA StoredNotices ==
    ASSUME RevisionsExist, NEW n \in Stored
    PROVE  Notice(n).published \in Nat /\ Notice(n).final \in Nat
<1>1. n \in Ids /\ revision[n] \in Nat /\ revision[n] # 0 /\ revision[n] <= Len(Versions[n])
  BY DEF Stored, RevisionsExist
<1>2. Versions[n] \in Seq(ToSet(Versions[n]))
  BY <1>1, DedupAssumption
<1>3. revision[n] \in 1..Len(Versions[n])
  BY <1>1, <1>2
<1>4. Notice(n) \in ToSet(Versions[n])
  BY <1>2, <1>3 DEF Notice
<1> QED BY <1>1, <1>4, DedupAssumption

LEMMA WindowIsDated ==
    ASSUME RevisionsExist
    PROVE  Dated(Notices, InWindow)
<1>1. IsFiniteSet(InWindow)
  <2>1. InWindow \in SUBSET Ids
    BY DEF InWindow, Stored
  <2> QED BY <2>1, FS_Subset, DedupAssumption
<1>2. ASSUME NEW n \in InWindow PROVE Notices[n].published \in Nat
  <2>1. n \in Stored
    BY DEF InWindow
  <2>2. Notices[n] = Notice(n)
    BY <2>1 DEF Notices
  <2> QED BY <2>1, <2>2, StoredNotices
<1> QED BY <1>1, <1>2 DEF Dated

\* The sum a pipeline takes over a set of notices is a number: the fold of the
\* community modules is a function by recursion on finite sets.
LEMMA StatsAreNumbers ==
    ASSUME NEW S, IsFiniteSet(S), \A n \in S : Notice(n).final \in Nat
    PROVE  StatsOf(S) \in Nat \X Nat
<1> DEFINE First(s) == CHOOSE x \in s : TRUE
           Add(s, g) == IF s = {} THEN 0 ELSE Notice(First(s)).final + g[s \ {First(s)}]
           Rec(g) == g = [s \in SUBSET S |-> Add(s, g)]
           N == Cardinality(S)
           Upto(k) == {s \in SUBSET S : Cardinality(s) <= k}
           Sums(k, g) == g \in [Upto(k) -> Nat] /\ \A s \in Upto(k) : g[s] = Add(s, g)
<1>1. N \in Nat
  BY FS_CardinalityType
<1>2. Upto(N) = SUBSET S
  BY FS_Subset
<1>3. ASSUME NEW s \in SUBSET S
      PROVE  IsFiniteSet(s) /\ Cardinality(s) \in Nat /\ (Cardinality(s) = 0 <=> s = {})
  <2>1. IsFiniteSet(s)
    BY FS_Subset
  <2> QED BY <2>1, FS_CardinalityType, FS_EmptySet
<1>4. ASSUME NEW k \in 1..N, NEW s \in Upto(k), s # {}
      PROVE  First(s) \in S /\ s \ {First(s)} \in Upto(k - 1)
  <2>1. First(s) \in s
    BY <1>4
  <2>2. Cardinality(s \ {First(s)}) = Cardinality(s) - 1
    <3>1. IsFiniteSet(s)
      BY <1>3
    <3> HIDE DEF First
    <3> QED BY <2>1, <3>1, FS_RemoveElement
  <2>3. Cardinality(s) \in Nat /\ Cardinality(s) <= k
    BY <1>3
  <2>4. Cardinality(s) - 1 <= k - 1
    BY <2>3
  <2> HIDE DEF First
  <2> QED BY <2>1, <2>2, <2>4
<1>5. Upto(0) = {{}}
  <2>1. \A s \in SUBSET S : Cardinality(s) <= 0 <=> s = {}
    BY <1>3
  <2> QED BY <2>1
<1>6. \E g : Sums(N, g)
  <2> DEFINE K == {k \in 0..N : \E g : Sums(k, g)}
  <2>1. 0 \in K
    <3>1. Sums(0, [s \in Upto(0) |-> 0])
      BY <1>5
    <3> HIDE DEF Sums
    <3> QED BY <1>1, <3>1
  <2>2. ASSUME NEW k \in 1..N, k - 1 \in K PROVE k \in K
    <3>1. PICK g : Sums(k - 1, g)
      BY <2>2
    <3> DEFINE h == [s \in Upto(k) |-> IF s \in Upto(k - 1) THEN g[s] ELSE Add(s, g)]
    <3>2. Upto(k - 1) \subseteq Upto(k)
      <4>1. \A s \in SUBSET S : Cardinality(s) <= k - 1 => Cardinality(s) <= k
        BY <1>3
      <4> QED BY <4>1
    <3>3. ASSUME NEW s \in Upto(k) PROVE Add(s, h) = Add(s, g) /\ Add(s, g) \in Nat
      <4>1. CASE s = {}
        BY <4>1
      <4>2. CASE s # {}
        <5> DEFINE r == s \ {First(s)}
        <5>1. First(s) \in S /\ r \in Upto(k - 1)
          BY <1>4, <4>2
        <5>2. r \in Upto(k) /\ h[r] = g[r] /\ g[r] \in Nat
          <6> HIDE DEF r, Upto
          <6> QED BY <3>1, <3>2, <5>1
        <5>3. Notice(First(s)).final \in Nat
          BY <5>1
        <5>4. Add(s, h) = Notice(First(s)).final + h[r] /\ Add(s, g) = Notice(First(s)).final + g[r]
          BY <4>2
        <5> HIDE DEF h, r, First, Add
        <5> QED BY <5>2, <5>3, <5>4
      <4> QED BY <4>1, <4>2
    <3>4. ASSUME NEW s \in Upto(k) PROVE h[s] = Add(s, g)
      <4> HIDE DEF Add, Upto
      <4> QED BY <3>1
    <3>5. Sums(k, h)
      <4>1. h \in [Upto(k) -> Nat]
        <5>1. \A s \in Upto(k) : h[s] \in Nat
          <6> HIDE DEF h, Add, Upto
          <6> QED BY <3>3, <3>4
        <5>2. h = [s \in Upto(k) |-> h[s]]
          <6> HIDE DEF Add, Upto
          <6> QED OBVIOUS
        <5> HIDE DEF h, Upto
        <5> QED BY <5>1, <5>2
      <4> HIDE DEF h, Add, Upto
      <4> QED BY <3>3, <3>4, <4>1
    <3> HIDE DEF Sums
    <3> QED BY <3>5
  <2> HIDE DEF K
  <2>3. N \in K
    <3>1. Numbers!Hereditary(K, N)
      BY <2>1, <2>2 DEF Numbers!Hereditary
    <3> QED BY <1>1, <3>1, Numbers!BoundedInduction
  <2> HIDE DEF Sums
  <2> QED BY <2>3 DEF K
<1>7. \E g : Rec(g)
  <2>1. PICK g : Sums(N, g)
    BY <1>6
  <2>2. g \in [SUBSET S -> Nat] /\ \A s \in SUBSET S : g[s] = Add(s, g)
    <3> HIDE DEF Add
    <3> QED BY <1>2, <2>1
  <2>3. Rec(g)
    <3> HIDE DEF Add
    <3> QED BY <2>2
  <2> HIDE DEF Rec
  <2> QED BY <2>3
<1>8. PICK g : Rec(g) /\ MapThenSumSet(LAMBDA n : Notice(n).final, S) = g[S]
  <2>1. Rec(CHOOSE g : Rec(g))
    <3> HIDE DEF Rec
    <3> QED BY <1>7
  <2>2. MapThenSumSet(LAMBDA n : Notice(n).final, S) = (CHOOSE g : Rec(g))[S]
    BY DEF MapThenSumSet, MapThenFoldSet
  <2> HIDE DEF Rec
  <2> QED BY <2>1, <2>2
<1>9. \A s \in SUBSET S : g[s] = Add(s, g)
  <2> HIDE DEF Add
  <2> QED BY <1>8
<1>10. g[S] \in Nat
  <2> DEFINE K == {k \in 0..N : \A s \in Upto(k) : g[s] \in Nat}
  <2>1. 0 \in K
    <3>1. g[{}] = 0
      BY <1>9
    <3> QED BY <1>1, <1>5, <3>1
  <2>2. ASSUME NEW k \in 1..N, k - 1 \in K PROVE k \in K
    <3>1. ASSUME NEW s \in Upto(k) PROVE g[s] \in Nat
      <4>1. CASE s = {}
        BY <1>9, <4>1
      <4>2. CASE s # {}
        <5> DEFINE r == s \ {First(s)}
        <5>1. First(s) \in S /\ r \in Upto(k - 1)
          BY <1>4, <4>2
        <5>2. g[r] \in Nat
          <6> HIDE DEF r, Upto
          <6> QED BY <2>2, <5>1
        <5>3. g[s] = Notice(First(s)).final + g[r]
          BY <1>9, <4>2
        <5>4. Notice(First(s)).final \in Nat
          BY <5>1
        <5> HIDE DEF r, First
        <5> QED BY <5>2, <5>3, <5>4
      <4> QED BY <4>1, <4>2
    <3> HIDE DEF Upto
    <3> QED BY <3>1
  <2> HIDE DEF K
  <2>3. N \in K
    <3>1. Numbers!Hereditary(K, N)
      BY <2>1, <2>2 DEF Numbers!Hereditary
    <3> QED BY <1>1, <3>1, Numbers!BoundedInduction
  <2> QED BY <1>2, <2>3 DEF K
<1> QED BY <1>1, <1>8, <1>10 DEF StatsOf

-----------------------------------------------------------------------------
(* The inductive invariant *)

\* A run and its groups have their types; a pending upsert has a group.
Jobs ==
    [pass : 0..Len(PassOrder), groups : SUBSET Groups, todo : SUBSET Groups,
     group : Groups \cup {None}, clean : BOOLEAN, alone : BOOLEAN]

JobsOK ==
    /\ job \in [Instances -> Jobs]
    /\ \A i \in Instances : job[i].todo \subseteq job[i].groups
    /\ \A i \in Instances : pc[i] = "upsert" => job[i].group \in Groups

\* TypeOK, with what it takes to be inductive.
TypeInv ==
    /\ TypeOK
    /\ RevisionsExist
    /\ matches \in [Ids -> Groups \cup {None}]
    /\ JobsOK

\* As long as the lock was a run's own all the while, it holds it, and no other
\* instance is between taking the lock and giving it back.
LockInv ==
    \A i \in Instances : job[i].alone /\ pc[i] \in Running =>
        /\ holder = i
        /\ \A j \in Instances \ {i} : pc[j] \notin Running

\* A group of passes 2 and 3 that is still to persist takes no notice out of a
\* group, but out of one of the same pass.
SettledInv ==
    \A i \in Instances :
        pc[i] \in {"persist", "upsert"} /\ job[i].alone /\ job[i].pass > 1 =>
            \A g \in job[i].todo : \A n \in g.notices :
                \/ canonical[n] = None
                \/ \E h \in job[i].groups \ job[i].todo : n \in h.notices

\* Two notices that pass q should have put together, and has not yet.
Missed(q, n, m) ==
    /\ PassMatch(PassOrder[q], Notices, InWindow, n, m)
    /\ canonical[n] = None
    /\ canonical[m] = None \/ PassOrder[q] = "ico_cpv"

\* One of the two is in a group that is still to persist.
StillToDo(todo, q, n, m) ==
    \E g \in todo : n \in g.notices \/ (PassOrder[q] # "ico_cpv" /\ m \in g.notices)

\* What the passes of an undisturbed run have missed so far is still to persist, and
\* at its end they have missed nothing.
CleanInv ==
    \A i \in Instances : job[i].clean =>
        /\ pc[i] \in {"persist", "upsert"} =>
              \A q \in 1..job[i].pass : \A n, m \in InWindow :
                 Missed(q, n, m) => StillToDo(job[i].todo, q, n, m)
        /\ pc[i] = "stats" => Unmatched = {}

-----------------------------------------------------------------------------
(* Types *)

LEMMA ThreePasses ==
    /\ Len(PassOrder) = 3
    /\ \A q \in 1..3 : PassOrder[q] \in Passes
    /\ \A q \in 1..3 : PassOrder[q] = "ico_cpv" <=> q = 1
    /\ \A match_type \in Passes : \E q \in 1..3 : PassOrder[q] = match_type
BY DEF PassOrder, Passes

\* The groups of the next pass, whatever order the query returned.
LEMMA NextPass ==
    ASSUME TypeInv, NEW i \in Instances, BuildGroups(i)
    PROVE  /\ job[i].pass \in 0..2
           /\ \E order \in SortedByDate(Notices, InWindow), groups \in SUBSET Groups :
                 /\ groups = Build(PassOrder[job[i].pass + 1], Notices, canonical, InWindow, order)
                 /\ job' = [job EXCEPT ![i] = [job[i] EXCEPT
                              !.pass = @ + 1, !.groups = groups, !.todo = groups]]
                 /\ \A g \in groups : BuiltSound(PassOrder[job[i].pass + 1], Notices, canonical,
                                                 InWindow, g)
<1> DEFINE q == job[i].pass + 1
<1>1. job[i].pass \in 0..2
  BY ThreePasses DEF BuildGroups, ReadyToBuild, TypeInv, JobsOK, Jobs
<1>2. q \in 1..3 /\ PassOrder[q] \in Passes
  BY <1>1, ThreePasses
<1>3. Dated(Notices, InWindow)
  BY WindowIsDated DEF TypeInv
<1>4. PICK order \in SortedByDate(Notices, InWindow) :
         job' = [job EXCEPT ![i] = [job[i] EXCEPT !.pass = @ + 1,
                    !.groups = Build(PassOrder[q], Notices, canonical, InWindow, order),
                    !.todo = Build(PassOrder[q], Notices, canonical, InWindow, order)]]
  BY DEF BuildGroups
<1> DEFINE groups == Build(PassOrder[q], Notices, canonical, InWindow, order)
<1>5. \A g \in groups : BuiltSound(PassOrder[q], Notices, canonical, InWindow, g)
  <2> HIDE DEF q
  <2> QED BY <1>2, <1>3, BuildSound
<1>6. groups \subseteq Groups
  <2> HIDE DEF groups, q
  <2>1. InWindow \subseteq Ids
    BY DEF InWindow, Stored
  <2> QED BY <1>2, <1>5, <2>1 DEF BuiltSound, Groups
<1>7. job' = [job EXCEPT ![i] = [job[i] EXCEPT !.pass = @ + 1, !.groups = groups, !.todo = groups]]
  BY <1>4
<1> HIDE DEF groups
<1> QED BY <1>1, <1>4, <1>5, <1>6, <1>7 DEF groups

\* The runs keep their types: one of them moves on, ...
LEMMA OneJobMoves ==
    ASSUME JobsOK, pc \in [Instances -> Labels], NEW i \in Instances, NEW r \in Jobs, NEW label,
           r.todo \subseteq r.groups, label = "upsert" => r.group \in Groups,
           job' = [job EXCEPT ![i] = r], Goto(i, label)
    PROVE  JobsOK'
<1>1. job' \in [Instances -> Jobs] /\ job'[i] = r /\ \A j \in Instances \ {i} : job'[j] = job[j]
  <2> HIDE DEF Jobs
  <2> QED BY DEF JobsOK
<1>2. pc'[i] = label /\ \A j \in Instances \ {i} : pc'[j] = pc[j]
  BY DEF Goto
<1> HIDE DEF Jobs
<1>3. \A j \in Instances : job'[j].todo \subseteq job'[j].groups
  BY <1>1 DEF JobsOK
<1>4. \A j \in Instances : pc'[j] = "upsert" => job'[j].group \in Groups
  BY <1>1, <1>2 DEF JobsOK
<1> QED BY <1>1, <1>3, <1>4 DEF JobsOK

\* ... or all of them lose a flag.
LEMMA FlagsFall ==
    ASSUME JobsOK, pc' = pc,
           \/ job' = [j \in Instances |-> [job[j] EXCEPT !.clean = FALSE]]
           \/ job' = [j \in Instances |-> [job[j] EXCEPT !.alone = FALSE]]
    PROVE  JobsOK'
<1>1. ASSUME NEW r \in Jobs, NEW x, x \in {[r EXCEPT !.clean = FALSE], [r EXCEPT !.alone = FALSE]}
      PROVE  x \in Jobs /\ x.todo = r.todo /\ x.groups = r.groups /\ x.group = r.group
  BY <1>1 DEF Jobs
<1>2. ASSUME NEW i \in Instances
      PROVE  /\ job'[i] \in Jobs /\ job'[i].todo = job[i].todo
             /\ job'[i].groups = job[i].groups /\ job'[i].group = job[i].group
  <2>1. job[i] \in Jobs
    BY DEF JobsOK
  <2>2. job'[i] \in {[job[i] EXCEPT !.clean = FALSE], [job[i] EXCEPT !.alone = FALSE]}
    OBVIOUS
  <2> QED BY <1>1, <2>1, <2>2
<1>3. job' \in [Instances -> Jobs]
  <2>1. job' = [i \in Instances |-> job'[i]]
    OBVIOUS
  <2> QED BY <1>2, <2>1
<1> QED BY <1>2, <1>3 DEF JobsOK

LEMMA JobsStep ==
    ASSUME TypeInv, Next
    PROVE  JobsOK'
<1>1. JobsOK /\ pc \in [Instances -> Labels]
  BY DEF TypeInv, TypeOK
<1>2. ASSUME NEW n \in Ids, WriteNotice(n) PROVE JobsOK'
  BY <1>1, <1>2, FlagsFall DEF WriteNotice
<1>3. ASSUME LockExpires PROVE JobsOK'
  BY <1>1, <1>3, FlagsFall DEF LockExpires
<1>4. ASSUME PublishWritten PROVE JobsOK'
  BY <1>1, <1>4 DEF PublishWritten, JobsOK
<1>5. ASSUME NEW i \in Instances, BuildGroups(i) PROVE JobsOK'
  <2>1. PICK groups :
           /\ job' = [job EXCEPT ![i] = [job[i] EXCEPT !.pass = @ + 1, !.groups = groups, !.todo = groups]]
           /\ groups \subseteq Groups
    BY <1>5, NextPass
  <2> DEFINE r == [job[i] EXCEPT !.pass = @ + 1, !.groups = groups, !.todo = groups]
  <2>2. job[i].pass \in 0..2
    BY <1>5, NextPass
  <2>3. job[i].pass + 1 \in 0..Len(PassOrder)
    BY <2>2, ThreePasses
  <2>4. r \in Jobs /\ r.todo \subseteq r.groups /\ r.group = job[i].group
    BY <1>1, <2>1, <2>3 DEF JobsOK, Jobs
  <2>5. pc' = pc /\ Goto(i, pc[i])
    BY <1>1, <1>5 DEF BuildGroups, Goto
  <2>6. pc[i] = "upsert" => r.group \in Groups
    BY <1>1, <2>4 DEF JobsOK
  <2>7. job' = [job EXCEPT ![i] = r]
    BY <2>1
  <2> HIDE DEF r
  <2> QED BY <1>1, <2>4, <2>5, <2>6, <2>7, OneJobMoves
<1>6. ASSUME NEW clean \in BOOLEAN, NEW alone \in BOOLEAN
      PROVE  /\ [NoJob EXCEPT !.clean = clean, !.alone = alone] \in Jobs
             /\ [NoJob EXCEPT !.clean = clean, !.alone = alone].todo = {}
  <2>1. NoJob \in Jobs /\ NoJob.todo = {}
    BY ThreePasses DEF NoJob, Jobs
  <2>2. ASSUME NEW r \in Jobs
        PROVE  /\ [r EXCEPT !.clean = clean, !.alone = alone] \in Jobs
               /\ [r EXCEPT !.clean = clean, !.alone = alone].todo = r.todo
    BY DEF Jobs
  <2> HIDE DEF Jobs, NoJob
  <2> QED BY <2>1, <2>2
<1>7. ASSUME NEW i \in Instances, AcquireLock(i) PROVE JobsOK'
  <2> DEFINE r == [NoJob EXCEPT !.clean = TRUE,
                      !.alone = \A j \in Instances \ {i} : pc[j] \notin Running]
  <2>1. CASE job' = [job EXCEPT ![i] = r] /\ Goto(i, "persist")
    <3>1. r \in Jobs /\ r.todo \subseteq r.groups
      BY <1>6
    <3> HIDE DEF r
    <3> QED BY <1>1, <2>1, <3>1, OneJobMoves
  <2>2. CASE job' = job /\ (Goto(i, "watch") \/ Goto(i, "dead"))
    BY <1>1, <2>2 DEF JobsOK, Goto
  <2> QED BY <1>7, <2>1, <2>2 DEF AcquireLock
<1>8. ASSUME NEW i \in Instances, UpdateMembers(i) PROVE JobsOK'
  <2>1. PICK g \in job[i].todo : job' = [Disturb(i) EXCEPT ![i].todo = @ \ {g}, ![i].group = g]
    BY <1>8 DEF UpdateMembers
  <2>2. g \in Groups
    BY <1>1, <2>1 DEF JobsOK, Jobs
  <2>3. job'[i] = [job[i] EXCEPT !.todo = @ \ {g}, !.group = g]
    BY <2>1 DEF Disturb
  <2>4. \A j \in Instances \ {i} : job'[j] = [job[j] EXCEPT !.clean = FALSE]
    BY <2>1 DEF Disturb
  <2>5. job' = [j \in Instances |-> job'[j]]
    BY <2>1 DEF Disturb
  <2>6. job'[i] \in Jobs /\ job'[i].todo \subseteq job'[i].groups /\ job'[i].group \in Groups
    <3>1. ASSUME NEW r \in Jobs, r.todo \subseteq r.groups, NEW x,
                 x = [r EXCEPT !.todo = @ \ {g}, !.group = g]
          PROVE  x \in Jobs /\ x.todo \subseteq x.groups /\ x.group = g
      <4>1. r.todo \in SUBSET Groups /\ r.todo \ {g} \in SUBSET Groups
        BY DEF Jobs
      <4> HIDE DEF Groups
      <4> QED BY <2>2, <3>1, <4>1 DEF Jobs
    <3>2. job[i] \in Jobs /\ job[i].todo \subseteq job[i].groups
      BY <1>1 DEF JobsOK
    <3> HIDE DEF Jobs
    <3> QED BY <2>2, <2>3, <3>1, <3>2
  <2>7. ASSUME NEW j \in Instances \ {i}
        PROVE  job'[j] \in Jobs /\ job'[j].todo \subseteq job'[j].groups /\ job'[j].group = job[j].group
    BY <1>1, <2>4 DEF JobsOK, Jobs
  <2>8. \A j \in Instances \ {i} : pc'[j] = pc[j]
    BY <1>1, <1>8 DEF UpdateMembers, Goto
  <2> HIDE DEF Jobs
  <2>9. \A j \in Instances : job'[j] \in Jobs
    BY <2>6, <2>7
  <2>10. job' \in [Instances -> Jobs]
    BY <2>5, <2>9
  <2>11. \A j \in Instances : job'[j].todo \subseteq job'[j].groups
    BY <2>6, <2>7
  <2>12. \A j \in Instances : pc'[j] = "upsert" => job'[j].group \in Groups
    BY <1>1, <2>6, <2>7, <2>8 DEF JobsOK
  <2> QED BY <2>10, <2>11, <2>12 DEF JobsOK
<1>9. ASSUME NEW i \in Instances, UpsertMatch(i) PROVE JobsOK'
  <2> DEFINE r == [job[i] EXCEPT !.group = None]
  <2>1. r \in Jobs /\ r.todo \subseteq r.groups
    BY <1>1 DEF JobsOK, Jobs
  <2>2. job' = [job EXCEPT ![i] = r] /\ Goto(i, "persist")
    BY <1>9 DEF UpsertMatch
  <2> HIDE DEF r
  <2> QED BY <1>1, <2>1, <2>2, OneJobMoves
<1>10. ASSUME NEW i \in Instances, ReleaseLock(i) \/ Crash(i) PROVE JobsOK'
  <2>1. NoJob \in Jobs /\ NoJob.todo \subseteq NoJob.groups
    BY ThreePasses DEF NoJob, Jobs
  <2>2. job' = [job EXCEPT ![i] = NoJob] /\ (Goto(i, "watch") \/ Goto(i, "dead"))
    BY <1>10 DEF ReleaseLock, Crash
  <2> QED BY <1>1, <2>1, <2>2, OneJobMoves
<1>11. ASSUME NEW i \in Instances,
             \/ Elapse(i) \/ Timer(i) \/ RunComplete(i) \/ RecomputeStats(i)
             \/ RunFails(i) \/ SubscriberDies(i) \/ Stop(i)
      PROVE  JobsOK'
  <2>1. job' = job /\ (\/ pc' = pc
                       \/ \E label \in Labels \ {"upsert"} : Goto(i, label))
    BY <1>11 DEF Elapse, Timer, TimerPending, TimerInterval, RunComplete, RecomputeStats,
                 RunFails, SubscriberDies, Stop, Labels
  <2> QED BY <1>1, <2>1 DEF JobsOK, Goto
<1> QED BY <1>2, <1>3, <1>4, <1>5, <1>7, <1>8, <1>9, <1>10, <1>11 DEF Next, Write

\* The collections keep theirs.
LEMMA StoreStep ==
    ASSUME TypeInv, Next
    PROVE  /\ RevisionsExist'
           /\ (canonical \in [Ids -> Ids \cup {None}])'
           /\ (matches \in [Ids -> Groups \cup {None}])'
           /\ (stats \in [Kinds -> [Entities -> Nat \X Nat]])'
<1> DEFINE Inv == /\ RevisionsExist
                  /\ canonical \in [Ids -> Ids \cup {None}]
                  /\ matches \in [Ids -> Groups \cup {None}]
                  /\ stats \in [Kinds -> [Entities -> Nat \X Nat]]
<1>1. Inv
  BY DEF TypeInv, TypeOK
<1>2. ASSUME NEW n \in Ids, WriteNotice(n) PROVE Inv'
  <2>1. RevisionsExist'
    <3>1. revision[n] \in Nat /\ revision[n] < Len(Versions[n])
      BY <1>1, <1>2 DEF WriteNotice, RevisionsExist
    <3>2. Len(Versions[n]) \in Nat
      BY DedupAssumption
    <3> QED BY <1>1, <1>2, <3>1, <3>2 DEF WriteNotice, RevisionsExist
  <2> QED BY <1>1, <1>2, <2>1 DEF WriteNotice
<1>3. ASSUME NEW i \in Instances, UpdateMembers(i) PROVE Inv'
  <2>1. PICK g \in job[i].todo :
           canonical' = [n \in Ids |-> IF n \in g.notices THEN g.canonical_id ELSE canonical[n]]
    BY <1>3 DEF UpdateMembers
  <2>2. g.canonical_id \in Ids
    BY <2>1 DEF TypeInv, TypeOK, Groups
  <2> QED BY <1>1, <1>3, <2>1, <2>2 DEF UpdateMembers, RevisionsExist
<1>4. ASSUME NEW i \in Instances, UpsertMatch(i) PROVE Inv'
  BY <1>1, <1>4 DEF UpsertMatch, RevisionsExist, TypeInv, JobsOK, Groups
<1>5. ASSUME NEW i \in Instances, RecomputeStats(i) PROVE Inv'
  <2>1. ASSUME NEW kind \in Kinds PROVE Recounted(kind) \in [Entities -> Nat \X Nat]
    <3>1. ASSUME NEW e \in Entities PROVE StatsOf(CountedFor(kind, e)) \in Nat \X Nat
      <4> DEFINE S == CountedFor(kind, e)
      <4>1. S \subseteq Stored /\ Stored \subseteq Ids
        BY DEF CountedFor, ProcuredBy, WonBy, Stored
      <4>2. IsFiniteSet(S)
        <5> HIDE DEF S
        <5> QED BY <4>1, FS_Subset, DedupAssumption
      <4>3. \A n \in S : Notice(n).final \in Nat
        <5> HIDE DEF S
        <5> QED BY <1>1, <4>1, StoredNotices
      <4> HIDE DEF S
      <4>4. StatsOf(S) \in Nat \X Nat
        BY <4>2, <4>3, StatsAreNumbers
      <4> QED BY <4>4 DEF S
    <3> QED BY <1>1, <3>1 DEF Recounted
  <2>2. "procurers" \in Kinds /\ "suppliers" \in Kinds
    BY DEF Kinds
  <2>3. (stats \in [Kinds -> [Entities -> Nat \X Nat]])'
    BY <1>1, <1>5, <2>1, <2>2 DEF RecomputeStats
  <2> QED BY <1>1, <1>5, <2>3 DEF RecomputeStats, RevisionsExist
<1>6. ASSUME UNCHANGED storeVars PROVE Inv'
  BY <1>1, <1>6 DEF storeVars, RevisionsExist
<1>7. ASSUME NEW i \in Instances, \/ Elapse(i) \/ Timer(i) \/ BuildGroups(i) \/ AcquireLock(i)
                                 \/ RunComplete(i) \/ ReleaseLock(i) \/ RunFails(i)
                                 \/ SubscriberDies(i) \/ Stop(i) \/ Crash(i)
      PROVE  UNCHANGED storeVars
  BY <1>7 DEF Elapse, Timer, BuildGroups, AcquireLock, RunComplete, ReleaseLock, RunFails,
              SubscriberDies, Stop, Crash
<1>8. ASSUME PublishWritten \/ LockExpires PROVE UNCHANGED storeVars
  BY <1>8 DEF PublishWritten, LockExpires
<1> HIDE DEF Inv
<1>9. Inv'
  BY <1>2, <1>3, <1>4, <1>5, <1>6, <1>7, <1>8 DEF Next, Write
<1> QED BY <1>9 DEF Inv

\* Timers, subscribers, labels, the lock and the count of faults keep theirs.
Control ==
    /\ unpublished \in BOOLEAN
    /\ timer \in [Instances -> Timers]
    /\ ears \in [Instances -> {"listening", "deaf", "stopped"}]
    /\ pc \in [Instances -> Labels]
    /\ LockTypeOK
    /\ faults \in 0..MaxFaults

LEMMA TimersStep ==
    ASSUME timer \in [Instances -> Timers], Next
    PROVE  timer' \in [Instances -> Timers]
<1>1. ASSUME NEW t \in Timers
      PROVE  /\ [t EXCEPT !.pending = TRUE, !.quiet = FALSE, !.late = FALSE] \in Timers
             /\ [t EXCEPT !.quiet = TRUE] \in Timers /\ [t EXCEPT !.late = TRUE] \in Timers
             /\ [t EXCEPT !.open = TRUE] \in Timers
             /\ [t EXCEPT !.pending = FALSE, !.open = FALSE] \in Timers
             /\ [t EXCEPT !.quiet = FALSE, !.late = FALSE, !.open = FALSE] \in Timers
  BY DEF Timers
<1>2. FreshTimer \in Timers
  BY DEF FreshTimer, Timers
<1> HIDE DEF Timers, FreshTimer
<1>3. ASSUME PublishWritten PROVE timer' \in [Instances -> Timers]
  BY <1>1, <1>3 DEF PublishWritten
<1>4. ASSUME NEW i \in Instances, Elapse(i) PROVE timer' \in [Instances -> Timers]
  <2>1. \/ timer' = [timer EXCEPT ![i] = [timer[i] EXCEPT !.quiet = TRUE]]
        \/ timer' = [timer EXCEPT ![i] = [timer[i] EXCEPT !.late = TRUE]]
        \/ timer' = [timer EXCEPT ![i] = [timer[i] EXCEPT !.open = TRUE]]
    BY <1>4 DEF Elapse
  <2> QED BY <1>1, <2>1
<1>5. ASSUME NEW i \in Instances, Timer(i) PROVE timer' \in [Instances -> Timers]
  <2>1. \/ timer' = [timer EXCEPT ![i] = [timer[i] EXCEPT !.pending = FALSE, !.open = FALSE]]
        \/ timer' = [timer EXCEPT ![i] = [timer[i] EXCEPT !.quiet = FALSE, !.late = FALSE,
                                                          !.open = FALSE]]
    BY <1>5 DEF Timer, TimerPending, TimerInterval
  <2> QED BY <1>1, <2>1
<1>6. ASSUME NEW i \in Instances, Stop(i) \/ Crash(i) PROVE timer' \in [Instances -> Timers]
  BY <1>2, <1>6 DEF Stop, Crash
<1>7. ASSUME UNCHANGED timer PROVE timer' \in [Instances -> Timers]
  BY <1>7
<1>8. ASSUME NEW i \in Instances, \/ BuildGroups(i) \/ Write(i) \/ RunFails(i) \/ SubscriberDies(i)
      PROVE  UNCHANGED timer
  BY <1>8 DEF BuildGroups, Write, AcquireLock, UpdateMembers, UpsertMatch, RunComplete,
              RecomputeStats, ReleaseLock, RunFails, SubscriberDies
<1>9. ASSUME NEW n \in Ids, WriteNotice(n) PROVE UNCHANGED timer
  BY <1>9 DEF WriteNotice
<1>10. ASSUME LockExpires PROVE UNCHANGED timer
  BY <1>10 DEF LockExpires
<1> QED BY <1>3, <1>4, <1>5, <1>6, <1>7, <1>8, <1>9, <1>10 DEF Next

LEMMA ControlStep ==
    ASSUME Control, Next
    PROVE  Control'
<1>1. timer' \in [Instances -> Timers]
  BY TimersStep DEF Control
<1>2. ears' \in [Instances -> {"listening", "deaf", "stopped"}] /\ unpublished' \in BOOLEAN
  BY DEF Control, Next, WriteNotice, PublishWritten, LockExpires, Elapse, Timer, BuildGroups,
         Write, AcquireLock, UpdateMembers, UpsertMatch, RunComplete, RecomputeStats,
         ReleaseLock, RunFails, SubscriberDies, Stop, Crash
<1>3. pc' \in [Instances -> Labels]
  <2>1. pc' = pc \/ \E i \in Instances, label \in Labels : Goto(i, label)
    BY DEF Next, WriteNotice, PublishWritten, LockExpires, Elapse, Timer, TimerPending,
           TimerInterval, BuildGroups, Write, AcquireLock, UpdateMembers, UpsertMatch,
           RunComplete, RecomputeStats, ReleaseLock, RunFails, SubscriberDies, Stop, Crash, Labels
  <2> QED BY <2>1 DEF Control, Goto
<1>4. faults' \in 0..MaxFaults
  <2>1. UNCHANGED faults \/ Fault
    BY DEF Next, WriteNotice, PublishWritten, LockExpires, Elapse, Timer, BuildGroups,
           Write, AcquireLock, UpdateMembers, UpsertMatch, RunComplete, RecomputeStats,
           ReleaseLock, RunFails, SubscriberDies, Stop, Crash, NoFault
  <2>2. MaxFaults \in Nat
    BY DedupAssumption
  <2> QED BY <2>1, <2>2 DEF Fault, Control
<1>5. LockTypeOK'
  <2>1. \/ UNCHANGED lockVars \/ EXPIRE
        \/ \E i \in Instances : SET_NX(i) \/ RELEASE(i) \/ ABANDON(i)
    BY DEF Next, WriteNotice, PublishWritten, LockExpires, Elapse, Timer, BuildGroups,
           Write, AcquireLock, UpdateMembers, UpsertMatch, RunComplete, RecomputeStats,
           ReleaseLock, RunFails, SubscriberDies, Stop, Crash
  <2> QED BY <2>1 DEF Control, LockTypeOK, lockVars, EXPIRE, SET_NX, RELEASE, ABANDON
<1> QED BY <1>1, <1>2, <1>3, <1>4, <1>5 DEF Control

LEMMA TypeInit ==
    ASSUME Init PROVE TypeInv
<1>1. Control
  BY DedupAssumption DEF Init, Control, FreshTimer, Timers, Labels, LockTypeOK, LockInit
<1>2. RevisionsExist
  <2>1. \A n \in Ids : Len(Versions[n]) \in Nat /\ (n \in Initially => Len(Versions[n]) >= 1)
    BY DedupAssumption
  <2> QED BY <2>1 DEF Init, RevisionsExist
<1>3. JobsOK
  <2>1. NoJob \in Jobs /\ NoJob.todo = {}
    BY ThreePasses DEF NoJob, Jobs
  <2> HIDE DEF Jobs
  <2> QED BY <2>1 DEF Init, JobsOK
<1>4. /\ canonical \in [Ids -> Ids \cup {None}]
      /\ matches \in [Ids -> Groups \cup {None}]
      /\ stats \in [Kinds -> [Entities -> Nat \X Nat]]
  BY DEF Init
<1> QED BY <1>1, <1>2, <1>3, <1>4 DEF TypeInv, TypeOK, RevisionsExist, JobsOK, Jobs, Control

LEMMA TypeStep ==
    ASSUME TypeInv, [Next]_vars PROVE TypeInv'
<1>1. CASE Next
  <2>1. Control'
    BY <1>1, ControlStep DEF TypeInv, TypeOK, Control
  <2>2. /\ RevisionsExist' /\ JobsOK'
        /\ (canonical \in [Ids -> Ids \cup {None}])'
        /\ (matches \in [Ids -> Groups \cup {None}])'
        /\ (stats \in [Kinds -> [Entities -> Nat \X Nat]])'
    BY <1>1, StoreStep, JobsStep
  <2>3. (\A i \in Instances : job[i].todo \subseteq job[i].groups /\ job[i].groups \subseteq Groups)'
    BY <2>2 DEF JobsOK, Jobs
  <2>4. (revision \in [Ids -> Nat])' /\ (\A n \in Ids : matches[n] # None => matches[n] \in Groups)'
    BY <2>2 DEF RevisionsExist
  <2> QED BY <2>1, <2>2, <2>3, <2>4 DEF TypeInv, TypeOK, Control
<1>2. CASE UNCHANGED vars
  BY <1>2 DEF vars, storeVars, lockVars, TypeInv, TypeOK, RevisionsExist, JobsOK, LockTypeOK
<1> QED BY <1>1, <1>2

\* The workers and the two collections keep their types (_serve_dedup,
\* cross_source_matches, the entity stats), for any corpus.
THEOREM TypeCorrect == Spec => []TypeOK
<1>1. Init => TypeInv
  BY TypeInit
<1>2. TypeInv /\ [Next]_vars => TypeInv'
  BY TypeStep
<1>3. TypeInv => TypeOK
  BY DEF TypeInv
<1> QED BY <1>1, <1>2, <1>3, PTL DEF Spec

-----------------------------------------------------------------------------
(* The lock *)

LEMMA LockInit0 ==
    ASSUME Init PROVE LockInv
BY DEF Init, LockInv, Running

\* A run's lock is its own until it gives it back, or the key expires.
LEMMA LockStep ==
    ASSUME TypeInv, LockInv, [Next]_vars
    PROVE  LockInv'
<1> USE LockAssumption DEF LockInv
<1>1. pc \in [Instances -> Labels] /\ job \in [Instances -> Jobs]
  BY DEF TypeInv, TypeOK, JobsOK
<1>2. ASSUME holder' = holder, NEW i \in Instances, NEW label, Goto(i, label) \/ pc' = pc,
             pc[i] \in Running \/ label \notin Running,
             \A j \in Instances : job'[j].alone = job[j].alone \/ ~job'[j].alone
      PROVE  LockInv'
  <2>1. \A j \in Instances : pc'[j] \in Running => pc[j] \in Running
    BY <1>1, <1>2 DEF Goto
  <2> QED BY <1>2, <2>1
<1>3. ASSUME NEW i \in Instances, AcquireLock(i) PROVE LockInv'
  <2> DEFINE r == [NoJob EXCEPT !.clean = TRUE,
                      !.alone = \A j \in Instances \ {i} : pc[j] \notin Running]
  <2>1. CASE SET_NX(i) /\ Goto(i, "persist") /\ job' = [job EXCEPT ![i] = r]
    <3>1. holder = Free /\ holder' = i
      BY <2>1 DEF SET_NX
    <3>2. Goto(i, "persist") /\ job' = [job EXCEPT ![i] = r]
      BY <2>1
    <3>3. \A j \in Instances \ {i} : pc'[j] = pc[j] /\ job'[j] = job[j]
      BY <3>2 DEF Goto
    <3>4. \A j \in Instances : ~(job[j].alone /\ pc[j] \in Running)
      BY <3>1
    <3>5. job'[i] = r
      <4> HIDE DEF r
      <4> QED BY <1>1, <3>2
    <3>6. job'[i].alone => \A j \in Instances \ {i} : pc[j] \notin Running
      BY <3>5 DEF NoJob
    <3> HIDE DEF r
    <3> QED BY <3>1, <3>3, <3>4, <3>6
  <2>2. CASE UNCHANGED <<job, lockVars>> /\ (Goto(i, "watch") \/ Goto(i, "dead"))
    BY <1>2, <2>2 DEF lockVars, Running
  <2> QED BY <1>3, <2>1, <2>2 DEF AcquireLock
<1>4. ASSUME NEW i \in Instances, ReleaseLock(i) \/ Crash(i) PROVE LockInv'
  <2>1. /\ Goto(i, "watch") \/ Goto(i, "dead")
        /\ job' = [job EXCEPT ![i] = NoJob]
        /\ holder # i => holder' = holder
    BY <1>4 DEF ReleaseLock, Crash, RELEASE, ABANDON, lockVars
  <2>2. pc'[i] \notin Running /\ \A j \in Instances \ {i} : pc'[j] = pc[j] /\ job'[j] = job[j]
    BY <1>1, <2>1 DEF Goto, Running
  <2>3. CASE holder = i
    <3>1. \A j \in Instances \ {i} : ~(job[j].alone /\ pc[j] \in Running)
      BY <2>3
    <3> QED BY <2>2, <3>1
  <2>4. CASE holder # i
    BY <2>1, <2>2, <2>4
  <2> QED BY <2>3, <2>4
<1>5. ASSUME LockExpires PROVE LockInv'
  <2>1. \A j \in Instances : job'[j].alone = FALSE
    BY <1>1, <1>5 DEF LockExpires, Jobs
  <2> QED BY <2>1
<1>6. ASSUME NEW n \in Ids, WriteNotice(n) PROVE LockInv'
  <2>1. \A j \in Instances : job'[j].alone = job[j].alone
    BY <1>1, <1>6 DEF WriteNotice, Jobs
  <2> QED BY <1>6, <2>1 DEF WriteNotice, lockVars
<1>7. ASSUME PublishWritten PROVE LockInv'
  BY <1>7 DEF PublishWritten, lockVars
<1>8. ASSUME NEW i \in Instances, BuildGroups(i) PROVE LockInv'
  <2>1. PICK groups :
           job' = [job EXCEPT ![i] = [job[i] EXCEPT !.pass = @ + 1, !.groups = groups, !.todo = groups]]
    BY <1>8, NextPass
  <2>2. \A j \in Instances : job'[j].alone = job[j].alone
    BY <1>1, <2>1 DEF Jobs
  <2> QED BY <1>8, <2>2 DEF BuildGroups, lockVars
<1>9. ASSUME NEW i \in Instances, UpdateMembers(i) PROVE LockInv'
  <2>1. PICK g \in job[i].todo : job' = [Disturb(i) EXCEPT ![i].todo = @ \ {g}, ![i].group = g]
    BY <1>9 DEF UpdateMembers
  <2>2. job'[i] = [job[i] EXCEPT !.todo = @ \ {g}, !.group = g]
    BY <2>1 DEF Disturb
  <2>3. \A j \in Instances \ {i} : job'[j] = [job[j] EXCEPT !.clean = FALSE]
    BY <2>1 DEF Disturb
  <2>4. job'[i].alone = job[i].alone
    BY <1>1, <2>2 DEF Jobs
  <2>5. \A j \in Instances \ {i} : job'[j].alone = job[j].alone
    BY <1>1, <2>3 DEF Jobs
  <2>6. holder' = holder /\ Goto(i, "upsert") /\ pc[i] \in Running
    BY <1>9 DEF UpdateMembers, lockVars, Running
  <2>7. \A j \in Instances : job'[j].alone = job[j].alone
    BY <2>4, <2>5
  <2> QED BY <1>2, <2>6, <2>7
<1>10. ASSUME NEW i \in Instances, UpsertMatch(i) PROVE LockInv'
  <2>1. job' = [job EXCEPT ![i] = [job[i] EXCEPT !.group = None]]
    BY <1>10 DEF UpsertMatch
  <2>2. \A j \in Instances : job'[j].alone = job[j].alone
    BY <1>1, <2>1 DEF Jobs
  <2>3. holder' = holder /\ Goto(i, "persist") /\ pc[i] \in Running
    BY <1>10 DEF UpsertMatch, lockVars, Running
  <2> QED BY <1>2, <2>2, <2>3
<1>11. ASSUME NEW i \in Instances,
             \/ Elapse(i) \/ Timer(i) \/ RunComplete(i) \/ RecomputeStats(i)
             \/ RunFails(i) \/ SubscriberDies(i) \/ Stop(i)
      PROVE  LockInv'
  <2>1. /\ holder' = holder /\ job' = job
        /\ \/ pc' = pc
           \/ Goto(i, "lock")
           \/ pc[i] \in Running /\ \E label \in Running : Goto(i, label)
    BY <1>11 DEF Elapse, Timer, TimerPending, TimerInterval, RunComplete, RecomputeStats,
                 RunFails, SubscriberDies, Stop, lockVars, Running
  <2>2. CASE pc' = pc
    BY <2>1, <2>2
  <2>3. CASE Goto(i, "lock")
    <3>1. "lock" \notin Running
      BY DEF Running
    <3> QED BY <1>2, <2>1, <2>3, <3>1
  <2>4. CASE pc[i] \in Running /\ \E label \in Running : Goto(i, label)
    BY <1>2, <2>1, <2>4
  <2> QED BY <2>1, <2>2, <2>3, <2>4
<1>12. CASE UNCHANGED vars
  BY <1>12 DEF vars, lockVars
<1> QED BY <1>3, <1>4, <1>5, <1>6, <1>7, <1>8, <1>9, <1>10, <1>11, <1>12 DEF Next, Write

-----------------------------------------------------------------------------
(* What the steps other than a build and an update of members leave alone *)

\* A run between two of these is new, or where it was; at its end it has come to it,
\* or was there; nothing of the corpus has changed, or no run is clean.
QuietRun(k) ==
    /\ pc'[k] \in {"persist", "upsert"} =>
          \/ job'[k].pass = 0 /\ job'[k].todo = {}
          \/ /\ pc[k] \in {"persist", "upsert"}
             /\ job'[k].pass = job[k].pass
             /\ job'[k].groups = job[k].groups /\ job'[k].todo = job[k].todo
             /\ job'[k].alone => job[k].alone
             /\ job'[k].clean => job[k].clean
    /\ pc'[k] = "stats" /\ job'[k].clean =>
          job[k].clean /\ (pc[k] = "stats" \/ RunComplete(k))

QuietStep ==
    /\ canonical' = canonical
    /\ revision' = revision \/ \A k \in Instances : ~job'[k].clean
    /\ \A k \in Instances : QuietRun(k)

LEMMA QuietSteps ==
    ASSUME TypeInv, [Next]_vars
    PROVE  QuietStep \/ \E i \in Instances : BuildGroups(i) \/ UpdateMembers(i)
<1> DEFINE Busy == {"persist", "upsert", "stats"}
<1>1. pc \in [Instances -> Labels] /\ job \in [Instances -> Jobs]
  BY DEF TypeInv, TypeOK, JobsOK
<1>2. ASSUME NEW n \in Ids, WriteNotice(n) PROVE QuietStep
  <2>1. \A k \in Instances :
           /\ job'[k].pass = job[k].pass /\ job'[k].groups = job[k].groups
           /\ job'[k].todo = job[k].todo /\ job'[k].alone = job[k].alone
           /\ job'[k].clean = FALSE
    BY <1>1, <1>2 DEF WriteNotice, Jobs
  <2> QED BY <1>2, <2>1 DEF WriteNotice, QuietStep, QuietRun
<1>3. ASSUME LockExpires PROVE QuietStep
  <2>1. \A k \in Instances :
           /\ job'[k].pass = job[k].pass /\ job'[k].groups = job[k].groups
           /\ job'[k].todo = job[k].todo /\ job'[k].alone = FALSE
           /\ job'[k].clean = job[k].clean
    BY <1>1, <1>3 DEF LockExpires, Jobs
  <2> QED BY <1>3, <2>1 DEF LockExpires, storeVars, QuietStep, QuietRun
<1>4. ASSUME PublishWritten \/ UNCHANGED vars PROVE QuietStep
  BY <1>4 DEF PublishWritten, vars, storeVars, QuietStep, QuietRun
<1>5. ASSUME NEW i \in Instances, UNCHANGED <<revision, canonical>>, NEW r, NEW label,
             job' = [job EXCEPT ![i] = r], pc' = pc \/ Goto(i, label),
             label \in Busy /\ pc' # pc => label # "stats" /\ r.pass = 0 /\ r.todo = {},
             pc' = pc => r = job[i]
      PROVE  QuietStep
  <2>1. \A k \in Instances \ {i} : pc'[k] = pc[k] /\ job'[k] = job[k]
    BY <1>1, <1>5 DEF Goto
  <2>2. job'[i] = r
    BY <1>1, <1>5
  <2>3. ASSUME NEW k \in Instances PROVE QuietRun(k)
    <3>1. CASE k # i
      BY <2>1, <3>1 DEF QuietRun
    <3>2. CASE k = i /\ pc' = pc
      BY <1>5, <2>2, <3>2 DEF QuietRun
    <3>3. CASE k = i /\ pc' # pc
      <4>1. pc'[i] = label
        BY <1>1, <1>5, <3>3 DEF Goto
      <4>2. label \in Busy => label # "stats" /\ r.pass = 0 /\ r.todo = {}
        BY <1>5, <3>3
      <4> QED BY <2>2, <3>3, <4>1, <4>2 DEF QuietRun
    <3> QED BY <3>1, <3>2, <3>3
  <2> QED BY <1>5, <2>3 DEF QuietStep
<1>6. NoJob.pass = 0 /\ NoJob.todo = {}
  BY DEF NoJob
<1>7. ASSUME NEW i \in Instances, AcquireLock(i) PROVE QuietStep
  <2> DEFINE r == [NoJob EXCEPT !.clean = TRUE,
                      !.alone = \A j \in Instances \ {i} : pc[j] \notin Running]
  <2>1. r.pass = 0 /\ r.todo = {}
    BY DEF NoJob
  <2>2. UNCHANGED <<revision, canonical>>
    BY <1>7 DEF AcquireLock, storeVars
  <2>3. CASE Goto(i, "persist") /\ job' = [job EXCEPT ![i] = r]
    <3>1. \A k \in Instances \ {i} : pc'[k] = pc[k] /\ job'[k] = job[k]
      BY <1>1, <2>3 DEF Goto
    <3>2. job'[i] = r /\ pc'[i] = "persist"
      <4> HIDE DEF r
      <4> QED BY <1>1, <2>3 DEF Goto
    <3> HIDE DEF r
    <3>3. ASSUME NEW k \in Instances PROVE QuietRun(k)
      BY <2>1, <3>1, <3>2 DEF QuietRun
    <3> QED BY <2>2, <3>3 DEF QuietStep
  <2>4. CASE UNCHANGED job /\ (Goto(i, "watch") \/ Goto(i, "dead"))
    <3>1. job' = [job EXCEPT ![i] = job[i]]
      BY <1>1, <2>4
    <3> QED BY <1>5, <2>2, <2>4, <3>1
  <2> QED BY <1>7, <2>3, <2>4 DEF AcquireLock
<1>8. ASSUME NEW i \in Instances, ReleaseLock(i) \/ Crash(i) PROVE QuietStep
  <2>1. /\ UNCHANGED <<revision, canonical>>
        /\ job' = [job EXCEPT ![i] = NoJob]
        /\ Goto(i, "watch") \/ Goto(i, "dead")
    BY <1>8 DEF ReleaseLock, Crash, storeVars
  <2>2. \A k \in Instances \ {i} : pc'[k] = pc[k] /\ job'[k] = job[k]
    BY <1>1, <2>1 DEF Goto
  <2>3. pc'[i] \notin Busy
    BY <1>1, <2>1 DEF Goto
  <2>4. ASSUME NEW k \in Instances PROVE QuietRun(k)
    BY <2>2, <2>3 DEF QuietRun
  <2> QED BY <2>1, <2>4 DEF QuietStep
<1>9. ASSUME NEW i \in Instances, UpsertMatch(i) PROVE QuietStep
  <2>1. /\ UNCHANGED <<revision, canonical>> /\ pc[i] = "upsert" /\ Goto(i, "persist")
        /\ job' = [job EXCEPT ![i] = [job[i] EXCEPT !.group = None]]
    BY <1>9 DEF UpsertMatch
  <2>2. \A k \in Instances \ {i} : pc'[k] = pc[k] /\ job'[k] = job[k]
    BY <1>1, <2>1 DEF Goto
  <2>3. /\ job'[i].pass = job[i].pass /\ job'[i].groups = job[i].groups
        /\ job'[i].todo = job[i].todo /\ job'[i].alone = job[i].alone
        /\ job'[i].clean = job[i].clean
    BY <1>1, <2>1 DEF Jobs
  <2>4. pc'[i] = "persist"
    BY <1>1, <2>1 DEF Goto
  <2>5. ASSUME NEW k \in Instances PROVE QuietRun(k)
    BY <2>1, <2>2, <2>3, <2>4 DEF QuietRun
  <2> QED BY <2>1, <2>5 DEF QuietStep
<1>10. ASSUME NEW i \in Instances, RunComplete(i) PROVE QuietStep
  <2>1. UNCHANGED <<revision, canonical>> /\ Goto(i, "stats") /\ job' = job
    BY <1>10 DEF RunComplete, storeVars
  <2>2. pc'[i] = "stats" /\ \A k \in Instances \ {i} : pc'[k] = pc[k]
    BY <1>1, <2>1 DEF Goto
  <2>3. ASSUME NEW k \in Instances PROVE QuietRun(k)
    <3>1. CASE k = i
      BY <1>10, <2>1, <2>2, <3>1 DEF QuietRun
    <3>2. CASE k # i
      BY <2>1, <2>2, <3>2 DEF QuietRun
    <3> QED BY <3>1, <3>2
  <2> QED BY <2>1, <2>3 DEF QuietStep
<1>11. ASSUME NEW i \in Instances,
             \/ Elapse(i) \/ Timer(i) \/ RecomputeStats(i)
             \/ RunFails(i) \/ SubscriberDies(i) \/ Stop(i)
      PROVE  QuietStep
  <2>1. /\ UNCHANGED <<revision, canonical>> /\ job' = job
        /\ pc' = pc \/ \E label \in Labels \ Busy : Goto(i, label)
    BY <1>11 DEF Elapse, Timer, TimerPending, TimerInterval, RecomputeStats,
                 RunFails, SubscriberDies, Stop, storeVars, Labels
  <2>2. job' = [job EXCEPT ![i] = job[i]]
    BY <1>1, <2>1
  <2>3. PICK label : label \notin Busy /\ (pc' = pc \/ Goto(i, label))
    <3>1. "watch" \notin Busy
      OBVIOUS
    <3> QED BY <2>1, <3>1
  <2> QED BY <1>5, <2>1, <2>2, <2>3
<1> QED BY <1>2, <1>3, <1>4, <1>7, <1>8, <1>9, <1>10, <1>11 DEF Next, Write

\* What an update of members does: one group less to persist, its notices assigned.
Persists(i, g) ==
    /\ g \in job[i].todo /\ g \in Groups
    /\ pc[i] = "persist" /\ revision' = revision
    /\ \A n \in Ids : canonical'[n] = IF n \in g.notices THEN g.canonical_id ELSE canonical[n]
    /\ job'[i].pass = job[i].pass /\ job'[i].groups = job[i].groups
    /\ job'[i].todo = job[i].todo \ {g}
    /\ job'[i].alone = job[i].alone /\ job'[i].clean = job[i].clean
    /\ \A k \in Instances \ {i} :
          /\ pc'[k] = pc[k] /\ ~job'[k].clean
          /\ job'[k].alone = job[k].alone /\ job'[k].pass = job[k].pass

LEMMA MembersUpdated ==
    ASSUME TypeInv, NEW i \in Instances, UpdateMembers(i)
    PROVE  \E g : Persists(i, g)
<1>1. pc \in [Instances -> Labels] /\ job \in [Instances -> Jobs]
  BY DEF TypeInv, TypeOK, JobsOK
<1>2. PICK g \in job[i].todo :
         /\ canonical' = [n \in Ids |-> IF n \in g.notices THEN g.canonical_id ELSE canonical[n]]
         /\ job' = [Disturb(i) EXCEPT ![i].todo = @ \ {g}, ![i].group = g]
  BY DEF UpdateMembers
<1>3. job'[i] = [job[i] EXCEPT !.todo = @ \ {g}, !.group = g]
  BY <1>2 DEF Disturb
<1>4. \A k \in Instances \ {i} : job'[k] = [job[k] EXCEPT !.clean = FALSE]
  BY <1>2 DEF Disturb
<1>5. /\ job'[i].pass = job[i].pass /\ job'[i].groups = job[i].groups
      /\ job'[i].todo = job[i].todo \ {g}
      /\ job'[i].alone = job[i].alone /\ job'[i].clean = job[i].clean
  BY <1>1, <1>3 DEF Jobs
<1>6. ASSUME NEW k \in Instances \ {i}
      PROVE  ~job'[k].clean /\ job'[k].alone = job[k].alone /\ job'[k].pass = job[k].pass
  BY <1>1, <1>4 DEF Jobs
<1>7. \A k \in Instances \ {i} : pc'[k] = pc[k]
  BY <1>1 DEF UpdateMembers, Goto
<1>8. g \in Groups
  BY <1>1, <1>2 DEF Jobs
<1>9. pc[i] = "persist" /\ revision' = revision
  BY DEF UpdateMembers
<1>10. \A n \in Ids : canonical'[n] = IF n \in g.notices THEN g.canonical_id ELSE canonical[n]
  BY <1>2
<1>11. Persists(i, g)
  BY <1>2, <1>5, <1>6, <1>7, <1>8, <1>9, <1>10 DEF Persists
<1> QED BY <1>11

-----------------------------------------------------------------------------
(* Settled notices *)

\* A run that has the lock to itself builds passes 2 and 3 from notices no group has,
\* and between the build and the last update nobody else assigns any.
LEMMA SettledStep ==
    ASSUME TypeInv, LockInv, SettledInv, [Next]_vars
    PROVE  SettledInv'
<1> DEFINE Settled(k) ==
              pc[k] \in {"persist", "upsert"} /\ job[k].alone /\ job[k].pass > 1 =>
                  \A g \in job[k].todo : \A n \in g.notices :
                      \/ canonical[n] = None
                      \/ \E h \in job[k].groups \ job[k].todo : n \in h.notices
<1>1. pc \in [Instances -> Labels] /\ job \in [Instances -> Jobs]
  BY DEF TypeInv, TypeOK, JobsOK
<1>2. ASSUME QuietStep, NEW k \in Instances PROVE Settled(k)'
  BY <1>2 DEF QuietStep, QuietRun, SettledInv
<1>3. ASSUME NEW i \in Instances, BuildGroups(i), NEW k \in Instances PROVE Settled(k)'
  <2>1. PICK groups :
           /\ job' = [job EXCEPT ![i] = [job[i] EXCEPT !.pass = @ + 1, !.groups = groups, !.todo = groups]]
           /\ \A g \in groups : BuiltSound(PassOrder[job[i].pass + 1], Notices, canonical, InWindow, g)
    BY <1>3, NextPass
  <2>2. canonical' = canonical /\ pc' = pc
    BY <1>3 DEF BuildGroups, storeVars
  <2>3. CASE k # i
    <3>1. job'[k] = job[k]
      BY <2>1, <2>3
    <3> QED BY <2>2, <3>1 DEF SettledInv
  <2>4. CASE k = i
    <3>1. job'[k].pass = job[k].pass + 1 /\ job'[k].todo = groups
      BY <1>1, <2>1, <2>4 DEF Jobs
    <3>2. job[k].pass \in 0..2
      BY <1>3, <2>4, NextPass
    <3>3. job'[k].pass > 1 => PassOrder[job[i].pass + 1] # "ico_cpv"
      BY <2>4, <3>1, <3>2, ThreePasses
    <3> QED BY <2>1, <2>2, <3>1, <3>3 DEF BuiltSound
  <2> QED BY <2>3, <2>4
<1>4. ASSUME NEW i \in Instances, UpdateMembers(i), NEW k \in Instances PROVE Settled(k)'
  <2>1. PICK g : Persists(i, g)
    BY <1>4, MembersUpdated
  <2>2. CASE k # i
    <3>1. pc[i] \in Running
      BY <2>1 DEF Persists, Running
    <3>2. pc'[k] \in {"persist", "upsert"} /\ job'[k].alone => pc[k] \in Running /\ job[k].alone
      BY <2>1, <2>2 DEF Persists, Running
    <3> QED BY <2>2, <3>1, <3>2 DEF LockInv
  <2>3. CASE k = i
    <3>1. SUFFICES ASSUME job'[k].alone, job'[k].pass > 1,
                          NEW h \in job'[k].todo, NEW n \in h.notices
                   PROVE  \/ canonical'[n] = None
                          \/ \E f \in job'[k].groups \ job'[k].todo : n \in f.notices
      OBVIOUS
    <3>2. /\ job'[k].groups = job[k].groups /\ job'[k].todo = job[k].todo \ {g}
          /\ g \in job[k].todo /\ job[k].alone /\ job[k].pass > 1 /\ pc[k] = "persist"
      BY <2>1, <2>3, <3>1 DEF Persists
    <3>3. g \in job[k].groups /\ h \in job[k].todo /\ h \in Groups
      BY <1>1, <3>2 DEF TypeInv, JobsOK, Jobs
    <3>4. CASE n \in g.notices
      BY <3>2, <3>3, <3>4
    <3>5. CASE n \notin g.notices
      <4>1. n \in Ids
        BY <3>3 DEF Groups
      <4>2. canonical'[n] = canonical[n]
        BY <2>1, <3>5, <4>1 DEF Persists
      <4>3. canonical[n] = None \/ \E f \in job[k].groups \ job[k].todo : n \in f.notices
        BY <3>2, <3>3 DEF SettledInv
      <4> QED BY <3>2, <4>2, <4>3
    <3> QED BY <3>4, <3>5
  <2> QED BY <2>2, <2>3
<1>5. \A k \in Instances : Settled(k)'
  BY <1>2, <1>3, <1>4, QuietSteps
<1> QED BY <1>5 DEF SettledInv

-----------------------------------------------------------------------------
(* What a clean run has missed *)

LEMMA PersistStep ==
    ASSUME TypeInv, CleanInv, NEW i \in Instances, NEW g, Persists(i, g), job[i].clean,
           NEW q \in 1..job[i].pass, NEW n \in InWindow, NEW m \in InWindow, Missed(q, n, m)'
    PROVE  StillToDo(job'[i].todo, q, n, m)
<1>1. Notices' = Notices /\ InWindow' = InWindow
  BY DEF Persists, Notices, InWindow, Stored, Notice
<1>2. n \in Ids /\ m \in Ids /\ None \notin Ids
  BY DedupAssumption DEF InWindow, Stored
<1>3. \A x \in Ids : canonical'[x] = None => canonical[x] = None /\ x \notin g.notices
  BY <1>2 DEF Persists, Groups
<1>4. /\ PassMatch(PassOrder[q], Notices, InWindow, n, m)
      /\ canonical'[n] = None
      /\ canonical'[m] = None \/ PassOrder[q] = "ico_cpv"
  BY <1>1 DEF Missed
<1>5. Missed(q, n, m)
  BY <1>2, <1>3, <1>4 DEF Missed
<1>6. PICK h \in job[i].todo : n \in h.notices \/ (PassOrder[q] # "ico_cpv" /\ m \in h.notices)
  BY <1>5 DEF Persists, CleanInv, StillToDo
<1>7. h # g
  BY <1>2, <1>3, <1>4, <1>6
<1>8. h \in job'[i].todo
  BY <1>6, <1>7 DEF Persists
<1> QED BY <1>6, <1>8 DEF StillToDo

LEMMA BuildStep ==
    ASSUME TypeInv, CleanInv, NEW i \in Instances, BuildGroups(i), job[i].clean,
           NEW q \in 1..(job[i].pass + 1), NEW n \in InWindow, NEW m \in InWindow, Missed(q, n, m)
    PROVE  StillToDo(job'[i].todo, q, n, m)
<1>1. PICK order \in SortedByDate(Notices, InWindow), groups \in SUBSET Groups :
         /\ groups = Build(PassOrder[job[i].pass + 1], Notices, canonical, InWindow, order)
         /\ job' = [job EXCEPT ![i] = [job[i] EXCEPT !.pass = @ + 1, !.groups = groups, !.todo = groups]]
  BY NextPass
<1>2. job'[i].todo = groups
  BY <1>1 DEF TypeInv, JobsOK, Jobs
<1>3. job[i].pass \in 0..2
  BY NextPass
<1>4. CASE q = job[i].pass + 1
  <2>1. q \in 1..3 /\ PassOrder[q] \in Passes
    BY <1>3, <1>4, ThreePasses
  <2>2. /\ PassMatch(PassOrder[q], Notices, InWindow, n, m)
        /\ canonical[n] = None /\ (canonical[m] = None \/ PassOrder[q] = "ico_cpv")
    BY DEF Missed
  <2>3. Dated(Notices, InWindow)
    BY WindowIsDated DEF TypeInv
  <2>4. groups = Build(PassOrder[q], Notices, canonical, InWindow, order)
    BY <1>1, <1>4
  <2>5. \E g \in groups : n \in g.notices \/ (PassOrder[q] # "ico_cpv" /\ m \in g.notices)
    BY <2>1, <2>2, <2>3, <2>4, BuildComplete
  <2> QED BY <1>2, <2>5 DEF StillToDo
<1>5. CASE q # job[i].pass + 1
  <2>1. q \in 1..job[i].pass
    BY <1>3, <1>5
  <2>2. pc[i] = "persist" /\ job[i].todo = {}
    BY DEF BuildGroups, ReadyToBuild
  <2>3. StillToDo({}, q, n, m)
    BY <2>1, <2>2 DEF CleanInv
  <2> QED BY <2>3 DEF StillToDo
<1> QED BY <1>4, <1>5

\* A clean run that is complete has missed nothing: no notice is left unmatched.
LEMMA NothingMissed ==
    ASSUME TypeInv, CleanInv, NEW i \in Instances, RunComplete(i), job[i].clean
    PROVE  Unmatched = {}
<1> SUFFICES ASSUME NEW n \in Unmatched PROVE FALSE
  OBVIOUS
<1>1. n \in InWindow /\ canonical[n] = None
  BY DEF Unmatched
<1>2. PICK m \in InWindow :
         /\ Matching(Notices, InWindow, n, m)
         /\ canonical[m] = None \/ SameProcurerAndCpv(Notices, n, m)
  BY DEF Unmatched
<1>3. PICK match_type \in Passes : PassMatch(match_type, Notices, InWindow, n, m)
  BY <1>2, MatchingByPass
<1>4. \E q \in 1..3 : Missed(q, n, m)
  <2>1. CASE canonical[m] = None
    <3>1. PICK q \in 1..3 : PassOrder[q] = match_type
      BY ThreePasses
    <3>2. Missed(q, n, m)
      BY <1>1, <1>3, <2>1, <3>1 DEF Missed
    <3> QED BY <3>2
  <2>2. CASE SameProcurerAndCpv(Notices, n, m)
    <3>1. PassMatch("ico_cpv", Notices, InWindow, n, m)
      BY <1>3, <2>2 DEF PassMatch
    <3>2. PassOrder[1] = "ico_cpv"
      BY DEF PassOrder
    <3>3. Missed(1, n, m)
      BY <1>1, <3>1, <3>2 DEF Missed
    <3> QED BY <3>3
  <2> QED BY <1>2, <2>1, <2>2
<1>5. pc[i] = "persist" /\ job[i].todo = {} /\ job[i].pass = 3
  BY ThreePasses DEF RunComplete
<1>6. \E q \in 1..3 : StillToDo({}, q, n, m)
  BY <1>1, <1>4, <1>5 DEF CleanInv
<1> QED BY <1>6 DEF StillToDo

LEMMA CleanStep ==
    ASSUME TypeInv, CleanInv, [Next]_vars
    PROVE  CleanInv'
<1> DEFINE Covered(k) == \A q \in 1..job[k].pass : \A n, m \in InWindow :
              Missed(q, n, m) => StillToDo(job[k].todo, q, n, m)
           Clean(k) == job[k].clean =>
              /\ pc[k] \in {"persist", "upsert"} => Covered(k)
              /\ pc[k] = "stats" => Unmatched = {}
<1>1. pc \in [Instances -> Labels] /\ job \in [Instances -> Jobs]
  BY DEF TypeInv, TypeOK, JobsOK
<1>2. \A k \in Instances : Clean(k)
  BY DEF CleanInv
<1>3. ASSUME canonical' = canonical, revision' = revision
      PROVE  /\ InWindow' = InWindow /\ Notices' = Notices /\ Unmatched' = Unmatched
             /\ \A q, n, m : Missed(q, n, m)' <=> Missed(q, n, m)
  <2>1. InWindow' = InWindow /\ Notices' = Notices
    BY <1>3 DEF InWindow, Stored, Notices, Notice
  <2> QED BY <1>3, <2>1 DEF Unmatched, Missed
<1>4. ASSUME QuietStep, NEW k \in Instances, job'[k].clean PROVE Clean(k)'
  <2>1. canonical' = canonical /\ revision' = revision /\ QuietRun(k)
    BY <1>4 DEF QuietStep
  <2>2. ASSUME pc'[k] \in {"persist", "upsert"} PROVE Covered(k)'
    <3>1. CASE job'[k].pass = 0
      BY <3>1
    <3>2. CASE /\ pc[k] \in {"persist", "upsert"} /\ job[k].clean
               /\ job'[k].pass = job[k].pass /\ job'[k].todo = job[k].todo
      <4>1. Covered(k)
        BY <1>2, <3>2
      <4>2. ASSUME NEW q \in 1..job'[k].pass, NEW n \in InWindow', NEW m \in InWindow',
                   Missed(q, n, m)'
            PROVE  StillToDo(job'[k].todo, q, n, m)
        <5>1. q \in 1..job[k].pass /\ n \in InWindow /\ m \in InWindow /\ Missed(q, n, m)
          BY <1>3, <2>1, <3>2, <4>2
        <5> QED BY <3>2, <4>1, <5>1
      <4>3. ASSUME NEW q, NEW n, NEW m, StillToDo(job'[k].todo, q, n, m)
            PROVE  StillToDo(job[k].todo, q, n, m)'
        BY <4>3 DEF StillToDo
      <4> QED BY <4>2, <4>3
    <3> QED BY <1>4, <2>1, <2>2, <3>1, <3>2 DEF QuietRun
  <2>3. ASSUME pc'[k] = "stats" PROVE Unmatched' = {}
    <3>1. job[k].clean /\ (pc[k] = "stats" \/ RunComplete(k))
      BY <1>4, <2>1, <2>3 DEF QuietRun
    <3>2. Unmatched = {}
      BY <1>2, <3>1, NothingMissed
    <3> QED BY <1>3, <2>1, <3>2
  <2> QED BY <2>2, <2>3
<1>5. ASSUME NEW i \in Instances, BuildGroups(i), NEW k \in Instances, job'[k].clean PROVE Clean(k)'
  <2>1. canonical' = canonical /\ revision' = revision /\ pc' = pc
    BY <1>5 DEF BuildGroups, storeVars
  <2>2. PICK groups :
           job' = [job EXCEPT ![i] = [job[i] EXCEPT !.pass = @ + 1, !.groups = groups, !.todo = groups]]
    BY <1>5, NextPass
  <2>3. CASE k # i
    <3>1. job'[k] = job[k]
      BY <2>2, <2>3
    <3>2. Clean(k)
      BY <1>2
    <3> QED BY <1>3, <2>1, <3>1, <3>2 DEF StillToDo
  <2>4. CASE k = i
    <3>1. job'[k].pass = job[k].pass + 1 /\ job'[k].clean = job[k].clean
      BY <1>1, <2>2, <2>4 DEF Jobs
    <3>2. pc'[k] = "persist"
      BY <1>5, <2>1, <2>4 DEF BuildGroups, ReadyToBuild
    <3>3. ASSUME NEW q \in 1..job'[k].pass, NEW n \in InWindow', NEW m \in InWindow',
                 Missed(q, n, m)'
          PROVE  StillToDo(job'[k].todo, q, n, m)
      <4>1. q \in 1..(job[i].pass + 1) /\ n \in InWindow /\ m \in InWindow /\ Missed(q, n, m)
        BY <1>3, <2>1, <2>4, <3>1, <3>3
      <4> QED BY <1>5, <2>4, <3>1, <4>1, BuildStep
    <3>4. Covered(k)'
      BY <3>3 DEF StillToDo
    <3> QED BY <3>2, <3>4
  <2> QED BY <2>3, <2>4
<1>6. ASSUME NEW i \in Instances, UpdateMembers(i), NEW k \in Instances, job'[k].clean PROVE Clean(k)'
  <2>1. PICK g : Persists(i, g)
    BY <1>6, MembersUpdated
  <2>2. k = i /\ job[k].clean
    BY <1>6, <2>1 DEF Persists
  <2>3. pc'[k] = "upsert"
    BY <1>1, <1>6, <2>2 DEF UpdateMembers, Goto
  <2>4. InWindow' = InWindow /\ job'[k].pass = job[k].pass
    BY <2>1, <2>2 DEF Persists, InWindow, Stored
  <2>5. ASSUME NEW q \in 1..job'[k].pass, NEW n \in InWindow', NEW m \in InWindow',
               Missed(q, n, m)'
        PROVE  StillToDo(job'[k].todo, q, n, m)
    BY <2>1, <2>2, <2>4, <2>5, PersistStep
  <2>6. Covered(k)'
    BY <2>5 DEF StillToDo
  <2> QED BY <2>3, <2>6
<1>7. \A k \in Instances : Clean(k)'
  <2>1. ASSUME NEW k \in Instances, ~job'[k].clean PROVE Clean(k)'
    BY <2>1
  <2> HIDE DEF Clean
  <2> QED BY <1>4, <1>5, <1>6, <2>1, QuietSteps
<1> QED BY <1>7 DEF CleanInv

-----------------------------------------------------------------------------
(* The theorems *)

\* The inductive invariant.
DedupInv == TypeInv /\ LockInv /\ SettledInv /\ CleanInv

LEMMA DedupInvariant == Spec => []DedupInv
<1>1. Init => DedupInv
  <2> SUFFICES ASSUME Init PROVE DedupInv
    OBVIOUS
  <2>1. TypeInv /\ LockInv
    BY TypeInit, LockInit0
  <2>2. \A i \in Instances : pc[i] = "watch"
    BY DEF Init
  <2> QED BY <2>1, <2>2 DEF DedupInv, SettledInv, CleanInv
<1>2. DedupInv /\ [Next]_vars => DedupInv'
  BY TypeStep, LockStep, SettledStep, CleanStep DEF DedupInv
<1> QED BY <1>1, <1>2, PTL DEF Spec

\* Mutual exclusion, as far as the lock gives it: while a run's lock has been its own,
\* no other instance is between taking the lock and giving it back (dedup:lock).
THEOREM RunsAloneUnderTheLock == Spec => []LockInv
<1>1. DedupInv => LockInv
  BY DEF DedupInv
<1> QED BY <1>1, DedupInvariant, PTL

\* A run that nothing wrote beside leaves no notice that a pass should have put with
\* another (run_cross_source_dedup), for every corpus, every order its queries return
\* and every number of instances.
THEOREM NothingIsLeftUnmatched == Spec => []NothingLeftUnmatched
<1>1. DedupInv => NothingLeftUnmatched
  BY DEF DedupInv, CleanInv, NothingLeftUnmatched
<1> QED BY <1>1, DedupInvariant, PTL

\* Whatever greedy clustering gathers around an anchor belongs together pairwise and
\* comes from two sources, whatever order the query returned (build_*_groups).
THEOREM EveryGroupIsSound == Spec => GroupsSound
<1> DEFINE Step == \A i \in Instances : job'[i].pass # job[i].pass =>
                      \A g \in job'[i].groups : SoundGroup(Notices, g)
<1>1. DedupInv /\ [Next]_vars => [Step]_vars
  <2> SUFFICES ASSUME TypeInv, Next, NEW k \in Instances, job'[k].pass # job[k].pass,
                      NEW g \in job'[k].groups
               PROVE  SoundGroup(Notices, g)
    BY DEF DedupInv
  <2>1. job \in [Instances -> Jobs]
    BY DEF TypeInv, JobsOK
  <2>2. ASSUME NEW i \in Instances, BuildGroups(i) PROVE SoundGroup(Notices, g)
    <3>1. PICK groups :
             /\ job' = [job EXCEPT ![i] = [job[i] EXCEPT !.pass = @ + 1, !.groups = groups, !.todo = groups]]
             /\ \A h \in groups : BuiltSound(PassOrder[job[i].pass + 1], Notices, canonical, InWindow, h)
      BY <2>2, NextPass
    <3>2. k = i
      BY <2>1, <3>1
    <3>3. job'[i].groups = groups
      BY <2>1, <3>1 DEF Jobs
    <3> QED BY <3>1, <3>2, <3>3 DEF BuiltSound
  <2>3. ASSUME NEW i \in Instances, AcquireLock(i) \/ ReleaseLock(i) \/ Crash(i) PROVE FALSE
    <3>1. \/ job' = job
          \/ \E alone \in BOOLEAN, clean \in BOOLEAN :
                job' = [job EXCEPT ![i] = [NoJob EXCEPT !.clean = clean, !.alone = alone]]
          \/ job' = [job EXCEPT ![i] = NoJob]
      BY <2>3 DEF AcquireLock, ReleaseLock, Crash
    <3>2. ASSUME NEW r, r.groups = {}, job' = [job EXCEPT ![i] = r] PROVE FALSE
      <4>1. k = i
        BY <2>1, <3>2
      <4> QED BY <2>1, <3>2, <4>1
    <3>3. NoJob.groups = {}
      BY DEF NoJob
    <3>4. \A alone, clean : [NoJob EXCEPT !.clean = clean, !.alone = alone].groups = {}
      BY DEF NoJob
    <3> HIDE DEF NoJob
    <3> QED BY <3>1, <3>2, <3>3, <3>4
  <2>4. ASSUME NEW i \in Instances, UpdateMembers(i) PROVE FALSE
    <3>1. PICK h : Persists(i, h)
      BY <2>4, MembersUpdated DEF TypeInv
    <3> QED BY <3>1 DEF Persists
  <2>5. ASSUME NEW i \in Instances, UpsertMatch(i) PROVE FALSE
    <3>1. job' = [job EXCEPT ![i] = [job[i] EXCEPT !.group = None]]
      BY <2>5 DEF UpsertMatch
    <3> QED BY <2>1, <3>1 DEF Jobs
  <2>6. ASSUME NEW i \in Instances, \/ Elapse(i) \/ Timer(i) \/ RunComplete(i) \/ RecomputeStats(i)
                                   \/ RunFails(i) \/ SubscriberDies(i) \/ Stop(i)
        PROVE  FALSE
    BY <2>6 DEF Elapse, Timer, RunComplete, RecomputeStats, RunFails, SubscriberDies, Stop
  <2>7. ASSUME NEW n \in Ids, WriteNotice(n) PROVE FALSE
    BY <2>1, <2>7 DEF WriteNotice, Jobs
  <2>8. ASSUME LockExpires PROVE FALSE
    BY <2>1, <2>8 DEF LockExpires, Jobs
  <2>9. ASSUME PublishWritten PROVE FALSE
    BY <2>9 DEF PublishWritten
  <2> QED BY <2>2, <2>3, <2>4, <2>5, <2>6, <2>7, <2>8, <2>9 DEF Next, Write
<1>2. Spec => [][Step]_vars
  <2> HIDE DEF Step
  <2> QED BY <1>1, DedupInvariant, PTL DEF Spec
<1> QED BY <1>2 DEF GroupsSound

\* A run that has the lock to itself takes no notice out of a group that an earlier
\* pass or run put it in (run_cross_source_dedup).
THEOREM SettledStaysSettled == Spec => SettledKept
<1> DEFINE Step == \A i \in Instances :
               pc[i] = "persist" /\ pc'[i] = "upsert" /\ job[i].alone /\ job[i].pass > 1 =>
                  \A n \in Ids : canonical[n] \notin {None, canonical'[n]} =>
                      \E g, h \in job[i].groups : g # h /\ n \in g.notices \cap h.notices
<1>1. DedupInv /\ [Next]_vars => [Step]_vars
  <2> SUFFICES ASSUME TypeInv, SettledInv, Next, NEW k \in Instances,
                      pc[k] = "persist", pc'[k] = "upsert", job[k].alone, job[k].pass > 1,
                      NEW n \in Ids, canonical[n] \notin {None, canonical'[n]}
               PROVE  \E g, h \in job[k].groups : g # h /\ n \in g.notices \cap h.notices
    BY DEF DedupInv
  <2>1. PICK i \in Instances : UpdateMembers(i)
    <3>1. QuietStep \/ \E i \in Instances : BuildGroups(i) \/ UpdateMembers(i)
      BY QuietSteps
    <3>2. ~QuietStep
      BY DEF QuietStep
    <3>3. \A i \in Instances : ~BuildGroups(i)
      BY DEF BuildGroups, storeVars
    <3> QED BY <3>1, <3>2, <3>3
  <2>2. PICK g : Persists(i, g)
    BY <2>1, MembersUpdated
  <2>3. k = i
    BY <2>2 DEF Persists
  <2>4. n \in g.notices /\ g \in job[k].todo
    BY <2>2, <2>3 DEF Persists
  <2>5. PICK h \in job[k].groups \ job[k].todo : n \in h.notices
    BY <2>4 DEF SettledInv
  <2>6. g \in job[k].groups /\ g # h
    BY <2>4, <2>5 DEF TypeInv, JobsOK
  <2> QED BY <2>4, <2>5, <2>6
<1>2. Spec => [][Step]_vars
  <2> HIDE DEF Step
  <2> QED BY <1>1, DedupInvariant, PTL DEF Spec
<1> QED BY <1>2 DEF SettledKept
=============================================================================
