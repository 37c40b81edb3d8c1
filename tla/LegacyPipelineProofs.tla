------------------------ MODULE LegacyPipelineProofs ------------------------
(***************************************************************************)
(* Proofs about the one-shot pipeline (module LegacyPipeline), for whatever*)
(* its sources publish and an earlier pipeline left, every size of a batch,*)
(* every mode and number of runs and of faults: the types, that writing the*)
(* organisations of a chunk collapsed, an operation each, does what writing*)
(* them one by one would, and that the marks of pipeline_state never run   *)
(* ahead of what is stored, whenever a run is cut short.                   *)
(***************************************************************************)
EXTENDS LegacyPipeline, SequenceTheorems, FiniteSetTheorems, TLAPS

-----------------------------------------------------------------------------
(* The collections, and the loops that fill them: each with what holds of its      *)
(* values all the while.                                                           *)

\* One document of a key, one registry entry of a key, one entity of an organisation.
IsStore(store) ==
    /\ \A d, e \in store : KeyOf(d) = KeyOf(e) => d = e
    /\ \A d \in store : Hashed \subseteq DOMAIN d
IsRegistry(registry) == \A d, e \in registry : d.key = e.key => d = e
IsEntities(entities) == \A a, b \in entities : SameEntity(a, b) => a = b

Writes == INSTANCE Folding WITH
            Op <- LAMBDA c, store, n : IF KeyOf(n) \in c.failing THEN store
                                       ELSE upsert_notice(store, n, c.run, c.today),
            Good <- LAMBDA c, store : IsStore(store)
Registers == INSTANCE Folding WITH
            Op <- LAMBDA c, registry, n : IF KeyOf(n) \in c THEN registry
                                          ELSE upsert_registry(registry, n),
            Good <- LAMBDA c, registry : IsRegistry(registry)

ListIn(X, seq) == seq \in Seq(X)
Replaces == INSTANCE Folding WITH
            Op <- LAMBDA c, kept, n : Replaced(kept, n), Good <- ListIn
Collapse == INSTANCE Folding WITH
            Op <- LAMBDA c, kept, org : Collapsed(kept, org), Good <- LAMBDA c, kept : TRUE
Upserts == INSTANCE Folding WITH
            Op <- LAMBDA c, entities, org : _entity_update(entities, org),
            Good <- LAMBDA c, entities : IsEntities(entities)

-----------------------------------------------------------------------------
(* Lists *)

\* A function on the numbers up to n is a sequence.
LEMMA ListByLength ==
    ASSUME NEW n \in Nat, NEW s, s = [k \in 1..n |-> s[k]]
    PROVE  IsList(s) /\ Len(s) = n /\ DOMAIN s = 1..n
<1>1. DOMAIN s = 1..n
  OBVIOUS
<1>2. s \in [1..n -> ToSet(s)]
  BY <1>1 DEF ToSet
<1>3. s \in Seq(ToSet(s))
  BY <1>2
<1> QED BY <1>1, <1>2, <1>3, LenProperties DEF IsList

LEMMA LengthOfList ==
    ASSUME NEW s, IsList(s)
    PROVE  Len(s) \in Nat /\ DOMAIN s = 1..Len(s) /\ s = [k \in 1..Len(s) |-> s[k]]
BY LenProperties DEF IsList

LEMMA AppendedList ==
    ASSUME NEW s, IsList(s), NEW x
    PROVE  /\ Append(s, x) = [k \in 1..(Len(s) + 1) |-> Append(s, x)[k]]
           /\ DOMAIN Append(s, x) = 1..(Len(s) + 1)
           /\ Append(s, x)[Len(s) + 1] = x
           /\ \A k \in 1..Len(s) : Append(s, x)[k] = s[k]
<1> DEFINE T == ToSet(s) \cup {x}
<1>1. s \in Seq(T) /\ x \in T
  BY SeqMonotonic DEF IsList
<1> HIDE DEF T
<1>2. Append(s, x) \in Seq(T) /\ Len(Append(s, x)) = Len(s) + 1
  BY <1>1, AppendProperties
<1>3. Append(s, x)[Len(s) + 1] = x /\ \A k \in 1..Len(s) : Append(s, x)[k] = s[k]
  BY <1>1, AppendProperties
<1> QED BY <1>2, <1>3, LenProperties

\* A sequence over a set is a list of its members, and the other way round.
LEMMA ListOver ==
    ASSUME NEW X, NEW s
    PROVE  s \in Seq(X) <=> IsList(s) /\ \A k \in DOMAIN s : s[k] \in X
<1>1. ASSUME s \in Seq(X) PROVE IsList(s) /\ \A k \in DOMAIN s : s[k] \in X
  <2>1. Len(s) \in Nat /\ s \in [1..Len(s) -> X]
    BY <1>1, LenProperties
  <2>2. s = [k \in 1..Len(s) |-> s[k]] /\ \A k \in DOMAIN s : s[k] \in X
    BY <2>1
  <2> QED BY <2>1, <2>2, ListByLength
<1>2. ASSUME IsList(s), \A k \in DOMAIN s : s[k] \in X PROVE s \in Seq(X)
  <2>1. Len(s) \in Nat /\ DOMAIN s = 1..Len(s) /\ s = [k \in 1..Len(s) |-> s[k]]
    BY <1>2, LengthOfList
  <2>2. s \in [1..Len(s) -> X]
    BY <1>2, <2>1
  <2> QED BY <2>1, <2>2
<1> QED BY <1>1, <1>2

\* One list after the other.
LEMMA JoinedSet ==
    ASSUME NEW X, NEW v \in Seq(X), NEW w \in Seq(X)
    PROVE  v \o w \in Seq(X) /\ ToSet(v \o w) = ToSet(v) \cup ToSet(w)
<1> DEFINE u == v \o w
           m == Len(v)
           n == Len(w)
<1>1. /\ u \in Seq(X) /\ Len(u) = m + n
      /\ \A k \in 1..(m + n) : u[k] = IF k <= m THEN v[k] ELSE w[k - m]
  BY ConcatProperties
<1>2. m \in Nat /\ n \in Nat /\ DOMAIN v = 1..m /\ DOMAIN w = 1..n /\ DOMAIN u = 1..(m + n)
  BY <1>1, LenProperties
<1> HIDE DEF u, m, n
<1>3. \A k \in 1..m : k \in 1..(m + n) /\ u[k] = v[k]
  BY <1>1, <1>2
<1>4. \A k \in 1..n : k + m \in 1..(m + n) /\ u[k + m] = w[k]
  BY <1>1, <1>2
<1>5. ASSUME NEW k \in 1..(m + n) PROVE k \in 1..m \/ (k - m \in 1..n /\ u[k] = w[k - m])
  BY <1>1, <1>2
<1>6. ToSet(u) = ToSet(v) \cup ToSet(w)
  <2>1. ASSUME NEW x \in ToSet(u) PROVE x \in ToSet(v) \cup ToSet(w)
    <3>1. PICK k \in 1..(m + n) : x = u[k]
      BY <1>2 DEF ToSet
    <3> QED BY <1>2, <1>3, <1>5, <3>1 DEF ToSet
  <2>2. ASSUME NEW x \in ToSet(v) PROVE x \in ToSet(u)
    BY <1>2, <1>3 DEF ToSet
  <2>3. ASSUME NEW x \in ToSet(w) PROVE x \in ToSet(u)
    BY <1>2, <1>4 DEF ToSet
  <2> QED BY <2>1, <2>2, <2>3
<1> QED BY <1>1, <1>6 DEF u

\* A list of lists, flattened.
LEMMA FlattenedOver ==
    ASSUME NEW X, NEW n \in Nat, NEW parts, DOMAIN parts = 1..n,
           parts = [k \in 1..n |-> parts[k]], \A k \in 1..n : parts[k] \in Seq(X)
    PROVE  /\ FlattenSeq(parts) \in Seq(X)
           /\ \A k \in 1..n : ToSet(parts[k]) \subseteq ToSet(FlattenSeq(parts))
<1>1. Len(parts) = n
  BY ListByLength
<1>2. CASE n = 0
  <2>1. FlattenSeq(parts) = parts
    BY <1>1, <1>2 DEF FlattenSeq
  <2>2. parts \in [1..n -> X]
    BY <1>2
  <2>3. parts \in Seq(X)
    BY <2>2
  <2>4. \A k \in 1..n : FALSE
    BY <1>2
  <2> QED BY <2>1, <2>3, <2>4
<1>3. CASE n # 0
  <2> DEFINE Next1(i, g) == IF i = 1 THEN parts[i] ELSE g[i - 1] \o parts[i]
             Rec(g) == g = [i \in 1..n |-> Next1(i, g)]
             step == [k \in 1..n |-> [v \in Seq(X) |-> IF k = 1 THEN parts[k] ELSE v \o parts[k]]]
  <2>1. <<>> \in Seq(X)
    OBVIOUS
  <2>2. step \in [1..n -> [Seq(X) -> Seq(X)]]
    <3>1. \A v, w \in Seq(X) : v \o w \in Seq(X)
      BY ConcatProperties
    <3> QED BY <3>1
  <2>3. PICK f : Writes!Iterates(f, n, Seq(X), <<>>, step)
    <3> HIDE DEF step
    <3> QED BY <2>1, <2>2, Writes!RecursionExists
  <2> DEFINE h == [i \in 1..n |-> f[i]]
  <2>4. Rec(h)
    <3>1. ASSUME NEW i \in 1..n PROVE h[i] = Next1(i, h)
      <4>1. f[i - 1] \in Seq(X) /\ f[i] = step[i][f[i - 1]]
        <5>1. i - 1 \in 0..n
          OBVIOUS
        <5> HIDE DEF step
        <5> QED BY <2>3, <5>1 DEF Writes!Iterates
      <4>2. f[i] = IF i = 1 THEN parts[i] ELSE f[i - 1] \o parts[i]
        BY <4>1
      <4>3. i # 1 => i - 1 \in 1..n
        OBVIOUS
      <4> HIDE DEF step
      <4> QED BY <4>2, <4>3
    <3> HIDE DEF Next1
    <3> QED BY <3>1
  <2> DEFINE g == CHOOSE g : Rec(g)
  <2>5. Rec(g)
    <3> HIDE DEF Rec, h
    <3> QED BY <2>4
  <2>6. FlattenSeq(parts) = g[n]
    BY <1>1, <1>3 DEF FlattenSeq
  <2> HIDE DEF g
  <2>7. \A i \in 1..n : g[i] = Next1(i, g)
    <3> HIDE DEF Next1
    <3> QED BY <2>5
  <2> DEFINE Holds(i) == i # 0 => /\ g[i] \in Seq(X)
                                  /\ \A k \in 1..i : ToSet(parts[k]) \subseteq ToSet(g[i])
             K == {i \in 0..n : Holds(i)}
  <2>8. ASSUME NEW i \in 1..n, i - 1 \in K PROVE i \in K
    <3>1. Holds(i - 1) /\ g[i] = Next1(i, g)
      BY <2>7, <2>8
    <3>2. CASE i = 1
      <4>1. g[i] = parts[i] /\ \A k \in 1..i : k = i
        BY <3>1, <3>2
      <4>2. Holds(i)
        BY <4>1
      <4> HIDE DEF Holds
      <4> QED BY <4>2
    <3>3. CASE i # 1
      <4> DEFINE v == g[i - 1]
                 w == parts[i]
      <4>1. v \in Seq(X) /\ w \in Seq(X) /\ g[i] = v \o w
            /\ \A k \in 1..(i - 1) : ToSet(parts[k]) \subseteq ToSet(v)
        BY <3>1, <3>3
      <4> HIDE DEF v, w
      <4>2. v \o w \in Seq(X) /\ ToSet(v) \cup ToSet(w) \subseteq ToSet(v \o w)
        BY <4>1, JoinedSet
      <4>3. \A k \in 1..i : k = i \/ k \in 1..(i - 1)
        OBVIOUS
      <4>4. \A k \in 1..i : ToSet(parts[k]) \subseteq ToSet(v \o w)
        BY <4>1, <4>2, <4>3 DEF w
      <4>5. Holds(i)
        BY <4>1, <4>2, <4>4
      <4> HIDE DEF Holds
      <4> QED BY <4>5
    <3> QED BY <3>2, <3>3
  <2>9. Writes!Hereditary(K, n)
    <3>1. 0 \in K
      OBVIOUS
    <3> HIDE DEF K
    <3> QED BY <2>8, <3>1 DEF Writes!Hereditary
  <2>10. n \in K
    <3> HIDE DEF K
    <3> QED BY <2>9, Writes!BoundedInduction
  <2> QED BY <1>3, <2>6, <2>10
<1> QED BY <1>2, <1>3

\* What passes a test, of each entry of a list.
LEMMA OnlyOver ==
    ASSUME NEW X, NEW passes, passes \in BOOLEAN, NEW value, passes => value \in X
    PROVE  Only(passes, value) \in Seq(X)
BY DEF Only

\* A part of a list.
LEMMA SubSeqOver ==
    ASSUME NEW X, NEW s \in Seq(X), NEW m \in Nat \ {0}, NEW n \in 0..Len(s)
    PROVE  SubSeq(s, m, n) \in Seq(X) /\ Len(SubSeq(s, m, n)) <= Len(s)
<1>1. CASE m <= n + 1
  <2>1. m \in 1..(Len(s) + 1) /\ n \in (m - 1)..Len(s)
    BY <1>1
  <2>2. SubSeq(s, m, n) \in Seq(X) /\ Len(SubSeq(s, m, n)) = (n - m) + 1
    BY <2>1, SubSeqProperties
  <2> QED BY <2>2
<1>2. CASE m > n + 1
  <2>1. SubSeq(s, m, n) = <<>>
    BY <1>2
  <2> QED BY <2>1
<1> QED BY <1>1, <1>2

\* Where a member is inserted: after those of no higher rank, as many as there are.
Lower(seq, x, rank) == {k \in DOMAIN seq : rank[seq[k]] <= rank[x]}

LEMMA InsertedOver ==
    ASSUME NEW X, NEW seq \in Seq(X), NEW x \in X, NEW rank
    PROVE  LET i == Cardinality(Lower(seq, x, rank))
               t == Inserted(seq, x, rank)
           IN /\ t \in Seq(X) /\ Len(t) = Len(seq) + 1
              /\ i \in 0..Len(seq) /\ t[i + 1] = x
              /\ \A k \in 1..i : t[k] = seq[k]
              /\ \A k \in (i + 1)..Len(seq) : t[k + 1] = seq[k]
<1> DEFINE low == Lower(seq, x, rank)
           i == Cardinality(low)
           N == Len(seq)
           t == Inserted(seq, x, rank)
<1>1. N \in Nat /\ DOMAIN seq = 1..N /\ low \in SUBSET (1..N)
  BY LenProperties DEF Lower
<1>2. i \in 0..N
  <2> HIDE DEF low, N
  <2>1. N \in Nat /\ low \in SUBSET (1..N)
    BY <1>1
  <2>2. IsFiniteSet(1..N) /\ Cardinality(1..N) = N
    BY <2>1, FS_Interval
  <2>3. Cardinality(low) \in Nat /\ Cardinality(low) <= N
    BY <2>1, <2>2, FS_Subset, FS_CardinalityType
  <2> QED BY <2>1, <2>3
<1> DEFINE a == SubSeq(seq, 1, i)
           b == SubSeq(seq, i + 1, N)
<1>3. t = a \o <<x>> \o b
  <2>1. (i + 1) - 1 = i
    BY <1>1, <1>2
  <2> QED BY <2>1 DEF Inserted, InsertAt, Lower
<1> HIDE DEF i, t
<1>4. a \in Seq(X) /\ Len(a) = i /\ \A k \in 1..i : a[k] = seq[k]
  BY <1>1, <1>2
<1>5. b \in Seq(X) /\ Len(b) = N - i /\ \A k \in 1..(N - i) : b[k] = seq[i + k]
  <2>1. CASE i = N
    BY <1>1, <1>2, <2>1
  <2>2. CASE i # N
    <3>1. i + 1 \in 1..(N + 1) /\ N \in ((i + 1) - 1)..N
      BY <1>1, <1>2
    <3>2. /\ b \in Seq(X) /\ Len(b) = N - (i + 1) + 1
          /\ \A k \in 1..(N - (i + 1) + 1) : b[k] = seq[(i + 1) + k - 1]
      BY <3>1, SubSeqProperties
    <3>3. N - (i + 1) + 1 = N - i /\ \A k \in 1..(N - i) : (i + 1) + k - 1 = i + k
      BY <1>1, <1>2
    <3> HIDE DEF b
    <3> QED BY <3>2, <3>3
  <2> QED BY <2>1, <2>2
<1> HIDE DEF a, b, N
<1> DEFINE u == a \o <<x>>
<1>6. /\ u \in Seq(X) /\ Len(u) = i + 1 /\ u[i + 1] = x
      /\ \A k \in 1..i : u[k] = seq[k]
  BY <1>2, <1>4
<1> HIDE DEF u
<1>7. t = u \o b
  BY <1>3 DEF u
<1>8. t \in Seq(X) /\ Len(t) = N + 1
  BY <1>1, <1>2, <1>5, <1>6, <1>7
<1>9. \A k \in 1..(i + 1) : t[k] = u[k]
  BY <1>2, <1>5, <1>6, <1>7
<1>10. ASSUME NEW k \in (i + 1)..N PROVE t[k + 1] = seq[k]
  <2>1. k + 1 \in 1..(Len(u) + Len(b)) /\ k + 1 > Len(u) /\ (k + 1) - Len(u) = k - i
        /\ k - i \in 1..(N - i) /\ i + (k - i) = k
    BY <1>1, <1>2, <1>5, <1>6
  <2>2. t[k + 1] = b[k - i]
    BY <1>5, <1>6, <1>7, <2>1
  <2> QED BY <1>5, <2>1, <2>2
<1>11. /\ t \in Seq(X) /\ Len(t) = Len(seq) + 1
       /\ i \in 0..Len(seq) /\ t[i + 1] = x
       /\ \A k \in 1..i : t[k] = seq[k]
       /\ \A k \in (i + 1)..Len(seq) : t[k + 1] = seq[k]
  BY <1>2, <1>6, <1>8, <1>9, <1>10 DEF N
<1> QED BY <1>11 DEF i, t

Sorted(seq, rank) == \A j, k \in DOMAIN seq : j < k => rank[seq[j]] <= rank[seq[k]]

\* In a sorted list those of no higher rank come first.
LEMMA LowerComeFirst ==
    ASSUME NEW X, NEW seq \in Seq(X), NEW x \in X, NEW rank,
           \A y \in X : rank[y] \in Int, Sorted(seq, rank)
    PROVE  Lower(seq, x, rank) = 1..Cardinality(Lower(seq, x, rank))
<1> DEFINE low == Lower(seq, x, rank)
           N == Len(seq)
<1>1. N \in Nat /\ DOMAIN seq = 1..N /\ low \subseteq 1..N /\ \A k \in 1..N : seq[k] \in X
  BY LenProperties DEF Lower
<1>2. CASE low = {}
  <2>1. Cardinality(low) = 0 /\ 1..0 = {}
    BY <1>2, FS_EmptySet
  <2> QED BY <1>2, <2>1
<1>3. CASE low # {}
  <2>1. PICK m \in low : \A y \in low : y <= m
    <3> HIDE DEF low
    <3> QED BY <1>1, <1>3, Writes!HasGreatest
  <2>2. m \in 1..N /\ rank[seq[m]] <= rank[x]
    BY <1>1 DEF Lower
  <2>3. ASSUME NEW k \in 1..m PROVE k \in low
    <3>1. k \in 1..N /\ rank[seq[k]] \in Int /\ rank[seq[m]] \in Int /\ rank[x] \in Int
      BY <1>1, <2>2
    <3>2. rank[seq[k]] <= rank[seq[m]]
      <4>1. CASE k = m
        BY <3>1, <4>1
      <4>2. CASE k < m
        BY <1>1, <2>2, <3>1, <4>2 DEF Sorted
      <4> QED BY <2>2, <4>1, <4>2
    <3>3. rank[seq[k]] <= rank[x]
      BY <2>2, <3>1, <3>2
    <3> QED BY <1>1, <3>1, <3>3 DEF Lower
  <2>4. low = 1..m
    <3>1. \A y \in low : y \in 1..m
      BY <1>1, <2>1, <2>2
    <3> HIDE DEF low
    <3> QED BY <2>3, <3>1
  <2>5. Cardinality(1..m) = m
    BY <2>2, FS_Interval
  <2> QED BY <2>4, <2>5
<1> QED BY <1>2, <1>3

\* One more member, where it belongs.
LEMMA InsertedSorted ==
    ASSUME NEW X, NEW seq \in Seq(X), NEW x \in X, NEW rank
    PROVE  LET t == Inserted(seq, x, rank)
           IN /\ t \in Seq(X) /\ ToSet(t) = ToSet(seq) \cup {x} /\ Len(t) = Len(seq) + 1
              /\ (\A y \in X : rank[y] \in Int) /\ Sorted(seq, rank) => Sorted(t, rank)
<1> DEFINE low == Lower(seq, x, rank)
           i == Cardinality(low)
           t == Inserted(seq, x, rank)
           N == Len(seq)
<1>1. /\ t \in Seq(X) /\ Len(t) = N + 1 /\ i \in 0..N /\ t[i + 1] = x
      /\ \A k \in 1..i : t[k] = seq[k]
      /\ \A k \in (i + 1)..N : t[k + 1] = seq[k]
  <2> HIDE DEF N
  <2> QED BY InsertedOver DEF N
<1>2. /\ N \in Nat /\ DOMAIN seq = 1..N /\ DOMAIN t = 1..(N + 1)
      /\ \A k \in 1..N : seq[k] \in X
  <2> HIDE DEF t
  <2> QED BY <1>1, LenProperties
<1> HIDE DEF t, N, i
<1>3. ASSUME NEW k \in 1..(N + 1)
      PROVE  \/ k \in 1..i /\ k \in 1..N /\ t[k] = seq[k]
             \/ k = i + 1 /\ t[k] = x
             \/ k - 1 \in (i + 1)..N /\ k - 1 \in 1..N /\ t[k] = seq[k - 1]
  <2>1. CASE k <= i
    BY <1>1, <1>2, <2>1
  <2>2. CASE k = i + 1
    BY <1>1, <2>2
  <2>3. CASE k > i + 1
    <3>1. k - 1 \in (i + 1)..N /\ k - 1 \in 1..N /\ (k - 1) + 1 = k
      BY <1>1, <1>2, <2>3
    <3> QED BY <1>1, <3>1
  <2> QED BY <1>1, <1>2, <2>1, <2>2, <2>3
<1>4. ToSet(t) = ToSet(seq) \cup {x}
  <2>1. ASSUME NEW y \in ToSet(t) PROVE y \in ToSet(seq) \cup {x}
    BY <1>2, <1>3 DEF ToSet
  <2>2. ASSUME NEW k \in 1..N PROVE seq[k] \in ToSet(t)
    <3>1. CASE k <= i
      <4>1. k \in 1..i /\ k \in 1..(N + 1)
        BY <1>1, <1>2, <3>1
      <4> QED BY <1>1, <1>2, <4>1 DEF ToSet
    <3>2. CASE k > i
      <4>1. k \in (i + 1)..N /\ k + 1 \in 1..(N + 1)
        BY <1>1, <1>2, <3>2
      <4> QED BY <1>1, <1>2, <4>1 DEF ToSet
    <3> QED BY <1>1, <3>1, <3>2
  <2>3. i + 1 \in 1..(N + 1)
    BY <1>1, <1>2
  <2>4. x \in ToSet(t)
    BY <1>1, <1>2, <2>3 DEF ToSet
  <2>5. \A y \in ToSet(seq) : y \in ToSet(t)
    BY <1>2, <2>2 DEF ToSet
  <2> QED BY <2>1, <2>4, <2>5
<1>5. ASSUME \A y \in X : rank[y] \in Int, Sorted(seq, rank) PROVE Sorted(t, rank)
  <2>1. low = 1..i
    BY <1>5, LowerComeFirst DEF i
  <2>2. \A k \in 1..N : rank[seq[k]] \in Int /\ (k \in 1..i <=> rank[seq[k]] <= rank[x])
    BY <1>2, <1>5, <2>1 DEF Lower
  <2>3. rank[x] \in Int
    BY <1>5
  <2>4. \A j, k \in 1..N : j < k => rank[seq[j]] <= rank[seq[k]]
    BY <1>2, <1>5 DEF Sorted
  <2> HIDE DEF low
  <2> SUFFICES ASSUME NEW j \in 1..(N + 1), NEW k \in 1..(N + 1), j < k
               PROVE  rank[t[j]] <= rank[t[k]]
    BY <1>2 DEF Sorted
  <2>5. i \in Nat /\ N \in Nat
    BY <1>1, <1>2
  <2>6. CASE j \in 1..i /\ j \in 1..N /\ t[j] = seq[j]
    <3>1. rank[t[j]] <= rank[x] /\ rank[t[j]] \in Int
      BY <2>2, <2>6
    <3>2. CASE k = i + 1 /\ t[k] = x
      BY <3>1, <3>2
    <3>3. CASE k \in 1..N /\ t[k] = seq[k]
      BY <2>4, <2>6, <3>3
    <3>4. CASE k - 1 \in (i + 1)..N /\ k - 1 \in 1..N /\ t[k] = seq[k - 1]
      <4>1. j < k - 1
        BY <2>5, <2>6, <3>4
      <4> QED BY <2>4, <2>6, <3>4, <4>1
    <3> QED BY <1>3, <3>2, <3>3, <3>4
  <2>7. CASE j = i + 1 /\ t[j] = x
    <3>1. k - 1 \in 1..N /\ ~(k - 1 \in 1..i) /\ t[k] = seq[k - 1]
      BY <1>3, <2>5, <2>7
    <3> QED BY <2>2, <2>3, <2>7, <3>1
  <2>8. CASE j - 1 \in (i + 1)..N /\ j - 1 \in 1..N /\ t[j] = seq[j - 1]
    <3>1. k - 1 \in 1..N /\ t[k] = seq[k - 1] /\ j - 1 < k - 1
      BY <1>3, <2>5, <2>8
    <3> QED BY <2>4, <2>8, <3>1
  <2> QED BY <1>3, <2>6, <2>7, <2>8
<1>6. /\ t \in Seq(X) /\ ToSet(t) = ToSet(seq) \cup {x} /\ Len(t) = N + 1
      /\ (\A y \in X : rank[y] \in Int) /\ Sorted(seq, rank) => Sorted(t, rank)
  BY <1>1, <1>4, <1>5
<1> QED BY <1>6 DEF t, N

\* The lists that the members of a set go into, one after the other.
Insertions(rank, s, f) ==
    /\ f[0] = <<>>
    /\ \A k \in 1..Len(s) : f[k] = Inserted(f[k - 1], s[k], rank)

\* Ranking a finite set inserts its members in the order of some list of them.
LEMMA RankingGoesThrough ==
    ASSUME NEW rank, NEW S, IsFiniteSet(S)
    PROVE  \E s \in Seq(S) : \E f : /\ ToSet(s) = S /\ Insertions(rank, s, f)
                                    /\ ByRank(S, rank) = f[Len(s)] /\ Len(s) = Cardinality(S)
<1> DEFINE N == Cardinality(S)
           First(T) == CHOOSE x \in T : TRUE
           Step(T, g) == IF T = {} THEN <<>> ELSE Inserted(g[T \ {First(T)}], First(T), rank)
           Small(n) == {T \in SUBSET S : Cardinality(T) <= n}
           Upto(n, g) == g = [T \in Small(n) |-> Step(T, g)]
           K == {n \in 0..N : \E g : Upto(n, g)}
<1>1. N \in Nat /\ Small(N) = SUBSET S
  <2>1. \A T \in SUBSET S : Cardinality(T) \in Nat /\ Cardinality(T) <= N
    BY FS_Subset, FS_CardinalityType
  <2> QED BY <2>1, FS_CardinalityType
<1>2. ASSUME NEW T \in SUBSET S PROVE Cardinality(T) \in Nat /\ (Cardinality(T) = 0 <=> T = {})
  <2>1. IsFiniteSet(T)
    BY FS_Subset
  <2> QED BY <2>1, FS_EmptySet, FS_CardinalityType
<1>a. /\ \A T \in Small(0) : T = {}
      /\ \A n \in 1..N : /\ Small(n - 1) \subseteq Small(n)
                         /\ \A T \in Small(n) : T # {} => T \ {First(T)} \in Small(n - 1) /\ First(T) \in S
  <2>1. ASSUME NEW T \in Small(0) PROVE T = {}
    BY <1>2
  <2>2. ASSUME NEW n \in 1..N, NEW T \in Small(n - 1) PROVE T \in Small(n)
    <3>1. T \in SUBSET S /\ Cardinality(T) <= n - 1 /\ n \in Nat
      BY <1>1
    <3>2. Cardinality(T) \in Nat
      BY <1>2, <3>1
    <3>3. Cardinality(T) <= n
      BY <3>1, <3>2
    <3> QED BY <3>1, <3>3
  <2>3. ASSUME NEW n \in 1..N, NEW T \in Small(n), T # {}
        PROVE  T \ {First(T)} \in Small(n - 1) /\ First(T) \in S
    <3>1. T \in SUBSET S /\ Cardinality(T) <= n /\ n \in Nat /\ IsFiniteSet(T)
      BY <1>1, FS_Subset
    <3> DEFINE x == First(T)
    <3>2. x \in T
      BY <2>3
    <3> HIDE DEF x
    <3>3. Cardinality(T \ {x}) = Cardinality(T) - 1 /\ Cardinality(T) \in Nat
      BY <3>1, <3>2, FS_RemoveElement, FS_CardinalityType
    <3>4. Cardinality(T \ {x}) <= n - 1
      BY <3>1, <3>3
    <3>5. T \ {x} \in Small(n - 1) /\ x \in S
      BY <3>1, <3>2, <3>4
    <3> QED BY <3>5 DEF x
  <2> HIDE DEF Small, First
  <2> QED BY <2>1, <2>2, <2>3
<1>3. 0 \in K
  <2> DEFINE g == [T \in Small(0) |-> <<>>]
  <2>1. \A T \in Small(0) : T = {}
    <3> HIDE DEF Small, First
    <3> QED BY <1>a
  <2>2. Upto(0, g)
    BY <2>1
  <2> HIDE DEF Upto, g
  <2> QED BY <1>1, <2>2
<1>4. ASSUME NEW n \in 1..N, n - 1 \in K PROVE n \in K
  <2>1. PICK g : Upto(n - 1, g)
    BY <1>4
  <2> DEFINE h == [T \in Small(n) |-> IF T \in Small(n - 1) THEN g[T] ELSE Step(T, g)]
  <2>2. \A T \in Small(n - 1) : T \in Small(n) /\ g[T] = Step(T, g)
    <3>1. \A T \in Small(n - 1) : g[T] = Step(T, g)
      <4> HIDE DEF Step, Small
      <4> QED BY <2>1
    <3>2. \A T \in Small(n - 1) : T \in Small(n)
      <4> HIDE DEF Small, First
      <4> QED BY <1>a
    <3> QED BY <3>1, <3>2
  <2>3. ASSUME NEW T \in Small(n), T # {}
        PROVE  LET R == T \ {First(T)} IN R \in Small(n - 1) /\ h[R] = g[R] /\ First(T) \in S
    <3> DEFINE R == T \ {First(T)}
    <3>1. R \in Small(n - 1) /\ First(T) \in S
      <4> HIDE DEF Small, First
      <4> QED BY <1>a, <2>3
    <3>2. R \in Small(n)
      BY <2>2, <3>1
    <3> HIDE DEF R, Small, Step, First
    <3>3. h[R] = g[R]
      BY <3>1, <3>2
    <3> HIDE DEF h
    <3> QED BY <3>1, <3>3 DEF R
  <2>4. \A T \in Small(n) : Step(T, h) = Step(T, g)
    <3> HIDE DEF h, Small, First
    <3> QED BY <2>3
  <2>5. \A T \in Small(n) : h[T] = Step(T, g)
    <3> HIDE DEF Step, Small
    <3> QED BY <2>2
  <2>6. Upto(n, h)
    <3>1. h = [T \in Small(n) |-> h[T]]
      <4> HIDE DEF Step, Small
      <4> QED OBVIOUS
    <3> HIDE DEF h, Step, Small
    <3> QED BY <2>4, <2>5, <3>1
  <2> HIDE DEF Upto, h
  <2> QED BY <2>6
<1>5. \E g : Upto(N, g)
  <2>1. Writes!Hereditary(K, N)
    <3> HIDE DEF K
    <3> QED BY <1>3, <1>4 DEF Writes!Hereditary
  <2>2. N \in K
    <3> HIDE DEF K, N
    <3> QED BY <1>1, <2>1, Writes!BoundedInduction
  <2> HIDE DEF Upto
  <2> QED BY <2>2
<1> DEFINE Full(g) == g = [T \in SUBSET S |-> Step(T, g)]
           h == CHOOSE g : Full(g)
<1>6. Full(h)
  <2>1. \A g : Upto(N, g) => Full(g)
    <3> HIDE DEF Small, Step
    <3> QED BY <1>1
  <2> HIDE DEF Upto, Full
  <2> QED BY <1>5, <2>1
<1>7. ByRank(S, rank) = h[S]
  BY DEF ByRank, FoldSet, MapThenFoldSet
<1> HIDE DEF h
<1>8. \A T \in SUBSET S : h[T] = Step(T, h)
  <2> HIDE DEF Step
  <2> QED BY <1>6
<1> DEFINE Listed(T, s, f) == /\ ToSet(s) = T /\ Insertions(rank, s, f) /\ h[T] = f[Len(s)]
                               /\ Len(s) = Cardinality(T)
           L == {n \in 0..N : \A T \in Small(n) : \E s \in Seq(S) : \E f : Listed(T, s, f)}
<1>9. 0 \in L
  <2>1. \A T \in Small(0) : T = {} /\ T \in SUBSET S
    <3> HIDE DEF First
    <3> QED BY <1>a
  <2>2. h[{}] = <<>>
    BY <1>8
  <2>3. <<>> \in Seq(S) /\ Len(<<>>) = 0 /\ ToSet(<<>>) = {}
    BY DEF ToSet
  <2>4. Listed({}, <<>>, [k \in {0} |-> <<>>])
    BY <2>2, <2>3, FS_EmptySet DEF Insertions
  <2> HIDE DEF Listed
  <2> QED BY <1>1, <2>1, <2>3, <2>4
<1>10. ASSUME NEW n \in 1..N, n - 1 \in L PROVE n \in L
  <2> SUFFICES ASSUME NEW T \in Small(n) PROVE \E s \in Seq(S) : \E f : Listed(T, s, f)
    <3> HIDE DEF Small, Listed
    <3> QED BY <1>1
  <2>1. h[T] = Step(T, h)
    <3>1. T \in SUBSET S
      OBVIOUS
    <3> HIDE DEF Step
    <3> QED BY <1>8, <3>1
  <2>2. CASE T # {}
    <3> DEFINE x == First(T)
               R == T \ {x}
    <3>1. R \in Small(n - 1) /\ x \in S
      <4> HIDE DEF Small, First
      <4> QED BY <1>a, <2>2
    <3>2. PICK s \in Seq(S) : \E f : Listed(R, s, f)
      <4> HIDE DEF Small, First, Listed, R
      <4> QED BY <1>10, <3>1
    <3>3. PICK f : Listed(R, s, f)
      <4> HIDE DEF Listed, R
      <4> QED BY <3>2
    <3>4. h[T] = Inserted(h[R], x, rank) /\ x \in T
      BY <2>1, <2>2
    <3> DEFINE t == Append(s, x)
               m == Len(s)
               g == [k \in 0..(m + 1) |-> IF k = m + 1 THEN h[T] ELSE f[k]]
    <3> HIDE DEF x
    <3>5. /\ t \in Seq(S) /\ Len(t) = m + 1 /\ m \in Nat
          /\ t[m + 1] = x /\ \A k \in 1..m : t[k] = s[k]
      BY <3>1, AppendProperties
    <3>6. ToSet(t) = T
      <4>1. DOMAIN t = 1..(m + 1) /\ DOMAIN s = 1..m
        BY <3>5
      <4>2. ToSet(s) = T \ {x}
        BY <3>3
      <4> HIDE DEF t
      <4>3. \A k \in 1..(m + 1) : k = m + 1 \/ k \in 1..m
        BY <3>5
      <4>4. 1..m \subseteq 1..(m + 1) /\ m + 1 \in 1..(m + 1)
        BY <3>5
      <4>5. ToSet(t) = ToSet(s) \cup {x}
        BY <3>5, <4>1, <4>3, <4>4 DEF ToSet
      <4> QED BY <3>4, <4>2, <4>5
    <3>7. Insertions(rank, t, g)
      <4> HIDE DEF t
      <4>1. g[0] = <<>>
        BY <3>3, <3>5 DEF Insertions
      <4>2. ASSUME NEW k \in 1..(m + 1) PROVE g[k] = Inserted(g[k - 1], t[k], rank)
        <5>1. CASE k = m + 1
          <6>1. g[k] = h[T] /\ g[k - 1] = f[m] /\ t[k] = x
            BY <3>5, <5>1
          <6>2. f[m] = h[R]
            BY <3>3
          <6> HIDE DEF g, R
          <6> QED BY <3>4, <6>1, <6>2
        <5>2. CASE k # m + 1
          <6>1. k \in 1..m /\ g[k] = f[k] /\ g[k - 1] = f[k - 1] /\ t[k] = s[k]
            BY <3>5, <5>2
          <6>2. f[k] = Inserted(f[k - 1], s[k], rank)
            BY <3>3, <6>1 DEF Insertions
          <6> HIDE DEF g
          <6> QED BY <6>1, <6>2
        <5> QED BY <5>1, <5>2
      <4> HIDE DEF g
      <4> QED BY <3>5, <4>1, <4>2 DEF Insertions
    <3>8. g[Len(t)] = h[T]
      BY <3>5
    <3> HIDE DEF t, g
    <3>b. Len(t) = Cardinality(T)
      <4>1. IsFiniteSet(T)
        BY FS_Subset
      <4>2. Cardinality(R) = Cardinality(T) - 1 /\ Cardinality(T) \in Nat
        BY <3>4, <4>1, FS_RemoveElement, FS_CardinalityType
      <4>3. m = Cardinality(R)
        BY <3>3
      <4> HIDE DEF t, R
      <4> QED BY <3>5, <4>2, <4>3
    <3>9. Listed(T, t, g)
      BY <3>6, <3>7, <3>8, <3>b
    <3> HIDE DEF Listed
    <3> QED BY <3>5, <3>9
  <2>3. CASE T = {}
    <3>1. <<>> \in Seq(S) /\ Len(<<>>) = 0 /\ ToSet(<<>>) = {}
      BY DEF ToSet
    <3>2. Listed(T, <<>>, [k \in {0} |-> <<>>])
      BY <2>1, <2>3, <3>1, FS_EmptySet DEF Insertions
    <3> HIDE DEF Listed
    <3> QED BY <3>1, <3>2
  <2> QED BY <2>2, <2>3
<1>11. N \in L
  <2>1. Writes!Hereditary(L, N)
    <3> HIDE DEF L
    <3> QED BY <1>9, <1>10 DEF Writes!Hereditary
  <2> HIDE DEF L, N
  <2> QED BY <1>1, <2>1, Writes!BoundedInduction
<1>12. PICK s \in Seq(S) : \E f : Listed(S, s, f)
  <2> HIDE DEF Listed
  <2> QED BY <1>1, <1>11
<1> QED BY <1>7, <1>12

\* The members of a set, each, in order.
LEMMA RankedOver ==
    ASSUME NEW S, IsFiniteSet(S), NEW rank
    PROVE  /\ ByRank(S, rank) \in Seq(S) /\ ToSet(ByRank(S, rank)) = S
           /\ Len(ByRank(S, rank)) = Cardinality(S)
           /\ (\A x \in S : rank[x] \in Int) => Sorted(ByRank(S, rank), rank)
<1> DEFINE Goes(s, f) == /\ ToSet(s) = S
                         /\ f[0] = <<>>
                         /\ \A k \in 1..Len(s) : f[k] = Inserted(f[k - 1], s[k], rank)
                         /\ ByRank(S, rank) = f[Len(s)] /\ Len(s) = Cardinality(S)
<1>a. PICK s \in Seq(S) : \E f : Goes(s, f)
  <2>1. PICK s \in Seq(S) : \E f : /\ ToSet(s) = S /\ Insertions(rank, s, f)
                                   /\ ByRank(S, rank) = f[Len(s)] /\ Len(s) = Cardinality(S)
    BY RankingGoesThrough
  <2> QED BY <2>1 DEF Insertions
<1>1. PICK f : Goes(s, f)
  BY <1>a
<1> DEFINE n == Len(s)
           Whole == \A x \in S : rank[x] \in Int
           Holds(k) == /\ f[k] \in Seq(S) /\ ToSet(f[k]) = {s[j] : j \in 1..k} /\ Len(f[k]) = k
                       /\ Whole => Sorted(f[k], rank)
           K == {k \in 0..n : Holds(k)}
<1>2. n \in Nat /\ DOMAIN s = 1..n /\ \A k \in 1..n : s[k] \in S
  BY LenProperties
<1>3. 0 \in K
  <2>1. <<>> \in Seq(S) /\ ToSet(<<>>) = {} /\ Len(<<>>) = 0 /\ Sorted(<<>>, rank)
    BY DEF ToSet, Sorted
  <2>2. {s[j] : j \in 1..0} = {}
    OBVIOUS
  <2>3. f[0] = <<>>
    BY <1>1
  <2> HIDE DEF Whole
  <2>4. Holds(0)
    BY <2>1, <2>2, <2>3
  <2> HIDE DEF Holds
  <2> QED BY <1>2, <2>4
<1>4. ASSUME NEW k \in 1..n, k - 1 \in K PROVE k \in K
  <2>1. Holds(k - 1) /\ s[k] \in S /\ f[k] = Inserted(f[k - 1], s[k], rank)
    BY <1>1, <1>2, <1>4
  <2>2. {s[j] : j \in 1..k} = {s[j] : j \in 1..(k - 1)} \cup {s[k]}
    <3>1. \A j \in 1..k : j = k \/ j \in 1..(k - 1)
      BY <1>2
    <3>2. 1..(k - 1) \subseteq 1..k /\ k \in 1..k
      BY <1>2
    <3> QED BY <3>1, <3>2
  <2>3. /\ f[k] \in Seq(S) /\ ToSet(f[k]) = ToSet(f[k - 1]) \cup {s[k]} /\ Len(f[k]) = Len(f[k - 1]) + 1
        /\ Whole /\ Sorted(f[k - 1], rank) => Sorted(f[k], rank)
    <3> DEFINE seq == f[k - 1]
               x == s[k]
    <3>1. seq \in Seq(S) /\ x \in S /\ f[k] = Inserted(seq, x, rank)
      BY <2>1
    <3> HIDE DEF seq, x
    <3> DEFINE t == Inserted(seq, x, rank)
    <3>2. /\ t \in Seq(S) /\ ToSet(t) = ToSet(seq) \cup {x} /\ Len(t) = Len(seq) + 1
          /\ Whole /\ Sorted(seq, rank) => Sorted(t, rank)
      BY <3>1, InsertedSorted
    <3> HIDE DEF t, Whole
    <3>3. f[k] = t
      BY <3>1 DEF t
    <3> QED BY <3>2, <3>3 DEF seq, x
  <2> HIDE DEF Whole
  <2>4. Holds(k)
    BY <2>1, <2>2, <2>3
  <2> HIDE DEF Holds
  <2> QED BY <1>2, <2>4
<1>5. n \in K
  <2>1. Writes!Hereditary(K, n)
    <3> HIDE DEF K
    <3> QED BY <1>3, <1>4 DEF Writes!Hereditary
  <2> HIDE DEF K
  <2> QED BY <1>2, <2>1, Writes!BoundedInduction
<1>6. {s[j] : j \in 1..n} = S
  BY <1>1, <1>2 DEF ToSet
<1> QED BY <1>1, <1>5, <1>6

\* A list of lists, flattened: each of its entries is an entry of one of them.
LEMMA FlattenedList ==
    ASSUME NEW parts, IsList(parts), \A k \in DOMAIN parts : IsList(parts[k])
    PROVE  LET all == FlattenSeq(parts)
           IN /\ IsList(all) /\ \A i \in DOMAIN all : \E k \in DOMAIN parts :
                                    \E j \in DOMAIN parts[k] : all[i] = parts[k][j]
              /\ ToSet(all) = UNION {ToSet(parts[k]) : k \in DOMAIN parts}
<1> DEFINE n == Len(parts)
           X == UNION {ToSet(parts[k]) : k \in 1..n}
           all == FlattenSeq(parts)
<1>1. n \in Nat /\ DOMAIN parts = 1..n /\ parts = [k \in 1..n |-> parts[k]]
  BY LengthOfList
<1>2. \A k \in 1..n : parts[k] \in Seq(X)
  <2> TAKE k \in 1..n
  <2>1. IsList(parts[k]) /\ \A j \in DOMAIN parts[k] : parts[k][j] \in X
    BY <1>1 DEF ToSet
  <2> HIDE DEF X
  <2> QED BY <2>1, ListOver
<1>3. all \in Seq(X) /\ \A k \in 1..n : ToSet(parts[k]) \subseteq ToSet(all)
  <2> HIDE DEF n, X
  <2> QED BY <1>1, <1>2, FlattenedOver
<1>4. IsList(all) /\ \A i \in DOMAIN all : all[i] \in X
  <2> HIDE DEF n, X, all
  <2> QED BY <1>3, ListOver
<1>5. \A x \in X : \E k \in DOMAIN parts : \E j \in DOMAIN parts[k] : x = parts[k][j]
  BY <1>1 DEF ToSet
<1> HIDE DEF n, X, all
<1>6. \A i \in DOMAIN all : \E k \in DOMAIN parts : \E j \in DOMAIN parts[k] : all[i] = parts[k][j]
  BY <1>4, <1>5
<1>7. ToSet(all) \subseteq X
  BY <1>4 DEF ToSet
<1>8. ToSet(all) = UNION {ToSet(parts[k]) : k \in DOMAIN parts}
  BY <1>1, <1>3, <1>7 DEF X
<1> QED BY <1>4, <1>6, <1>8 DEF all

\* What a comprehension over a list is.
LEMMA MappedList ==
    ASSUME NEW s, IsList(s), NEW t, t = [k \in DOMAIN s |-> t[k]]
    PROVE  IsList(t) /\ DOMAIN t = DOMAIN s /\ Len(t) = Len(s)
<1>1. Len(s) \in Nat /\ DOMAIN s = 1..Len(s)
  BY LengthOfList
<1>2. t = [k \in 1..Len(s) |-> t[k]]
  BY <1>1
<1> QED BY <1>1, <1>2, ListByLength

LEMMA OnlyList ==
    ASSUME NEW passes, passes \in BOOLEAN, NEW value
    PROVE  IsList(Only(passes, value)) /\ \A j \in DOMAIN Only(passes, value) :
                                             passes /\ Only(passes, value)[j] = value
<1>1. <<>> \in Seq({value}) /\ <<value>> \in Seq({value})
  OBVIOUS
<1>2. Only(passes, value) \in Seq({value}) /\ (passes \/ DOMAIN Only(passes, value) = {})
  <2>1. CASE passes
    BY <1>1, <2>1 DEF Only
  <2>2. CASE ~passes
    BY <1>1, <2>2 DEF Only
  <2> QED BY <2>1, <2>2
<1> QED BY <1>2, ListOver

-----------------------------------------------------------------------------
(* The organisations of a chunk: collapsed and then written, or written one by one *)

LEMMA CollapseFolds ==
    ASSUME NEW orgs PROVE _collapse_entity_ops(orgs) = Collapse!Fold({}, <<>>, orgs)
BY DEF _collapse_entity_ops, FoldLeft, MapThenFoldSet, Max,
       Collapse!Fold, Collapse!MapThenFoldSet, Collapse!Greatest

LEMMA UpsertFolds ==
    ASSUME NEW entities, NEW orgs PROVE UpsertAll(entities, orgs) = Upserts!Fold({}, entities, orgs)
BY DEF UpsertAll, FoldLeft, MapThenFoldSet, Max,
       Upserts!Fold, Upserts!MapThenFoldSet, Upserts!Greatest

LEMMA CollapseGoes ==
    ASSUME NEW orgs, IsList(orgs)
    PROVE  \E f : /\ f[0] = <<>>
                  /\ \A k \in 1..Len(orgs) : f[k] = Collapsed(f[k - 1], orgs[k])
                  /\ _collapse_entity_ops(orgs) = f[Len(orgs)]
BY CollapseFolds, Collapse!FoldGoesThrough DEF IsList, Collapse!Steps

LEMMA UpsertGoes ==
    ASSUME NEW entities, NEW orgs, IsList(orgs)
    PROVE  \E f : /\ f[0] = entities
                  /\ \A k \in 1..Len(orgs) : f[k] = _entity_update(f[k - 1], orgs[k])
                  /\ UpsertAll(entities, orgs) = f[Len(orgs)]
BY UpsertFolds, Upserts!FoldGoesThrough DEF IsList, Upserts!Steps

(* An organisation is a record; entities are told apart by ico, or else by slug. *)

IsOrg(org) ==
    /\ {"ico", "name_slug", "sources"} \subseteq DOMAIN org
    /\ org = [field \in DOMAIN org |-> org[field]]

\* The same organisation with other sources.
From(org, S) == [org EXCEPT !.sources = S]

LEMMA OrgFrom ==
    ASSUME NEW org, IsOrg(org), NEW S
    PROVE  /\ IsOrg(From(org, S)) /\ From(org, S).sources = S
           /\ From(org, S).ico = org.ico /\ From(org, S).name_slug = org.name_slug
           /\ \A T : From(From(org, S), T) = From(org, T)
<1> DEFINE o == From(org, S)
<1>1. DOMAIN o = DOMAIN org /\ \A field \in DOMAIN org : o[field] = IF field = "sources" THEN S ELSE org[field]
  BY DEF From, IsOrg
<1>2. \A T : From(o, T) = From(org, T)
  BY DEF From, IsOrg
<1>3. o = [field \in DOMAIN o |-> o[field]]
  BY DEF From, IsOrg
<1>4. o.sources = S /\ o.ico = org.ico /\ o.name_slug = org.name_slug
  <2> HIDE DEF o
  <2> QED BY <1>1 DEF IsOrg
<1> HIDE DEF o
<1>5. IsOrg(o)
  BY <1>1, <1>3 DEF IsOrg
<1> QED BY <1>2, <1>4, <1>5 DEF o

Like(E, org) == {e \in E : _entity_filter(e, org)}
Tags(S) == UNION {e.sources : e \in S}

\* What an organisation becomes when it is written beside the entities.
Joined(E, org) == From(org, org.sources \cup Tags(Like(E, org)))

LEMMA UpdateJoins ==
    ASSUME NEW E, NEW org, IsOrg(org)
    PROVE  _entity_update(E, org) = (E \ Like(E, org)) \cup {Joined(E, org)}
BY DEF _entity_update, Like, Tags, Joined, From, IsOrg

\* Same is an equivalence, and the filter of an update asks for it.
LEMMA Sameness ==
    /\ \A a : SameEntity(a, a)
    /\ \A a, b : SameEntity(a, b) => SameEntity(b, a)
    /\ \A a, b, c : SameEntity(a, b) /\ SameEntity(b, c) => SameEntity(a, c)
    /\ \A e, org : _entity_filter(e, org) <=> SameEntity(org, e)
BY DEF SameEntity, _entity_filter

\* Every entity of a sequence once.
Distinct(kept) == \A j, k \in DOMAIN kept : SameEntity(kept[j], kept[k]) => j = k

Orgs(kept) == IsList(kept) /\ \A k \in DOMAIN kept : IsOrg(kept[k])

\* The entities after a sequence of distinct ones was written.
Written(E, kept) ==
    {e \in E : \A j \in DOMAIN kept : ~SameEntity(kept[j], e)} \cup {Joined(E, kept[j]) : j \in DOMAIN kept}

\* One more organisation keeps the sequence one of distinct entities.
LEMMA CollapsedDistinct ==
    ASSUME NEW kept, Orgs(kept), Distinct(kept), NEW org, IsOrg(org)
    PROVE  Orgs(Collapsed(kept, org)) /\ Distinct(Collapsed(kept, org))
<1> DEFINE n == Len(kept)
<1>1. n \in Nat /\ DOMAIN kept = 1..n
  BY LengthOfList DEF Orgs
<1>2. CASE \E k \in DOMAIN kept : SameEntity(kept[k], org)
  <2> DEFINE merged == [k \in DOMAIN kept |->
                           IF SameEntity(kept[k], org)
                             THEN [org EXCEPT !.sources = @ \cup kept[k].sources] ELSE kept[k]]
  <2>1. Collapsed(kept, org) = merged
    BY <1>2 DEF Collapsed
  <2>2. ASSUME NEW k \in DOMAIN kept
        PROVE  /\ merged[k] = IF SameEntity(kept[k], org) THEN From(org, org.sources \cup kept[k].sources)
                                                         ELSE kept[k]
               /\ IsOrg(merged[k]) /\ SameEntity(merged[k], kept[k])
    <3>1. merged[k] = IF SameEntity(kept[k], org) THEN From(org, org.sources \cup kept[k].sources)
                      ELSE kept[k]
      BY DEF From
    <3> HIDE DEF merged
    <3>2. CASE SameEntity(kept[k], org)
      <4>1. SameEntity(merged[k], org)
        BY <3>1, <3>2, OrgFrom DEF SameEntity
      <4> QED BY <3>1, <3>2, <4>1, OrgFrom, Sameness
    <3>3. CASE ~SameEntity(kept[k], org)
      BY <3>1, <3>3, Sameness DEF Orgs
    <3> QED BY <3>1, <3>2, <3>3
  <2>3. merged = [k \in 1..n |-> merged[k]] /\ DOMAIN merged = DOMAIN kept
    BY <1>1
  <2> HIDE DEF merged
  <2>4. IsList(merged)
    BY <1>1, <2>3, ListByLength
  <2>5. Distinct(merged)
    BY <2>2, <2>3, Sameness DEF Distinct
  <2> QED BY <2>1, <2>2, <2>3, <2>4, <2>5 DEF Orgs
<1>3. CASE ~\E k \in DOMAIN kept : SameEntity(kept[k], org)
  <2> DEFINE more == Append(kept, org)
  <2>1. Collapsed(kept, org) = more
    BY <1>3 DEF Collapsed
  <2>2. /\ more = [k \in 1..(n + 1) |-> more[k]] /\ DOMAIN more = 1..(n + 1)
        /\ more[n + 1] = org /\ \A k \in 1..n : more[k] = kept[k]
    BY <1>1, AppendedList DEF Orgs
  <2> HIDE DEF more
  <2>3. IsList(more)
    BY <1>1, <2>2, ListByLength
  <2>4. \A k \in 1..(n + 1) : k = n + 1 \/ k \in 1..n
    BY <1>1
  <2>5. \A k \in 1..(n + 1) : IsOrg(more[k])
    BY <1>1, <2>2, <2>4 DEF Orgs
  <2>6. ASSUME NEW j \in 1..(n + 1), NEW k \in 1..(n + 1), SameEntity(more[j], more[k]) PROVE j = k
    BY <1>1, <1>3, <2>2, <2>4, <2>6, Sameness DEF Distinct
  <2> QED BY <2>1, <2>2, <2>3, <2>5, <2>6 DEF Orgs, Distinct
<1> QED BY <1>2, <1>3

\* An entity that was written answers to whatever the organisation answers to.
LEMMA JoinedSame ==
    ASSUME NEW E, NEW org, IsOrg(org)
    PROVE  /\ IsOrg(Joined(E, org)) /\ SameEntity(Joined(E, org), org)
           /\ Joined(E, org).sources = org.sources \cup Tags(Like(E, org))
<1>1. IsOrg(Joined(E, org)) /\ Joined(E, org).sources = org.sources \cup Tags(Like(E, org))
  BY OrgFrom DEF Joined
<1>2. Joined(E, org).ico = org.ico /\ Joined(E, org).name_slug = org.name_slug
  BY OrgFrom DEF Joined
<1> QED BY <1>1, <1>2 DEF SameEntity

LEMMA SameAreLike ==
    ASSUME NEW E, NEW a, NEW b, SameEntity(a, b)
    PROVE  Like(E, a) = Like(E, b)
BY Sameness DEF Like

\* A new organisation finds the entity it would have found before the others.
LEMMA WrittenNew ==
    ASSUME NEW E, NEW kept, Orgs(kept), NEW org, IsOrg(org),
           ~\E k \in DOMAIN kept : SameEntity(kept[k], org)
    PROVE  _entity_update(Written(E, kept), org) = Written(E, Append(kept, org))
<1> DEFINE n == Len(kept)
           W == Written(E, kept)
           more == Append(kept, org)
           Rest == {e \in E : \A j \in DOMAIN kept : ~SameEntity(kept[j], e)}
<1>1. n \in Nat /\ DOMAIN kept = 1..n
  BY LengthOfList DEF Orgs
<1>2. /\ DOMAIN more = 1..(n + 1) /\ more[n + 1] = org
      /\ \A k \in 1..n : more[k] = kept[k]
  BY AppendedList DEF Orgs
<1>3. \A j \in DOMAIN kept : ~SameEntity(org, Joined(E, kept[j]))
  BY JoinedSame, Sameness DEF Orgs
<1>4. \A e \in E : SameEntity(org, e) => e \in Rest
  BY Sameness
<1>5. W = Rest \cup {Joined(E, kept[j]) : j \in DOMAIN kept}
  BY DEF Written
<1>6. Like(W, org) = Like(E, org)
  <2> HIDE DEF W, Rest
  <2>1. \A e : e \in Like(W, org) <=> e \in W /\ SameEntity(org, e)
    BY Sameness DEF Like
  <2>2. \A e : e \in Like(E, org) <=> e \in E /\ SameEntity(org, e)
    BY Sameness DEF Like
  <2>3. \A e \in Rest : e \in E
    BY DEF Rest
  <2> QED BY <1>3, <1>4, <1>5, <2>1, <2>2, <2>3
<1>7. Joined(W, org) = Joined(E, org)
  <2> HIDE DEF W
  <2> QED BY <1>6 DEF Joined
<1>8. W \ Like(W, org) = {e \in E : \A j \in DOMAIN more : ~SameEntity(more[j], e)}
                         \cup {Joined(E, kept[j]) : j \in DOMAIN kept}
  <2>1. ASSUME NEW e PROVE e \in Rest /\ ~SameEntity(org, e)
                           <=> e \in E /\ \A j \in DOMAIN more : ~SameEntity(more[j], e)
    <3>1. \A j \in DOMAIN more : j = n + 1 \/ j \in DOMAIN kept
      BY <1>1, <1>2
    <3>2. n + 1 \in DOMAIN more /\ \A j \in DOMAIN kept : j \in DOMAIN more
      BY <1>1, <1>2
    <3> HIDE DEF more, n
    <3> QED BY <1>1, <1>2, <3>1, <3>2
  <2>2. \A e : e \in Like(W, org) <=> e \in W /\ SameEntity(org, e)
    BY Sameness DEF Like
  <2> HIDE DEF W, Rest, more
  <2> QED BY <1>3, <1>5, <2>1, <2>2
<1>9. {Joined(E, more[j]) : j \in DOMAIN more} = {Joined(E, kept[j]) : j \in DOMAIN kept} \cup {Joined(E, org)}
  <2>1. \A j \in DOMAIN more : j = n + 1 \/ j \in DOMAIN kept
    BY <1>1, <1>2
  <2>2. n + 1 \in DOMAIN more /\ \A j \in DOMAIN kept : j \in DOMAIN more
    BY <1>1, <1>2
  <2> HIDE DEF more, n
  <2> QED BY <1>1, <1>2, <2>1, <2>2
<1>10. _entity_update(W, org) = (W \ Like(W, org)) \cup {Joined(W, org)}
  BY UpdateJoins
<1> HIDE DEF W, Rest
<1>11. Written(E, more) = {e \in E : \A j \in DOMAIN more : ~SameEntity(more[j], e)}
                          \cup {Joined(E, more[j]) : j \in DOMAIN more}
  BY DEF Written
<1> HIDE DEF more
<1> QED BY <1>7, <1>8, <1>9, <1>10, <1>11 DEF W, more

\* An organisation that comes again finds the entity as it left it.
LEMMA WrittenAgain ==
    ASSUME NEW E, NEW kept, Orgs(kept), Distinct(kept), NEW org, IsOrg(org),
           NEW k \in DOMAIN kept, SameEntity(kept[k], org)
    PROVE  _entity_update(Written(E, kept), org) = Written(E, Collapsed(kept, org))
<1> DEFINE W == Written(E, kept)
           merged == Collapsed(kept, org)
           Rest == {e \in E : \A j \in DOMAIN kept : ~SameEntity(kept[j], e)}
           J(j) == Joined(E, kept[j])
<1>1. /\ DOMAIN merged = DOMAIN kept
      /\ \A j \in DOMAIN kept : merged[j] = IF j = k THEN From(org, org.sources \cup kept[k].sources)
                                            ELSE kept[j]
  <2>1. \A j \in DOMAIN kept : SameEntity(kept[j], org) <=> j = k
    BY Sameness DEF Distinct
  <2>2. merged = [j \in DOMAIN kept |->
                    IF SameEntity(kept[j], org)
                      THEN [org EXCEPT !.sources = @ \cup kept[j].sources] ELSE kept[j]]
    BY DEF Collapsed
  <2> QED BY <2>1, <2>2 DEF From
<1>2. W = Rest \cup {J(j) : j \in DOMAIN kept}
  BY DEF Written
<1>3. \A j \in DOMAIN kept : SameEntity(org, J(j)) <=> j = k
  BY JoinedSame, Sameness DEF Orgs, Distinct
<1>4. \A e \in Rest : ~SameEntity(org, e)
  BY Sameness
<1>5. Like(W, org) = {J(k)}
  <2>1. \A e : e \in Like(W, org) <=> e \in W /\ SameEntity(org, e)
    BY Sameness DEF Like
  <2> HIDE DEF W, Rest, J
  <2> QED BY <1>2, <1>3, <1>4, <2>1
<1>6. Tags(Like(W, org)) = kept[k].sources \cup Tags(Like(E, org))
  <2>1. J(k).sources = kept[k].sources \cup Tags(Like(E, kept[k]))
    BY JoinedSame DEF Orgs
  <2>2. Like(E, kept[k]) = Like(E, org)
    BY SameAreLike
  <2>3. Tags({J(k)}) = J(k).sources
    <3> HIDE DEF J
    <3> QED BY DEF Tags
  <2> HIDE DEF W, J
  <2> QED BY <1>5, <2>1, <2>2, <2>3
<1>7. Joined(W, org) = Joined(E, merged[k])
  <2> DEFINE m == From(org, org.sources \cup kept[k].sources)
  <2>1. merged[k] = m
    BY <1>1
  <2>2. SameEntity(m, org) /\ m.sources = org.sources \cup kept[k].sources
        /\ \A T : From(m, T) = From(org, T)
    BY OrgFrom DEF SameEntity
  <2> HIDE DEF m, merged, W
  <2>3. Like(E, m) = Like(E, org)
    BY <2>2, SameAreLike
  <2>4. Joined(E, m) = From(org, (org.sources \cup kept[k].sources) \cup Tags(Like(E, org)))
    BY <2>2, <2>3 DEF Joined
  <2>5. Joined(W, org) = From(org, org.sources \cup (kept[k].sources \cup Tags(Like(E, org))))
    BY <1>6 DEF Joined
  <2>6. (org.sources \cup kept[k].sources) \cup Tags(Like(E, org))
        = org.sources \cup (kept[k].sources \cup Tags(Like(E, org)))
    OBVIOUS
  <2> QED BY <2>1, <2>4, <2>5, <2>6
<1>8. Rest = {e \in E : \A j \in DOMAIN merged : ~SameEntity(merged[j], e)}
  <2>1. \A j \in DOMAIN kept : SameEntity(merged[j], kept[j])
    <3>1. SameEntity(From(org, org.sources \cup kept[k].sources), org)
      BY OrgFrom DEF SameEntity
    <3> HIDE DEF merged
    <3> QED BY <1>1, <3>1, Sameness
  <2> HIDE DEF merged
  <2>2. \A e : \A j \in DOMAIN kept : SameEntity(kept[j], e) <=> SameEntity(merged[j], e)
    BY <2>1, Sameness
  <2> QED BY <1>1, <2>2
<1>9. W \ {J(k)} = Rest \cup {J(j) : j \in DOMAIN kept \ {k}}
  <2>1. \A j \in DOMAIN kept : j # k => J(j) # J(k)
    <3> HIDE DEF J
    <3> QED BY <1>3
  <2>2. J(k) \notin Rest
    <3> HIDE DEF J, Rest
    <3> QED BY <1>3, <1>4
  <2> HIDE DEF J, W, Rest
  <2> QED BY <1>2, <2>1, <2>2
<1>10. {Joined(E, merged[j]) : j \in DOMAIN merged}
       = {J(j) : j \in DOMAIN kept \ {k}} \cup {Joined(E, merged[k])}
  <2> HIDE DEF merged
  <2>1. \A j \in DOMAIN kept \ {k} : Joined(E, merged[j]) = J(j)
    BY <1>1
  <2> HIDE DEF J
  <2> QED BY <1>1, <2>1
<1>11. _entity_update(W, org) = (W \ Like(W, org)) \cup {Joined(W, org)}
  BY UpdateJoins
<1>12. Written(E, merged) = Rest \cup {Joined(E, merged[j]) : j \in DOMAIN merged}
  BY <1>8 DEF Written
<1> HIDE DEF W, Rest, merged, J
<1>13. _entity_update(W, org) = Written(E, merged)
  BY <1>5, <1>7, <1>9, <1>10, <1>11, <1>12
<1> QED BY <1>13 DEF W, merged

LEMMA WrittenStep ==
    ASSUME NEW E, NEW kept, Orgs(kept), Distinct(kept), NEW org, IsOrg(org)
    PROVE  _entity_update(Written(E, kept), org) = Written(E, Collapsed(kept, org))
<1>1. CASE \E k \in DOMAIN kept : SameEntity(kept[k], org)
  BY <1>1, WrittenAgain
<1>2. CASE ~\E k \in DOMAIN kept : SameEntity(kept[k], org)
  BY <1>2, WrittenNew DEF Collapsed
<1> QED BY <1>1, <1>2

\* Writing one organisation after the other does what writing them collapsed does, ...
LEMMA SequentialIsWritten ==
    ASSUME NEW E, NEW orgs, Orgs(orgs)
    PROVE  /\ Orgs(_collapse_entity_ops(orgs)) /\ Distinct(_collapse_entity_ops(orgs))
           /\ UpsertAll(E, orgs) = Written(E, _collapse_entity_ops(orgs))
<1> DEFINE n == Len(orgs)
<1>1. n \in Nat /\ DOMAIN orgs = 1..n
  BY LengthOfList DEF Orgs
<1>2. PICK f : /\ f[0] = <<>>
               /\ \A k \in 1..n : f[k] = Collapsed(f[k - 1], orgs[k])
               /\ _collapse_entity_ops(orgs) = f[n]
  BY CollapseGoes DEF Orgs
<1>3. PICK g : /\ g[0] = E
               /\ \A k \in 1..n : g[k] = _entity_update(g[k - 1], orgs[k])
               /\ UpsertAll(E, orgs) = g[n]
  BY UpsertGoes DEF Orgs
<1> DEFINE Holds(k) == Orgs(f[k]) /\ Distinct(f[k]) /\ g[k] = Written(E, f[k])
           K == {k \in 0..n : Holds(k)}
<1>4. 0 \in K
  <2>1. Orgs(<<>>) /\ Distinct(<<>>) /\ Written(E, <<>>) = E
    BY DEF Orgs, IsList, Distinct, Written
  <2> QED BY <1>1, <1>2, <1>3, <2>1
<1>5. ASSUME NEW k \in 1..n, k - 1 \in K PROVE k \in K
  <2>1. Holds(k - 1)
    BY <1>5
  <2>2. IsOrg(orgs[k])
    BY <1>1 DEF Orgs
  <2>3. f[k] = Collapsed(f[k - 1], orgs[k]) /\ g[k] = _entity_update(g[k - 1], orgs[k])
    BY <1>2, <1>3
  <2>4. Holds(k)
    BY <2>1, <2>2, <2>3, CollapsedDistinct, WrittenStep
  <2> HIDE DEF Holds
  <2> QED BY <1>1, <2>4
<1>6. n \in K
  <2>1. Writes!Hereditary(K, n)
    <3> HIDE DEF K
    <3> QED BY <1>4, <1>5 DEF Writes!Hereditary
  <2> HIDE DEF K
  <2> QED BY <1>1, <2>1, Writes!BoundedInduction
<1> QED BY <1>2, <1>3, <1>6

\* ... and collapsing what is collapsed changes nothing.
LEMMA DistinctStay ==
    ASSUME NEW orgs, Orgs(orgs), Distinct(orgs)
    PROVE  _collapse_entity_ops(orgs) = orgs
<1> DEFINE n == Len(orgs)
<1>1. n \in Nat /\ DOMAIN orgs = 1..n /\ orgs = [k \in 1..n |-> orgs[k]]
  BY LengthOfList DEF Orgs
<1>2. PICK f : /\ f[0] = <<>>
               /\ \A k \in 1..n : f[k] = Collapsed(f[k - 1], orgs[k])
               /\ _collapse_entity_ops(orgs) = f[n]
  BY CollapseGoes DEF Orgs
<1> DEFINE Holds(k) == f[k] = [j \in 1..k |-> orgs[j]]
           K == {k \in 0..n : Holds(k)}
<1>3. 0 \in K
  <2>1. [j \in 1..0 |-> orgs[j]] = <<>>
    OBVIOUS
  <2> QED BY <1>1, <1>2, <2>1
<1>4. ASSUME NEW k \in 1..n, k - 1 \in K PROVE k \in K
  <2> DEFINE kept == f[k - 1]
  <2>1. kept = [j \in 1..(k - 1) |-> orgs[j]] /\ k - 1 \in Nat
    BY <1>1, <1>4
  <2> HIDE DEF kept
  <2>2. IsList(kept) /\ Len(kept) = k - 1 /\ DOMAIN kept = 1..(k - 1)
        /\ \A j \in 1..(k - 1) : kept[j] = orgs[j]
    <3>1. kept = [j \in 1..(k - 1) |-> kept[j]] /\ \A j \in 1..(k - 1) : kept[j] = orgs[j]
      BY <2>1
    <3> QED BY <2>1, <3>1, ListByLength
  <2>3. ~\E j \in DOMAIN kept : SameEntity(kept[j], orgs[k])
    <3>1. \A j \in 1..(k - 1) : j \in DOMAIN orgs /\ j # k /\ k \in DOMAIN orgs
      BY <1>1
    <3> QED BY <2>2, <3>1 DEF Distinct
  <2>4. f[k] = Append(kept, orgs[k])
    BY <1>2, <2>3 DEF Collapsed, kept
  <2> DEFINE more == Append(kept, orgs[k])
  <2>5. /\ more = [j \in 1..(Len(kept) + 1) |-> more[j]]
        /\ more[Len(kept) + 1] = orgs[k] /\ \A j \in 1..Len(kept) : more[j] = kept[j]
    BY <2>2, AppendedList
  <2> HIDE DEF more
  <2>6. (k - 1) + 1 = k /\ \A j \in 1..k : j = k \/ j \in 1..(k - 1)
    BY <1>1
  <2>7. more = [j \in 1..k |-> more[j]] /\ \A j \in 1..k : more[j] = orgs[j]
    BY <2>2, <2>5, <2>6
  <2>8. Holds(k)
    BY <2>4, <2>7 DEF more
  <2> HIDE DEF Holds
  <2> QED BY <1>1, <2>8
<1>5. n \in K
  <2>1. Writes!Hereditary(K, n)
    <3> HIDE DEF K
    <3> QED BY <1>3, <1>4 DEF Writes!Hereditary
  <2> HIDE DEF K
  <2> QED BY <1>1, <2>1, Writes!BoundedInduction
<1> QED BY <1>1, <1>2, <1>5

LEMMA CollapseSound ==
    ASSUME NEW E, NEW orgs, Orgs(orgs)
    PROVE  bulk_write_entities(E, orgs) = UpsertAll(E, orgs)
<1> DEFINE ops == _collapse_entity_ops(orgs)
<1>1. Orgs(ops) /\ Distinct(ops) /\ UpsertAll(E, orgs) = Written(E, ops)
  BY SequentialIsWritten
<1> HIDE DEF ops
<1>2. UpsertAll(E, ops) = Written(E, _collapse_entity_ops(ops)) /\ _collapse_entity_ops(ops) = ops
  BY <1>1, SequentialIsWritten, DistinctStay
<1> QED BY <1>1, <1>2 DEF bulk_write_entities, ops

-----------------------------------------------------------------------------
(* Notices *)

IsNotice(n) ==
    /\ Hashed \subseteq DOMAIN n
    /\ n.procurer # None => IsOrg(n.procurer)
    /\ IsList(n.awards) /\ \A k \in DOMAIN n.awards : IsOrg(n.awards[k].supplier)

AreNotices(s) == IsList(s) /\ \A k \in DOMAIN s : IsNotice(s[k])

LEMMA OrganisationIsOne ==
    ASSUME NEW ico, NEW name, NEW sources, NEW value
    PROVE  /\ IsOrg(Organisation(ico, name, sources))
           /\ Award(Organisation(ico, name, sources), value).supplier = Organisation(ico, name, sources)
BY DEF IsOrg, Organisation, Award

\* A notice made of a procurer and of awards.
LEMMA NoticeOfParts ==
    ASSUME NEW source, NEW id, NEW type, NEW title, NEW procurer, NEW awards, NEW cpv,
           NEW estimated, NEW final, NEW day,
           procurer # None => IsOrg(procurer),
           IsList(awards), \A k \in DOMAIN awards : IsOrg(awards[k].supplier)
    PROVE  IsNotice(CanonicalNotice(source, id, type, title, procurer, awards, cpv, estimated, final, day))
<1> DEFINE n == CanonicalNotice(source, id, type, title, procurer, awards, cpv, estimated, final, day)
<1>1. /\ Hashed \subseteq DOMAIN n
      /\ n.procurer = procurer /\ n.awards = awards
  BY DEF CanonicalNotice, Hashed
<1> HIDE DEF n
<1>2. IsNotice(n)
  BY <1>1 DEF IsNotice
<1> QED BY <1>2 DEF n

\* The awards that a comprehension with a test makes of a list.
LEMMA AwardsOfList ==
    ASSUME NEW s, IsList(s), NEW parts, parts = [k \in DOMAIN s |-> parts[k]],
           \A k \in DOMAIN s : IsList(parts[k]) /\ \A j \in DOMAIN parts[k] : IsOrg(parts[k][j].supplier)
    PROVE  LET awards == FlattenSeq(parts)
           IN IsList(awards) /\ \A i \in DOMAIN awards : IsOrg(awards[i].supplier)
<1> DEFINE awards == FlattenSeq(parts)
<1>1. IsList(parts) /\ DOMAIN parts = DOMAIN s
  BY MappedList
<1>2. IsList(awards) /\ \A i \in DOMAIN awards : \E k \in DOMAIN parts :
                            \E j \in DOMAIN parts[k] : awards[i] = parts[k][j]
  BY <1>1, FlattenedList
<1> HIDE DEF awards
<1>3. \A i \in DOMAIN awards : IsOrg(awards[i].supplier)
  BY <1>1, <1>2
<1> QED BY <1>2, <1>3 DEF awards

LEMMA VestnikNotice ==
    ASSUME NEW raw, WellFormed("vestnik", raw)
    PROVE  IsNotice(transform_notice(raw))
<1>1. IsList(raw.lots) /\ \A k \in DOMAIN raw.lots : IsList(raw.lots[k].tenders)
  BY DEF WellFormed
<1> DEFINE orgs == _build_org_map(raw)
           parties == _build_tp_map(raw)
           tenders == _build_tender_map(raw)
           Linked(ten) ==
              /\ ten \in DOMAIN tenders
              /\ tenders[ten].party \in DOMAIN parties
              /\ parties[tenders[ten].party].tenderer \in DOMAIN orgs
           Winner(ten) == orgs[parties[tenders[ten].party].tenderer]
           Won(lot, ten) ==
              Award(Organisation(Winner(ten).ico, Winner(ten).name, {"vestnik", "uvo"}),
                    ValueOr(_parse_float(tenders[ten].value), _parse_float(lot.value)))
           Each(lot) == [k \in DOMAIN lot.tenders |-> Only(Linked(lot.tenders[k]), Won(lot, lot.tenders[k]))]
           OfLot(lot) == IF lot.outcome # "selec-w" THEN NoAward ELSE FlattenSeq(Each(lot))
           parts == [k \in DOMAIN raw.lots |-> OfLot(raw.lots[k])]
<1>2. VestnikAwards(raw) = FlattenSeq(parts)
  BY DEF VestnikAwards
<1>3. ASSUME NEW k \in DOMAIN raw.lots
      PROVE  IsList(parts[k]) /\ \A j \in DOMAIN parts[k] : IsOrg(parts[k][j].supplier)
  <2> DEFINE lot == raw.lots[k]
             each == Each(lot)
  <2>1. \A ten : IsOrg(Won(lot, ten).supplier)
    BY OrganisationIsOne
  <2>2. ASSUME NEW j \in DOMAIN lot.tenders
        PROVE  IsList(each[j]) /\ \A i \in DOMAIN each[j] : IsOrg(each[j][i].supplier)
    <3>1. each[j] = Only(Linked(lot.tenders[j]), Won(lot, lot.tenders[j]))
      <4> HIDE DEF Linked, Won
      <4> QED OBVIOUS
    <3>2. Linked(lot.tenders[j]) \in BOOLEAN
      OBVIOUS
    <3> HIDE DEF Linked, Won, each
    <3> QED BY <2>1, <3>1, <3>2, OnlyList
  <2>3. each = [j \in DOMAIN lot.tenders |-> each[j]]
    <3> HIDE DEF Linked, Won
    <3> QED OBVIOUS
  <2> DEFINE all == FlattenSeq(each)
  <2>4. IsList(all) /\ \A i \in DOMAIN all : IsOrg(all[i].supplier)
    <3> HIDE DEF each
    <3> QED BY <1>1, <2>2, <2>3, AwardsOfList
  <2>5. IsList(NoAward) /\ DOMAIN NoAward = {}
    BY DEF NoAward, IsList
  <2>6. parts[k] = IF lot.outcome # "selec-w" THEN NoAward ELSE all
    <3> HIDE DEF Each
    <3> QED OBVIOUS
  <2> HIDE DEF parts, all
  <2> QED BY <2>4, <2>5, <2>6
<1>4. parts = [k \in DOMAIN raw.lots |-> parts[k]]
  <2> HIDE DEF OfLot
  <2> QED OBVIOUS
<1>5. IsList(VestnikAwards(raw)) /\ \A i \in DOMAIN VestnikAwards(raw) : IsOrg(VestnikAwards(raw)[i].supplier)
  <2> HIDE DEF parts
  <2> QED BY <1>1, <1>2, <1>3, <1>4, AwardsOfList
<1> HIDE DEF orgs, parties, tenders, Linked, Winner, Won, Each, OfLot, parts
<1>6. \A ico, name : IsOrg(Organisation(ico, name, {"vestnik", "uvo"}))
  BY OrganisationIsOne
<1> QED BY <1>5, <1>6, NoticeOfParts DEF transform_notice

LEMMA CrzNotice ==
    ASSUME NEW raw
    PROVE  IsNotice(transform_contract(raw))
<1> DEFINE Party(name, raw_cin, cin) ==
              IF name = None THEN None ELSE Organisation(_coerce_ico(raw_cin, cin), name, {"crz"})
           supplier == Party(raw.supplier, raw.supplier_cin_raw, raw.supplier_cin)
           award == Award(supplier, _parse_float(raw.total))
           awards == IF supplier = None THEN NoAward ELSE <<award>>
           procurer == Party(raw.authority, raw.authority_cin_raw, raw.authority_cin)
<1>1. \A name, raw_cin, cin : Party(name, raw_cin, cin) # None => IsOrg(Party(name, raw_cin, cin))
  BY OrganisationIsOne
<1>2. award.supplier = supplier
  BY DEF Award
<1> HIDE DEF Party
<1>3. procurer # None => IsOrg(procurer)
  BY <1>1
<1>4. supplier # None => IsOrg(award.supplier)
  BY <1>1, <1>2
<1>5. transform_contract(raw) = CanonicalNotice("crz", raw.id, "contract_award", raw.title, procurer, awards,
                                    <<>>, _parse_float(raw.amount), _parse_float(raw.total),
                                    _resolve_signing_date(raw))
  BY DEF transform_contract, Party
<1> HIDE DEF award, supplier
<1>6. IsList(awards) /\ \A k \in DOMAIN awards : IsOrg(awards[k].supplier)
  <2> DEFINE one == <<award>>
  <2>1. one \in Seq({award}) /\ NoAward \in Seq({award}) /\ DOMAIN NoAward = {}
    BY DEF NoAward
  <2> HIDE DEF one
  <2>2. IsList(one) /\ IsList(NoAward) /\ \A k \in DOMAIN one : one[k] = award
    <3>1. IsList(one) /\ \A k \in DOMAIN one : one[k] \in {award}
      BY <2>1, ListOver
    <3>2. IsList(NoAward)
      BY <2>1, ListOver
    <3> QED BY <3>1, <3>2
  <2> QED BY <1>4, <2>1, <2>2 DEF one
<1> HIDE DEF awards, procurer
<1> QED BY <1>3, <1>5, <1>6, NoticeOfParts

LEMMA TedNotice ==
    ASSUME NEW raw, WellFormed("ted", raw)
    PROVE  IsNotice(transform_ted_notice(raw))
<1>1. IsList(raw.winners) /\ IsList(raw.tenderers)
  BY DEF WellFormed
<1>2. \A ico, name : IsOrg(Organisation(ico, name, {"ted"}))
  BY OrganisationIsOne
<1> DEFINE names == IF raw.winners # <<>> THEN raw.winners ELSE raw.tenderers
           awards == TedAwards(raw)
<1>3. IsList(names)
  BY <1>1
<1>4. awards = [k \in DOMAIN names |-> awards[k]]
  <2>1. PICK ico, Value : awards = [k \in DOMAIN names |-> Award(Organisation(ico, names[k], {"ted"}), Value[k])]
    <3> DEFINE ids == IF raw.winner_ids # <<>> THEN raw.winner_ids ELSE raw.tenderer_ids
               ico == IF \E i \in DOMAIN ids : ids[i].ico THEN FirstThat(ids, LAMBDA i : i.ico).id ELSE None
               whole == _first_float(IF raw.result # <<>> THEN raw.result ELSE raw.tender_value)
               Value == [k \in DOMAIN names |->
                            IF k \in DOMAIN raw.lot_values /\ raw.lot_values[k] # NoValue
                              THEN _parse_float(raw.lot_values[k]) ELSE whole]
    <3>1. awards = [k \in DOMAIN names |-> Award(Organisation(ico, names[k], {"ted"}), Value[k])]
      BY DEF TedAwards
    <3> HIDE DEF awards, names, ids, ico, whole, Value
    <3> QED BY <3>1
  <2> HIDE DEF awards, names
  <2> QED BY <2>1
<1>5. \A k \in DOMAIN names : IsOrg(awards[k].supplier)
  BY OrganisationIsOne DEF TedAwards
<1> HIDE DEF awards, names
<1>6. IsList(awards) /\ DOMAIN awards = DOMAIN names
  BY <1>3, <1>4, MappedList
<1> QED BY <1>2, <1>5, <1>6, NoticeOfParts DEF transform_ted_notice, awards

LEMMA ItmsNotice ==
    ASSUME NEW raw, WellFormed("itms", raw)
    PROVE  IsNotice(transform_procurement(raw))
<1>1. IsList(raw.contracts) /\ \A k \in DOMAIN raw.contracts : IsList(raw.contracts[k].suppliers)
  BY DEF WellFormed
<1>2. \A ico, name : IsOrg(Organisation(ico, name, {"itms"}))
  BY OrganisationIsOne
<1>3. ItmsProcurer(raw) # None => IsOrg(ItmsProcurer(raw))
  BY <1>2 DEF ItmsProcurer
<1> DEFINE Named(c) == IF c.suppliers # <<>> THEN c.suppliers ELSE <<c.main>>
           Each(c) == [k \in DOMAIN Named(c) |->
                          Only(Named(c)[k] # NoSubject, _make_award(Named(c)[k], c.value))]
           parts == [k \in DOMAIN raw.contracts |-> FlattenSeq(Each(raw.contracts[k]))]
<1>4. ItmsAwards(raw) = FlattenSeq(parts)
  BY DEF ItmsAwards
<1>5. ASSUME NEW k \in DOMAIN raw.contracts
      PROVE  IsList(parts[k]) /\ \A j \in DOMAIN parts[k] : IsOrg(parts[k][j].supplier)
  <2> DEFINE c == raw.contracts[k]
             named == Named(c)
             each == Each(c)
  <2>1. IsList(named)
    <3>1. <<c.main>> \in Seq({c.main})
      OBVIOUS
    <3> QED BY <1>1, <3>1, ListOver
  <2>2. ASSUME NEW j \in DOMAIN named
        PROVE  IsList(each[j]) /\ \A i \in DOMAIN each[j] : IsOrg(each[j][i].supplier)
    <3>1. each[j] = Only(named[j] # NoSubject, _make_award(named[j], c.value))
      OBVIOUS
    <3>2. IsOrg(_make_award(named[j], c.value).supplier)
      BY OrganisationIsOne DEF _make_award
    <3> HIDE DEF each, named
    <3> QED BY <3>1, <3>2, OnlyList
  <2>3. each = [j \in DOMAIN named |-> each[j]]
    OBVIOUS
  <2>4. parts[k] = FlattenSeq(each)
    <3> HIDE DEF Each
    <3> QED OBVIOUS
  <2> HIDE DEF each, named, parts
  <2> QED BY <2>1, <2>2, <2>3, <2>4, AwardsOfList
<1>6. parts = [k \in DOMAIN raw.contracts |-> parts[k]]
  <2> HIDE DEF Each
  <2> QED OBVIOUS
<1>7. IsList(ItmsAwards(raw)) /\ \A i \in DOMAIN ItmsAwards(raw) : IsOrg(ItmsAwards(raw)[i].supplier)
  <2> HIDE DEF parts
  <2> QED BY <1>1, <1>4, <1>5, <1>6, AwardsOfList
<1> QED BY <1>3, <1>7, NoticeOfParts DEF transform_procurement

\* What any source sends, transformed.
LEMMA TransformedNotice ==
    ASSUME NEW source \in {"vestnik", "crz", "ted", "itms"}, NEW raw, WellFormed(source, raw)
    PROVE  IsNotice(Transform(source, raw))
<1>1. CASE source = "vestnik"
  BY <1>1, VestnikNotice DEF Transform
<1>2. CASE source = "crz"
  BY <1>2, CrzNotice DEF Transform
<1>3. CASE source = "ted"
  BY <1>3, TedNotice DEF Transform
<1>4. CASE source = "itms"
  BY <1>4, ItmsNotice DEF Transform
<1> QED BY <1>1, <1>2, <1>3, <1>4

\* What ITMS sends is a record still when a request for a part of it failed.
LEMMA FetchedProcurement ==
    ASSUME NEW raw, WellFormed("itms", raw), NEW had
    PROVE  WellFormed("itms", fetch_procurements(raw, had))
<1>1. /\ {"contracts", "id"} \subseteq DOMAIN raw /\ raw.id \in Nat
      /\ IsList(raw.contracts)
      /\ \A k \in DOMAIN raw.contracts :
            "suppliers" \in DOMAIN raw.contracts[k] /\ IsList(raw.contracts[k].suppliers)
  BY DEF WellFormed
<1> DEFINE Inline(c) == [c EXCEPT !.main.name = None,
                                  !.suppliers = [k \in DOMAIN @ |-> [@[k] EXCEPT !.name = None]]]
           inlined == [k \in DOMAIN raw.contracts |-> Inline(raw.contracts[k])]
           got == fetch_procurements(raw, had)
<1>2. /\ {"contracts", "id"} \subseteq DOMAIN got /\ got.id = raw.id
      /\ got.contracts \in {<<>>, raw.contracts, inlined}
  BY <1>1 DEF fetch_procurements
<1>3. ASSUME NEW k \in DOMAIN raw.contracts
      PROVE  "suppliers" \in DOMAIN inlined[k] /\ IsList(inlined[k].suppliers)
  <2> DEFINE c == raw.contracts[k]
             t == [j \in DOMAIN c.suppliers |-> [c.suppliers[j] EXCEPT !.name = None]]
  <2>1. "suppliers" \in DOMAIN inlined[k] /\ inlined[k].suppliers = t
    BY <1>1
  <2>2. t = [j \in DOMAIN c.suppliers |-> t[j]]
    OBVIOUS
  <2> HIDE DEF t
  <2> QED BY <1>1, <2>1, <2>2, MappedList
<1>4. IsList(inlined) /\ DOMAIN inlined = DOMAIN raw.contracts
  <2>1. inlined = [k \in DOMAIN raw.contracts |-> inlined[k]]
    <3> HIDE DEF Inline
    <3> QED OBVIOUS
  <2> HIDE DEF inlined
  <2> QED BY <1>1, <2>1, MappedList
<1>5. IsList(<<>>) /\ DOMAIN <<>> = {}
  BY DEF IsList
<1> HIDE DEF got, inlined
<1> QED BY <1>1, <1>2, <1>3, <1>4, <1>5 DEF WellFormed, got

-----------------------------------------------------------------------------
(* A chunk of notices, and what is taken from it *)

Raws(source, s) == IsList(s) /\ \A k \in DOMAIN s : WellFormed(source, s[k])

LEMMA TransformedList ==
    ASSUME run.stage \in 1..4, NEW raws, Raws(Source, raws)
    PROVE  AreNotices(Transformed(raws))
<1> DEFINE parts == [k \in DOMAIN raws |-> Only(Transforms(Source, raws[k]), Transform(Source, raws[k]))]
<1>1. Source \in {"vestnik", "crz", "ted", "itms"}
  BY DEF Source, Stages
<1>2. Transformed(raws) = FlattenSeq(parts)
  BY DEF Transformed
<1>3. parts = [k \in DOMAIN raws |-> parts[k]] /\ IsList(raws)
  BY DEF Raws
<1>4. ASSUME NEW k \in DOMAIN raws
      PROVE  IsList(parts[k]) /\ \A j \in DOMAIN parts[k] : IsNotice(parts[k][j])
  <2>1. Transforms(Source, raws[k]) \in BOOLEAN
    BY DEF Transforms
  <2>2. IsNotice(Transform(Source, raws[k]))
    BY <1>1, TransformedNotice DEF Raws
  <2>3. parts[k] = Only(Transforms(Source, raws[k]), Transform(Source, raws[k]))
    OBVIOUS
  <2> HIDE DEF parts
  <2> QED BY <2>1, <2>2, <2>3, OnlyList
<1> HIDE DEF parts
<1>5. IsList(parts) /\ DOMAIN parts = DOMAIN raws
  BY <1>3, MappedList
<1> DEFINE all == Transformed(raws)
<1>6. IsList(all) /\ \A i \in DOMAIN all : \E k \in DOMAIN parts :
                         \E j \in DOMAIN parts[k] : all[i] = parts[k][j]
  BY <1>2, <1>4, <1>5, FlattenedList
<1> HIDE DEF all
<1>7. AreNotices(all)
  BY <1>4, <1>5, <1>6 DEF AreNotices
<1> QED BY <1>7 DEF all

LEMMA DedupedFolds ==
    ASSUME NEW batch, NEW c PROVE deduped(batch) = Replaces!Fold(c, <<>>, batch)
BY DEF deduped, FoldLeft, MapThenFoldSet, Max,
       Replaces!Fold, Replaces!MapThenFoldSet, Replaces!Greatest

LEMMA ReplacedOver ==
    ASSUME NEW X, NEW kept \in Seq(X), NEW n \in X
    PROVE  Replaced(kept, n) \in Seq(X)
<1> DEFINE t == [k \in DOMAIN kept |-> IF KeyOf(kept[k]) = KeyOf(n) THEN n ELSE kept[k]]
<1>1. t \in Seq(X)
  <2>1. IsList(kept) /\ \A k \in DOMAIN kept : kept[k] \in X
    BY ListOver
  <2>2. t = [k \in DOMAIN kept |-> t[k]] /\ \A k \in DOMAIN kept : t[k] \in X
    BY <2>1
  <2> HIDE DEF t
  <2>3. IsList(t) /\ DOMAIN t = DOMAIN kept
    BY <2>1, <2>2, MappedList
  <2> QED BY <2>2, <2>3, ListOver
<1>2. Append(kept, n) \in Seq(X)
  BY AppendProperties
<1> HIDE DEF t
<1>3. Replaced(kept, n) \in {t, Append(kept, n)}
  BY DEF Replaced, t
<1> QED BY <1>1, <1>2, <1>3

\* The deduplicated batch holds notices of the batch.
LEMMA DedupedList ==
    ASSUME NEW batch, AreNotices(batch)
    PROVE  AreNotices(deduped(batch))
<1> DEFINE X == ToSet(batch)
<1>1. batch \in Seq(X) /\ \A x \in X : IsNotice(x)
  BY DEF AreNotices, IsList, ToSet
<1>2. \A k \in DOMAIN batch : Replaces!Keeps(X, batch[k])
  <2>1. \A k \in DOMAIN batch : batch[k] \in X
    BY DEF ToSet
  <2> HIDE DEF X
  <2> QED BY <2>1, ReplacedOver DEF Replaces!Keeps, ListIn
<1>3. ListIn(X, <<>>)
  BY DEF ListIn
<1> HIDE DEF X
<1>4. ListIn(X, Replaces!Fold(X, <<>>, batch))
  BY <1>1, <1>2, <1>3, Replaces!FoldKeeps
<1>5. deduped(batch) \in Seq(X)
  BY <1>4, DedupedFolds DEF ListIn
<1> QED BY <1>1, <1>5, ListOver DEF AreNotices

\* A part of a list of notices, and two such lists in a row.
LEMMA NoticesApart ==
    ASSUME NEW s, AreNotices(s), NEW m \in Nat \ {0}, NEW n \in 0..Len(s)
    PROVE  AreNotices(SubSeq(s, m, n)) /\ Len(SubSeq(s, m, n)) <= Len(s)
<1> DEFINE X == ToSet(s)
           t == SubSeq(s, m, n)
<1>1. s \in Seq(X) /\ \A x \in X : IsNotice(x)
  BY DEF AreNotices, IsList, ToSet
<1>2. t \in Seq(X) /\ Len(t) <= Len(s)
  <2> HIDE DEF X
  <2> QED BY <1>1, SubSeqOver
<1> HIDE DEF t, X
<1>3. AreNotices(t)
  BY <1>1, <1>2, ListOver DEF AreNotices
<1> QED BY <1>2, <1>3 DEF t

LEMMA NoticesJoined ==
    ASSUME NEW s, NEW t, AreNotices(s), AreNotices(t)
    PROVE  AreNotices(s \o t)
<1> DEFINE X == ToSet(s) \cup ToSet(t)
           u == s \o t
<1>1. \A x \in X : IsNotice(x)
  BY DEF AreNotices, ToSet
<1>2. s \in Seq(X) /\ t \in Seq(X)
  BY SeqMonotonic DEF AreNotices, IsList
<1> HIDE DEF X
<1>3. u \in Seq(X)
  BY <1>2, ConcatProperties
<1> HIDE DEF u
<1>4. AreNotices(u)
  BY <1>1, <1>3, ListOver DEF AreNotices
<1> QED BY <1>4 DEF u

LEMMA UpsertedList ==
    ASSUME NEW registry, NEW batch, AreNotices(batch)
    PROVE  AreNotices(ToUpsert(registry, batch))
<1> DEFINE kept == deduped(batch)
           parts == [k \in DOMAIN kept |-> Only(~unchanged(registry, kept[k]), kept[k])]
           all == ToUpsert(registry, batch)
<1>1. AreNotices(kept)
  BY DedupedList
<1>2. all = FlattenSeq(parts)
  BY DEF ToUpsert
<1> HIDE DEF kept
<1>3. parts = [k \in DOMAIN kept |-> parts[k]]
  OBVIOUS
<1>4. ASSUME NEW k \in DOMAIN kept
      PROVE  IsList(parts[k]) /\ \A j \in DOMAIN parts[k] : IsNotice(parts[k][j])
  <2> DEFINE new == ~unchanged(registry, kept[k])
  <2>1. new \in BOOLEAN /\ parts[k] = Only(new, kept[k])
    OBVIOUS
  <2> HIDE DEF parts, new
  <2> QED BY <1>1, <2>1, OnlyList DEF AreNotices
<1> HIDE DEF parts
<1>5. IsList(parts) /\ DOMAIN parts = DOMAIN kept
  BY <1>1, <1>3, MappedList DEF AreNotices
<1> HIDE DEF all
<1>6. IsList(all) /\ \A i \in DOMAIN all : \E k \in DOMAIN parts :
                         \E j \in DOMAIN parts[k] : all[i] = parts[k][j]
  BY <1>2, <1>4, <1>5, FlattenedList
<1>7. AreNotices(all)
  BY <1>4, <1>5, <1>6 DEF AreNotices
<1> QED BY <1>7 DEF all

LEMMA ProcurersList ==
    ASSUME NEW batch, AreNotices(batch)
    PROVE  Orgs(ProcurersOf(batch))
<1> DEFINE parts == [k \in DOMAIN batch |-> Only(batch[k].procurer # None, batch[k].procurer)]
           all == ProcurersOf(batch)
<1>1. all = FlattenSeq(parts)
  BY DEF ProcurersOf
<1>2. parts = [k \in DOMAIN batch |-> parts[k]]
  OBVIOUS
<1>3. ASSUME NEW k \in DOMAIN batch
      PROVE  IsList(parts[k]) /\ \A j \in DOMAIN parts[k] : IsOrg(parts[k][j])
  <2> DEFINE named == batch[k].procurer # None
  <2>1. named \in BOOLEAN /\ parts[k] = Only(named, batch[k].procurer)
    OBVIOUS
  <2>2. named => IsOrg(batch[k].procurer)
    BY DEF AreNotices, IsNotice
  <2> HIDE DEF parts, named
  <2> QED BY <2>1, <2>2, OnlyList
<1> HIDE DEF parts
<1>4. IsList(parts) /\ DOMAIN parts = DOMAIN batch
  BY <1>2, MappedList DEF AreNotices
<1> HIDE DEF all
<1>5. IsList(all) /\ \A i \in DOMAIN all : \E k \in DOMAIN parts :
                         \E j \in DOMAIN parts[k] : all[i] = parts[k][j]
  BY <1>1, <1>3, <1>4, FlattenedList
<1>6. Orgs(all)
  BY <1>3, <1>4, <1>5 DEF Orgs
<1> QED BY <1>6 DEF all

LEMMA SuppliersList ==
    ASSUME NEW batch, AreNotices(batch)
    PROVE  Orgs(SuppliersOf(batch))
<1> DEFINE Each(n) == [j \in DOMAIN n.awards |-> n.awards[j].supplier]
           parts == [k \in DOMAIN batch |-> Each(batch[k])]
           all == SuppliersOf(batch)
<1>1. all = FlattenSeq(parts)
  BY DEF SuppliersOf
<1>2. parts = [k \in DOMAIN batch |-> parts[k]]
  OBVIOUS
<1>3. ASSUME NEW k \in DOMAIN batch
      PROVE  IsList(parts[k]) /\ \A j \in DOMAIN parts[k] : IsOrg(parts[k][j])
  <2> DEFINE n == batch[k]
             each == Each(n)
  <2>1. IsNotice(n)
    BY DEF AreNotices
  <2>2. parts[k] = each
    OBVIOUS
  <2>3. each = [j \in DOMAIN n.awards |-> each[j]] /\ \A j \in DOMAIN n.awards : each[j] = n.awards[j].supplier
    OBVIOUS
  <2> HIDE DEF parts, each, n
  <2>4. IsList(each) /\ DOMAIN each = DOMAIN n.awards
    BY <2>1, <2>3, MappedList DEF IsNotice
  <2> QED BY <2>1, <2>2, <2>3, <2>4 DEF IsNotice
<1> HIDE DEF parts
<1>4. IsList(parts) /\ DOMAIN parts = DOMAIN batch
  BY <1>2, MappedList DEF AreNotices
<1> HIDE DEF all
<1>5. IsList(all) /\ \A i \in DOMAIN all : \E k \in DOMAIN parts :
                         \E j \in DOMAIN parts[k] : all[i] = parts[k][j]
  BY <1>1, <1>3, <1>4, FlattenedList
<1>6. Orgs(all)
  BY <1>3, <1>4, <1>5 DEF Orgs
<1> QED BY <1>6 DEF all

-----------------------------------------------------------------------------
(* What a chunk does to the collections *)

\* What is written is the notice, with what $set leaves alone.
Over(kept, n) == [field \in DOMAIN n \cup DOMAIN kept |->
                     IF field \in DOMAIN n THEN n[field] ELSE kept[field]]
LEMMA NoticeWithKept ==
    ASSUME NEW store, NEW n, NEW id, NEW day
    PROVE  \E kept : upsert_notice(store, n, id, day)
              = (store \ {d \in store : KeyOf(d) = KeyOf(n)}) \cup {Over(kept, n)}
<1> DEFINE found == {d \in store : KeyOf(d) = KeyOf(n)}
           old == CHOOSE d \in found : TRUE
           kept == IF found = {}
                     THEN [ingested_at |-> day, canonical_id |-> None, pipeline_run_id |-> id]
                   ELSE [ingested_at |-> old.ingested_at, canonical_id |-> old.canonical_id,
                         pipeline_run_id |-> id]
<1>1. upsert_notice(store, n, id, day) = (store \ found) \cup {Over(kept, n)}
  BY DEF upsert_notice, Over
<1> HIDE DEF kept
<1> QED BY <1>1

LEMMA NoticeUpserted ==
    ASSUME NEW store, IsStore(store), NEW n, IsNotice(n), NEW id, NEW day
    PROVE  IsStore(upsert_notice(store, n, id, day))
<1> DEFINE found == {d \in store : KeyOf(d) = KeyOf(n)}
<1>1. PICK kept : upsert_notice(store, n, id, day) = (store \ found) \cup {Over(kept, n)}
  BY NoticeWithKept
<1> DEFINE new == Over(kept, n)
<1>2. Hashed \subseteq DOMAIN new /\ KeyOf(new) = KeyOf(n)
  BY DEF IsNotice, KeyOf, Hashed, Over
<1> HIDE DEF new
<1>3. upsert_notice(store, n, id, day) = (store \ found) \cup {new}
  BY <1>1 DEF new
<1> QED BY <1>2, <1>3 DEF IsStore

LEMMA WritesFold ==
    ASSUME NEW store, NEW registry, NEW batch, NEW failing, NEW id, NEW day
    PROVE  bulk_write_notices(store, registry, batch, failing, id, day)
              = Writes!Fold([failing |-> failing, run |-> id, today |-> day], store, ToUpsert(registry, batch))
BY DEF bulk_write_notices, FoldLeft, MapThenFoldSet, Max,
       Writes!Fold, Writes!MapThenFoldSet, Writes!Greatest

LEMMA StoreWritten ==
    ASSUME NEW store, IsStore(store), NEW registry, NEW batch, AreNotices(batch),
           NEW failing, NEW id, NEW day
    PROVE  IsStore(bulk_write_notices(store, registry, batch, failing, id, day))
<1> DEFINE c == [failing |-> failing, run |-> id, today |-> day]
           s == ToUpsert(registry, batch)
<1>1. AreNotices(s)
  BY UpsertedList
<1> HIDE DEF s
<1>2. \A k \in DOMAIN s : Writes!Keeps(c, s[k])
  BY <1>1, NoticeUpserted DEF Writes!Keeps, AreNotices
<1>3. IsStore(Writes!Fold(c, store, s))
  <2>1. s \in Seq(ToSet(s))
    BY <1>1 DEF AreNotices, IsList
  <2> HIDE DEF c
  <2> QED BY <1>2, <2>1, Writes!FoldKeeps
<1> QED BY <1>3, WritesFold DEF s

LEMMA RegistersFold ==
    ASSUME NEW registry, NEW batch, NEW failing
    PROVE  bulk_write_registry(registry, batch, failing)
              = Registers!Fold(failing, registry, ToUpsert(registry, batch))
BY DEF bulk_write_registry, FoldLeft, MapThenFoldSet, Max,
       Registers!Fold, Registers!MapThenFoldSet, Registers!Greatest

LEMMA RegistryWritten ==
    ASSUME NEW registry, IsRegistry(registry), NEW batch, AreNotices(batch), NEW failing
    PROVE  IsRegistry(bulk_write_registry(registry, batch, failing))
<1> DEFINE s == ToUpsert(registry, batch)
<1>1. AreNotices(s)
  BY UpsertedList
<1> HIDE DEF s
<1>2. ASSUME NEW R, IsRegistry(R), NEW n PROVE IsRegistry(upsert_registry(R, n))
  BY <1>2 DEF IsRegistry, upsert_registry, registry_entry
<1>3. \A k \in DOMAIN s : Registers!Keeps(failing, s[k])
  BY <1>2 DEF Registers!Keeps
<1>4. IsRegistry(Registers!Fold(failing, registry, s))
  <2>1. s \in Seq(ToSet(s))
    BY <1>1 DEF AreNotices, IsList
  <2> QED BY <1>3, <2>1, Registers!FoldKeeps
<1> QED BY <1>4, RegistersFold DEF s

LEMMA EntitiesWritten ==
    ASSUME NEW E, IsEntities(E), NEW orgs, Orgs(orgs)
    PROVE  IsEntities(bulk_write_entities(E, orgs))
<1>1. ASSUME NEW F, IsEntities(F), NEW org, IsOrg(org) PROVE IsEntities(_entity_update(F, org))
  <2>1. _entity_update(F, org) = (F \ Like(F, org)) \cup {Joined(F, org)}
    BY <1>1, UpdateJoins
  <2>2. SameEntity(Joined(F, org), org)
    BY <1>1, JoinedSame
  <2>3. \A e \in F : e \in Like(F, org) <=> SameEntity(org, e)
    BY Sameness DEF Like
  <2> QED BY <1>1, <2>1, <2>2, <2>3, Sameness DEF IsEntities
<1> DEFINE s == _collapse_entity_ops(orgs)
<1>2. Orgs(s)
  BY SequentialIsWritten
<1> HIDE DEF s
<1>3. \A k \in DOMAIN s : Upserts!Keeps({}, s[k])
  BY <1>1, <1>2 DEF Upserts!Keeps, Orgs
<1>4. IsEntities(Upserts!Fold({}, E, s))
  <2>1. s \in Seq(ToSet(s))
    BY <1>2 DEF Orgs, IsList
  <2> QED BY <1>3, <2>1, Upserts!FoldKeeps
<1> QED BY <1>4, UpsertFolds DEF bulk_write_entities, s

-----------------------------------------------------------------------------
(* What a source is asked for *)

\* A finite set of numbers has an upper bound, ...
LEMMA FiniteIsBounded ==
    ASSUME NEW S, IsFiniteSet(S), S \subseteq Nat
    PROVE  \E b \in Nat : \A x \in S : x <= b
<1>1. PICK s \in Seq(S) : \A x \in S : \E k \in 1..Len(s) : s[k] = x
  BY DEF IsFiniteSet
<1> DEFINE n == Len(s)
           Bounds(b, k) == b \in Nat /\ \A j \in 1..k : s[j] <= b
           K == {k \in 0..n : \E b : Bounds(b, k)}
<1>2. n \in Nat /\ \A k \in 1..n : s[k] \in Nat
  <2>1. n \in Nat /\ \A k \in 1..n : s[k] \in S
    BY LenProperties, ElementOfSeq
  <2> QED BY <2>1
<1> HIDE DEF n
<1>3. 0 \in K
  <2>1. Bounds(0, 0)
    OBVIOUS
  <2> HIDE DEF Bounds
  <2> QED BY <1>2, <2>1
<1>4. ASSUME NEW k \in 1..n, k - 1 \in K PROVE k \in K
  <2>1. PICK b : Bounds(b, k - 1)
    BY <1>4
  <2> DEFINE c == IF s[k] <= b THEN b ELSE s[k]
  <2>2. s[k] \in Nat /\ k \in Nat /\ \A j \in 1..k : j = k \/ j \in 1..(k - 1)
    BY <1>2
  <2>3. c \in Nat /\ b <= c /\ s[k] <= c
    BY <2>1, <2>2
  <2> HIDE DEF c
  <2>4. \A j \in 1..(k - 1) : s[j] \in Nat
    BY <1>2
  <2>5. Bounds(c, k)
    BY <2>1, <2>2, <2>3, <2>4
  <2> HIDE DEF Bounds
  <2> QED BY <1>2, <2>5
<1>5. n \in K
  <2>1. Writes!Hereditary(K, n)
    <3> HIDE DEF K
    <3> QED BY <1>3, <1>4 DEF Writes!Hereditary
  <2> HIDE DEF K
  <2> QED BY <1>2, <2>1, Writes!BoundedInduction
<1>6. PICK b : Bounds(b, n)
  BY <1>5
<1> QED BY <1>1, <1>6 DEF n

\* What a function makes of a finite set.
LEMMA FiniteImage ==
    ASSUME NEW S, IsFiniteSet(S), NEW f, f = [x \in S |-> f[x]]
    PROVE  IsFiniteSet({f[x] : x \in S})
<1> DEFINE T == {f[x] : x \in S}
<1>1. PICK s \in Seq(S) : \A x \in S : \E k \in 1..Len(s) : s[k] = x
  BY DEF IsFiniteSet
<1> DEFINE n == Len(s)
           t == [k \in 1..n |-> f[s[k]]]
<1>2. n \in Nat /\ \A k \in 1..n : s[k] \in S
  BY LenProperties, ElementOfSeq
<1> HIDE DEF n
<1>3. t \in [1..n -> T] /\ DOMAIN t = 1..n
  BY <1>2
<1>4. t \in Seq(T) /\ Len(t) = n
  <2> HIDE DEF t, T
  <2>1. t \in Seq(T)
    BY <1>2, <1>3
  <2> QED BY <1>2, <1>3, <2>1, LenProperties
<1>5. \A y \in T : \E k \in 1..Len(t) : t[k] = y
  <2> TAKE y \in T
  <2>1. PICK x \in S : y = f[x]
    OBVIOUS
  <2>2. PICK k \in 1..n : s[k] = x
    BY <1>1 DEF n
  <2>3. t[k] = y
    BY <2>1, <2>2
  <2> QED BY <1>4, <2>2, <2>3
<1> HIDE DEF t, T
<1>6. IsFiniteSet(T)
  BY <1>4, <1>5 DEF IsFiniteSet
<1> QED BY <1>6 DEF T

\* ... so a set of dates or of ids has a latest one.
LEMMA MaxOfFinite ==
    ASSUME NEW S, IsFiniteSet(S), S # {}, \A x \in S : x \in Int /\ x >= -1
    PROVE  Max(S) \in S /\ \A x \in S : Max(S) >= x
<1> DEFINE T == {x + 2 : x \in S}
<1>1. IsFiniteSet(T) /\ T \subseteq Nat /\ T # {}
  <2>1. IsFiniteSet(T)
    <3> DEFINE f == [x \in S |-> x + 2]
    <3>1. f = [x \in S |-> f[x]] /\ T = {f[x] : x \in S}
      OBVIOUS
    <3> HIDE DEF f, T
    <3> QED BY <3>1, FiniteImage
  <2>2. \A x \in S : x + 2 \in Nat
    OBVIOUS
  <2> QED BY <2>1, <2>2
<1>2. PICK b \in Nat : \A x \in T : x <= b
  BY <1>1, FiniteIsBounded
<1>3. T \subseteq 1..b
  <2>1. \A x \in S : x + 2 \in 1..b
    BY <1>2
  <2> QED BY <2>1
<1>4. PICK t \in T : \A u \in T : u <= t
  <2> HIDE DEF T
  <2> QED BY <1>1, <1>3, Writes!HasGreatest
<1>5. PICK x \in S : t = x + 2
  OBVIOUS
<1> DEFINE IsMax(z) == z \in S /\ \A y \in S : z >= y
<1>6. IsMax(x)
  <2>1. \A y \in S : y + 2 <= x + 2
    BY <1>4, <1>5
  <2> QED BY <2>1
<1>7. Max(S) = (CHOOSE z : IsMax(z))
  BY DEF Max
<1>8. IsMax(CHOOSE z : IsMax(z))
  <2> HIDE DEF IsMax
  <2> QED BY <1>6
<1> HIDE DEF IsMax
<1> QED BY <1>7, <1>8 DEF IsMax

\* A part of a list is a list of entries of it.
IsPart(t, s) ==
    IsList(t) /\ Len(t) <= Len(s) /\ \A k \in DOMAIN t : \E j \in DOMAIN s : t[k] = s[j]

LEMMA ListPart ==
    ASSUME NEW s, IsList(s), NEW m \in Nat \ {0}, NEW n \in 0..Len(s)
    PROVE  IsPart(SubSeq(s, m, n), s)
<1> DEFINE X == ToSet(s)
           t == SubSeq(s, m, n)
<1>1. s \in Seq(X) /\ \A x \in X : \E j \in DOMAIN s : x = s[j]
  BY DEF IsList, ToSet
<1>2. t \in Seq(X) /\ Len(t) <= Len(s)
  <2> HIDE DEF X
  <2> QED BY <1>1, SubSeqOver
<1> HIDE DEF t, X
<1>3. IsList(t) /\ \A k \in DOMAIN t : t[k] \in X
  BY <1>2, ListOver
<1>4. \A k \in DOMAIN t : \E j \in DOMAIN s : t[k] = s[j]
  BY <1>1, <1>3
<1> QED BY <1>2, <1>3, <1>4 DEF t, IsPart

LEMMA FirstRaws ==
    ASSUME NEW source, NEW raws, Raws(source, raws), NEW n \in Nat
    PROVE  Raws(source, FirstOf(raws, n))
<1> DEFINE m == Smaller(n, Len(raws))
           t == SubSeq(raws, 1, m)
<1>1. m \in 0..Len(raws)
  BY LengthOfList DEF Raws, Smaller
<1> HIDE DEF m
<1>2. IsList(t) /\ \A k \in DOMAIN t : \E j \in DOMAIN raws : t[k] = raws[j]
  <2>1. IsList(raws) /\ 1 \in Nat \ {0}
    BY DEF Raws
  <2>2. IsPart(t, raws)
    BY <1>1, <2>1, ListPart
  <2> HIDE DEF t
  <2> QED BY <2>2 DEF IsPart
<1> HIDE DEF t
<1>3. Raws(source, t)
  BY <1>2 DEF Raws
<1> QED BY <1>3 DEF t, m, FirstOf

\* A listing by day, of one source.
LEMMA RawsListed ==
    ASSUME NEW source, NEW S, S \subseteq Releases, \A r \in S : r.source = source
    PROVE  Raws(source, RawsByDay(S))
<1> DEFINE sorted == ByRank(S, [r \in S |-> r.day])
           raws == RawsByDay(S)
<1>1. IsFiniteSet(S)
  BY FS_Subset, PipelineAssumption
<1>2. sorted \in Seq(S)
  BY <1>1, RankedOver
<1>3. raws = [k \in DOMAIN sorted |-> sorted[k].raw]
  BY DEF RawsByDay
<1> HIDE DEF sorted, raws
<1>4. IsList(sorted) /\ \A k \in DOMAIN sorted : sorted[k] \in S
  BY <1>2, ListOver
<1>5. raws = [k \in DOMAIN sorted |-> raws[k]] /\ \A k \in DOMAIN sorted : raws[k] = sorted[k].raw
  BY <1>3
<1>6. IsList(raws) /\ DOMAIN raws = DOMAIN sorted
  BY <1>4, <1>5, MappedList
<1>7. \A r \in S : WellFormed(source, r.raw)
  BY PipelineAssumption
<1>8. Raws(source, raws)
  BY <1>4, <1>5, <1>6, <1>7 DEF Raws
<1> QED BY <1>8 DEF raws

LEMMA BulletinListed ==
    ASSUME released \subseteq Releases, NEW url \in Bulletins
    PROVE  Raws("vestnik", Bulletin(url))
<1>1. PICK q \in released : q.url = url /\ q.source = "vestnik"
  BY DEF Bulletins
<1> DEFINE S == {r \in Latest : r.url = url}
<1>2. S \subseteq Releases /\ \A r \in S : r.source = "vestnik"
  BY <1>1, PipelineAssumption DEF Latest
<1> HIDE DEF S
<1>3. Raws("vestnik", RawsByDay(S))
  BY <1>2, RawsListed
<1> QED BY <1>3 DEF Bulletin, S

LEMMA ModifiedIsDay ==
    ASSUME released \subseteq Releases, NEW url \in Bulletins
    PROVE  Modified(url) \in 0..EndDay
<1> DEFINE R == {r \in released : r.url = url}
           S == {r.day : r \in R}
<1>1. IsFiniteSet(R) /\ R \subseteq Releases
  BY FS_Subset, PipelineAssumption
<1>2. R # {}
  BY DEF Bulletins
<1> HIDE DEF R
<1>3. IsFiniteSet(S)
  <2> DEFINE f == [r \in R |-> r.day]
  <2>1. f = [r \in R |-> f[r]] /\ S = {f[r] : r \in R}
    OBVIOUS
  <2> HIDE DEF f, S
  <2> QED BY <1>1, <2>1, FiniteImage
<1>4. \A x \in S : x \in 0..EndDay
  BY <1>1, PipelineAssumption
<1>5. S # {}
  BY <1>2
<1> HIDE DEF S
<1>6. EndDay \in Nat
  BY PipelineAssumption
<1>7. Max(S) \in S
  <2>1. \A x \in S : x \in Int /\ x >= -1
    BY <1>4, <1>6
  <2> QED BY <1>3, <1>5, <2>1, MaxOfFinite
<1> QED BY <1>4, <1>7 DEF Modified, S, R

\* What may wait in the queue of a source.
Queued(urls, source, entry) ==
    IF source = "vestnik" THEN entry.url \in urls /\ entry.modified \in 0..EndDay
    ELSE WellFormed(source, entry)
QueueOK(urls, source, queue) ==
    IsList(queue) /\ \A k \in DOMAIN queue : Queued(urls, source, queue[k])

LEMMA EmptyQueue == ASSUME NEW urls, NEW source PROVE QueueOK(urls, source, <<>>)
<1>1. IsList(<<>>) /\ DOMAIN <<>> = {}
  BY DEF IsList
<1> QED BY <1>1 DEF QueueOK

\* Each source is asked for a list of what its transformer can read.
LEMMA VestnikListed ==
    ASSUME released \subseteq Releases, Source = "vestnik" PROVE QueueOK(Bulletins, "vestnik", Query)
<1> DEFINE U == {url \in Bulletins : Modified(url) >= run.since}
           f == [url \in U |-> [url |-> url, modified |-> Modified(url)]]
           listed == {[url |-> url, modified |-> Modified(url)] : url \in U}
           ranked == ByRank(listed, [b \in listed |-> b.modified])
<1>1. Query = ranked
  BY DEF Query
<1>2. IsFiniteSet(Bulletins)
  <2> DEFINE R == {r \in released : r.source = "vestnik"}
             g == [r \in R |-> r.url]
  <2>1. IsFiniteSet(R)
    BY FS_Subset, PipelineAssumption
  <2>2. g = [r \in R |-> g[r]] /\ Bulletins = {g[r] : r \in R}
    BY DEF Bulletins
  <2> HIDE DEF R, g
  <2> QED BY <2>1, <2>2, FiniteImage
<1>3. IsFiniteSet(listed)
  <2>1. IsFiniteSet(U) /\ f = [url \in U |-> f[url]] /\ listed = {f[url] : url \in U}
    BY <1>2, FS_Subset
  <2> HIDE DEF f, listed, U
  <2> QED BY <2>1, FiniteImage
<1>4. \A b \in listed : b.url \in Bulletins /\ b.modified \in 0..EndDay
  BY ModifiedIsDay
<1> HIDE DEF listed
<1>5. ranked \in Seq(listed)
  BY <1>3, RankedOver
<1> HIDE DEF ranked
<1>6. IsList(ranked) /\ \A k \in DOMAIN ranked : ranked[k] \in listed
  BY <1>5, ListOver
<1>7. QueueOK(Bulletins, "vestnik", ranked)
  BY <1>4, <1>6 DEF QueueOK, Queued
<1> QED BY <1>1, <1>7

LEMMA ItmsListed ==
    ASSUME released \subseteq Releases, Source = "itms" PROVE QueueOK(Bulletins, "itms", Query)
<1> DEFINE R == {r \in OfSource : r.raw.id >= db.itmsMin}
           f == [r \in R |-> r.raw]
           wanted == {r.raw : r \in R}
           ranked == ByRank(wanted, [raw \in wanted |-> raw.id])
<1>1. Query = FirstOf(ranked, ITMS_MAX_ITEMS)
  BY DEF Query
<1>2. R \subseteq Releases /\ \A r \in R : r.source = "itms"
  BY DEF OfSource, Latest
<1>3. IsFiniteSet(wanted)
  <2>1. IsFiniteSet(R) /\ f = [r \in R |-> f[r]] /\ wanted = {f[r] : r \in R}
    BY <1>2, FS_Subset, PipelineAssumption
  <2> HIDE DEF f, wanted, R
  <2> QED BY <2>1, FiniteImage
<1>4. \A raw \in wanted : WellFormed("itms", raw)
  <2>1. \A r \in R : WellFormed("itms", r.raw)
    <3> HIDE DEF R
    <3> QED BY <1>2, PipelineAssumption
  <2> QED BY <2>1
<1> HIDE DEF wanted
<1>5. ranked \in Seq(wanted)
  BY <1>3, RankedOver
<1> HIDE DEF ranked
<1>6. IsList(ranked) /\ \A k \in DOMAIN ranked : ranked[k] \in wanted
  BY <1>5, ListOver
<1>7. Raws("itms", ranked)
  BY <1>4, <1>6 DEF Raws
<1>8. Raws("itms", FirstOf(ranked, ITMS_MAX_ITEMS))
  <2>1. ITMS_MAX_ITEMS \in Nat
    BY PipelineAssumption
  <2> QED BY <1>7, <2>1, FirstRaws
<1> QED BY <1>1, <1>8 DEF Raws, QueueOK, Queued

LEMMA QueryListed ==
    ASSUME released \subseteq Releases, Source \in {"vestnik", "crz", "ted", "itms"}
    PROVE  QueueOK(Bulletins, Source, Query)
<1>1. CASE Source \in {"crz", "ted"}
  <2> DEFINE S == {r \in OfSource : r.day >= run.from}
  <2>1. S \subseteq Releases /\ \A r \in S : r.source = Source
    BY DEF OfSource, Latest
  <2>2. Query = RawsByDay(S)
    BY <1>1 DEF Query
  <2> HIDE DEF S
  <2>3. Raws(Source, RawsByDay(S))
    BY <2>1, RawsListed
  <2> QED BY <1>1, <2>2, <2>3 DEF Raws, QueueOK, Queued
<1> QED BY <1>1, VestnikListed, ItmsListed

-----------------------------------------------------------------------------
(* The inductive invariant *)

RunFields == {"step", "id", "from", "since", "stage", "queue", "buffer", "todo", "failed",
              "mark", "seen", "total", "pass", "opened", "late"}
Saving == {"notices", "registry", "entities"}
RunSteps == Saving \cup {"open", "fetch", "graph", "checkpoint", "finish", "match"}

\* A run in progress reads a queue its source can fill; what it still has to save
\* is notices of its buffer, and nothing once the last chunk is saved.
RunOK(urls, r) ==
    /\ DOMAIN r = RunFields
    /\ r.step \in RunSteps /\ r.stage \in 1..4
    /\ r.mark \in 0..EndDay /\ r.seen \in Int /\ r.seen >= -1
    /\ QueueOK(urls, Stages[r.stage], r.queue)
    /\ AreNotices(r.buffer) /\ AreNotices(r.todo) /\ Len(r.todo) <= Len(r.buffer)
    /\ r.step \notin Saving => r.todo = <<>>

DbFields == {"store", "registry", "procurers", "suppliers", "lastRun", "vestnikMark", "itmsMin"}
DbOK(d) ==
    /\ DOMAIN d = DbFields
    /\ IsStore(d.store) /\ IsRegistry(d.registry)
    /\ IsEntities(d.procurers) /\ IsEntities(d.suppliers)
    /\ d.lastRun \in 0..EndDay /\ d.vestnikMark \in 0..EndDay /\ d.itmsMin \in Nat

WorldOK ==
    /\ today \in StartDay..EndDay /\ released \subseteq Releases
    /\ \A url \in DOMAIN cached : Raws("vestnik", cached[url])

Inv == WorldOK /\ DbOK(db) /\ (run = Idle \/ RunOK(Bulletins, run))

LEMMA NoList == IsList(<<>>) /\ DOMAIN <<>> = {} /\ Len(<<>>) = 0 /\ AreNotices(<<>>)
BY DEF IsList, AreNotices

\* What a portion leaves of a list, and of its notices.
LEMMA RestOfList ==
    ASSUME NEW s, IsList(s), NEW n \in 0..Len(s)
    PROVE  IsPart(After(s, n), s)
<1>1. n + 1 \in Nat \ {0} /\ Len(s) \in 0..Len(s)
  BY LengthOfList
<1> QED BY <1>1, ListPart DEF After

LEMMA RestOfNotices ==
    ASSUME NEW s, AreNotices(s), NEW n \in Nat
    PROVE  /\ AreNotices(After(s, n)) /\ Len(After(s, n)) <= Len(s)
           /\ Len(s) <= n => After(s, n) = <<>>
<1>1. n + 1 \in Nat \ {0} /\ Len(s) \in 0..Len(s)
  BY LengthOfList DEF AreNotices
<1>2. AreNotices(After(s, n)) /\ Len(After(s, n)) <= Len(s)
  BY <1>1, NoticesApart DEF After
<1>3. ASSUME Len(s) <= n PROVE After(s, n) = <<>>
  <2>1. n + 1 > Len(s)
    BY <1>1, <1>3
  <2> QED BY <1>1, <2>1 DEF After
<1> QED BY <1>2, <1>3

LEMMA FirstOfNotices ==
    ASSUME NEW s, AreNotices(s), NEW n \in Nat
    PROVE  AreNotices(FirstOf(s, n))
<1>1. Smaller(n, Len(s)) \in 0..Len(s) /\ 1 \in Nat \ {0}
  BY LengthOfList DEF AreNotices, Smaller
<1> QED BY <1>1, NoticesApart DEF FirstOf

LEMMA ChunkOfNotices == ASSUME AreNotices(run.todo) PROVE AreNotices(Chunk)
BY PipelineAssumption, FirstOfNotices DEF Chunk

\* A step in progress is a step of a run in progress.
LEMMA InProgress ==
    ASSUME Inv, run.step \in RunSteps
    PROVE  RunOK(Bulletins, run) /\ Source = Stages[run.stage]
           /\ Source \in {"vestnik", "crz", "ted", "itms"}
<1>1. run # Idle
  BY DEF Idle, RunSteps, Saving
<1>2. RunOK(Bulletins, run)
  BY <1>1 DEF Inv
<1>3. run.stage \in 1..4 /\ Source = Stages[run.stage]
  BY <1>2 DEF RunOK, Source
<1>4. Stages[run.stage] \in {"vestnik", "crz", "ted", "itms"}
  BY <1>3 DEF Stages
<1> QED BY <1>2, <1>3, <1>4

LEMMA InvInit == Init => Inv
<1> SUFFICES ASSUME Init PROVE Inv
  OBVIOUS
<1>1. WorldOK
  BY PipelineAssumption DEF Init, WorldOK
<1>2. DbOK(db)
  <2>1. IsStore(Backlog)
    BY PipelineAssumption DEF IsStore
  <2>2. db = [store |-> Backlog, registry |-> {}, procurers |-> {}, suppliers |-> {},
              lastRun |-> 0, vestnikMark |-> 0, itmsMin |-> 0]
    BY DEF Init
  <2>3. DOMAIN db = DbFields
    BY <2>2 DEF DbFields
  <2>4. IsRegistry({}) /\ IsEntities({})
    BY DEF IsRegistry, IsEntities
  <2>5. 0 \in 0..EndDay /\ 0 \in Nat
    BY PipelineAssumption
  <2> QED BY <2>1, <2>2, <2>3, <2>4, <2>5 DEF DbOK
<1> QED BY <1>1, <1>2 DEF Init, Inv

\* What happens outside leaves a run as it was, but for what it will not see.
LEMMA PublishKeeps ==
    ASSUME Inv, NEW R, Publish(R), R \subseteq Releases, today' \in StartDay..EndDay
    PROVE  Inv'
<1>1. WorldOK'
  BY DEF Inv, WorldOK, Publish
<1>2. DbOK(db')
  BY DEF Inv, Publish
<1>3. ASSUME RunOK(Bulletins, run), run # Idle PROVE RunOK(Bulletins', run')
  <2>1. Bulletins \subseteq Bulletins'
    BY DEF Bulletins, Publish
  <2>2. /\ DOMAIN run' = DOMAIN run
        /\ \A field \in RunFields \ {"late"} : run'[field] = run[field]
    BY <1>3 DEF Publish, RunOK
  <2>3. /\ run'.step = run.step /\ run'.stage = run.stage /\ run'.mark = run.mark
        /\ run'.seen = run.seen /\ run'.queue = run.queue
        /\ run'.buffer = run.buffer /\ run'.todo = run.todo
    BY <2>2 DEF RunFields
  <2>4. QueueOK(Bulletins', Stages[run.stage], run.queue)
    BY <1>3, <2>1 DEF RunOK, QueueOK, Queued
  <2> QED BY <1>3, <2>2, <2>3, <2>4 DEF RunOK
<1>4. run' = Idle \/ RunOK(Bulletins', run')
  BY <1>3 DEF Inv, Publish
<1> QED BY <1>1, <1>2, <1>4 DEF Inv

LEMMA ReleaseKeeps == ASSUME Inv, NEW r \in Releases, Release(r) PROVE Inv'
<1>1. Publish({r}) /\ {r} \subseteq Releases /\ today' = today
  BY DEF Release
<1> QED BY <1>1, PublishKeeps DEF Inv, WorldOK

LEMMA NextDayKeeps == ASSUME Inv, NextDay PROVE Inv'
<1> DEFINE R == {r \in Releases : r.day = today + 1}
<1>1. Publish(R) /\ R \subseteq Releases
  BY DEF NextDay
<1>2. today' \in StartDay..EndDay
  BY PipelineAssumption DEF NextDay, Inv, WorldOK
<1> HIDE DEF R
<1> QED BY <1>1, <1>2, PublishKeeps

LEMMA StartKeeps == ASSUME Inv, NEW mode, Start(mode) PROVE Inv'
<1>1. WorldOK' /\ DbOK(db') /\ Bulletins' = Bulletins
  BY DEF Start, Inv, WorldOK, Bulletins
<1>2. /\ run'.step = "open" /\ run'.stage = 1 /\ run'.mark = 0 /\ run'.seen = db.itmsMin - 1
      /\ run'.queue = <<>> /\ run'.buffer = <<>> /\ run'.todo = <<>>
      /\ DOMAIN run' = RunFields
  BY DEF Start, RunFields
<1>3. db.itmsMin \in Nat /\ 0 \in 0..EndDay
  BY PipelineAssumption DEF Inv, DbOK
<1>4. QueueOK(Bulletins', Stages[1], <<>>)
  BY EmptyQueue
<1>5. RunOK(Bulletins', run')
  BY <1>2, <1>3, <1>4, NoList DEF RunOK, RunSteps, Saving
<1> QED BY <1>1, <1>5 DEF Inv

LEMMA OpenSourceKeeps == ASSUME Inv, OpenSource PROVE Inv'
<1>1. WorldOK' /\ DbOK(db') /\ Bulletins' = Bulletins
  BY DEF OpenSource, Inv, WorldOK, Bulletins
<1>2. RunOK(Bulletins, run) /\ Source = Stages[run.stage]
      /\ Source \in {"vestnik", "crz", "ted", "itms"}
  BY InProgress DEF OpenSource, RunSteps
<1>3. QueueOK(Bulletins, Source, Query)
  BY <1>2, QueryListed DEF Inv, WorldOK
<1> DEFINE query == Query
<1>4. run' = [run EXCEPT !.step = "fetch", !.queue = query, !.opened = @ \cup {Source}]
  BY DEF OpenSource
<1> HIDE DEF query
<1>5. /\ run'.step = "fetch" /\ run'.queue = query /\ DOMAIN run' = RunFields
      /\ run'.stage = run.stage /\ run'.mark = run.mark /\ run'.seen = run.seen
      /\ run'.buffer = run.buffer /\ run'.todo = run.todo
  BY <1>2, <1>4 DEF RunOK, RunFields
<1>6. run.todo = <<>>
  BY <1>2 DEF RunOK, OpenSource, Saving
<1>7. RunOK(Bulletins, run')
  BY <1>2, <1>3, <1>5, <1>6 DEF RunOK, RunSteps, Saving, query
<1> QED BY <1>1, <1>7 DEF Inv

LEMMA RawsOfQueue ==
    ASSUME NEW urls, NEW source, source # "vestnik", NEW queue, QueueOK(urls, source, queue)
    PROVE  Raws(source, queue)
BY DEF QueueOK, Queued, Raws

\* What is left of a queue is as good as the queue.
LEMMA RestOfQueue ==
    ASSUME NEW urls, NEW source, NEW queue, QueueOK(urls, source, queue), NEW n \in 0..Len(queue)
    PROVE  QueueOK(urls, source, After(queue, n))
<1> DEFINE t == After(queue, n)
<1>1. IsList(t) /\ \A k \in DOMAIN t : \E j \in DOMAIN queue : t[k] = queue[j]
  <2>1. IsPart(t, queue)
    BY RestOfList DEF QueueOK
  <2> HIDE DEF t
  <2> QED BY <2>1 DEF IsPart
<1> HIDE DEF t
<1>2. QueueOK(urls, source, t)
  BY <1>1 DEF QueueOK
<1> QED BY <1>2 DEF t

LEMMA TailOfQueue ==
    ASSUME NEW urls, NEW source, NEW queue, QueueOK(urls, source, queue), queue # <<>>
    PROVE  /\ QueueOK(urls, source, Tail(queue)) /\ 1 \in DOMAIN queue
           /\ Queued(urls, source, queue[1])
<1>1. queue \in Seq(ToSet(queue)) /\ Len(queue) \in Nat /\ DOMAIN queue = 1..Len(queue)
  BY LengthOfList DEF QueueOK, IsList
<1>2. Len(queue) # 0
  BY <1>1, EmptySeq
<1>3. 1 \in 0..Len(queue) /\ 1 \in DOMAIN queue
  BY <1>1, <1>2
<1>4. After(queue, 1) = Tail(queue)
  BY <1>1, <1>2 DEF After
<1>5. QueueOK(urls, source, After(queue, 1))
  BY <1>3, RestOfQueue
<1> QED BY <1>3, <1>4, <1>5 DEF QueueOK

LEMMA FetchBulletinKeeps == ASSUME Inv, FetchBulletin PROVE Inv'
<1>1. RunOK(Bulletins, run) /\ Source = Stages[run.stage]
  BY InProgress DEF FetchBulletin, RunSteps
<1> DEFINE url == run.queue[1].url
           items == IF url \in DOMAIN cached THEN cached[url] ELSE Bulletin(url)
           marked == Larger(run.mark, run.queue[1].modified)
           queue == Tail(run.queue)
<1>2. /\ Source = "vestnik" /\ run.step = "fetch" /\ run.todo = <<>>
      /\ QueueOK(Bulletins, "vestnik", run.queue) /\ run.queue # <<>>
  BY <1>1 DEF FetchBulletin, RunOK, Saving
<1>3. QueueOK(Bulletins, "vestnik", queue) /\ Queued(Bulletins, "vestnik", run.queue[1])
  BY <1>2, TailOfQueue
<1>4. url \in Bulletins /\ marked \in 0..EndDay
  BY <1>1, <1>3, PipelineAssumption DEF Queued, Larger, RunOK
<1>5. Raws("vestnik", items)
  BY <1>4, BulletinListed DEF Inv, WorldOK
<1>6. Raws("vestnik", <<>>)
  BY NoList DEF Raws
<1>7. /\ \/ /\ run' = [run EXCEPT !.queue = queue, !.mark = marked,
                                   !.buffer = @ \o Transformed(items)]
            /\ cached' = [u \in DOMAIN cached \cup {url} |-> IF u = url THEN items ELSE cached[u]]
         \/ /\ run' = [run EXCEPT !.queue = queue, !.mark = marked,
                                   !.buffer = @ \o Transformed(<<>>)]
            /\ cached' = cached
      /\ UNCHANGED <<today, released, db>>
  BY DEF FetchBulletin
<1> HIDE DEF url, items, marked, queue
<1>8. ASSUME NEW raws, Raws("vestnik", raws),
             run' = [run EXCEPT !.queue = queue, !.mark = marked, !.buffer = @ \o Transformed(raws)]
      PROVE  RunOK(Bulletins, run')
  <2> DEFINE buffer == run.buffer \o Transformed(raws)
  <2>1. AreNotices(Transformed(raws))
    BY <1>1, <1>2, <1>8, TransformedList DEF RunOK
  <2>2. AreNotices(buffer)
    BY <1>1, <2>1, NoticesJoined DEF RunOK
  <2>3. run' = [run EXCEPT !.queue = queue, !.mark = marked, !.buffer = buffer]
    BY <1>8
  <2> HIDE DEF buffer
  <2>4. /\ run'.queue = queue /\ run'.mark = marked /\ run'.buffer = buffer
        /\ DOMAIN run' = RunFields /\ run'.step = run.step /\ run'.stage = run.stage
        /\ run'.seen = run.seen /\ run'.todo = run.todo
    BY <1>1, <2>3 DEF RunOK, RunFields
  <2>5. Len(run'.todo) <= Len(buffer)
    BY <1>2, <2>2, <2>4, NoList, LengthOfList DEF AreNotices
  <2> QED BY <1>1, <1>2, <1>3, <1>4, <2>2, <2>4, <2>5 DEF RunOK
<1>9. RunOK(Bulletins, run')
  BY <1>5, <1>6, <1>7, <1>8
<1>10. WorldOK'
  <2>1. \A u \in DOMAIN cached' : Raws("vestnik", cached'[u])
    BY <1>5, <1>7 DEF Inv, WorldOK
  <2> QED BY <1>7, <2>1 DEF Inv, WorldOK
<1> QED BY <1>7, <1>9, <1>10 DEF Inv, Bulletins

\* What is to be written next, and nothing when there is nothing.
LEMMA PersistOK ==
    ASSUME RunOK(Bulletins, run), NEW buffer, AreNotices(buffer)
    PROVE  /\ RunOK(Bulletins, Persist(buffer))
           /\ Persist(buffer).queue = run.queue /\ Persist(buffer).stage = run.stage
           /\ Persist(buffer).seen = run.seen
<1> DEFINE r == Persist(buffer)
<1>1. /\ r.buffer = buffer /\ r.todo = buffer /\ r.queue = run.queue
      /\ r.step = (IF buffer = <<>> THEN "checkpoint" ELSE "notices")
      /\ r.stage = run.stage /\ r.mark = run.mark /\ r.seen = run.seen
      /\ DOMAIN r = RunFields
  BY DEF Persist, RunOK, RunFields
<1> HIDE DEF r
<1>2. Len(buffer) \in Nat
  BY LengthOfList DEF AreNotices
<1>3. RunOK(Bulletins, r)
  BY <1>1, <1>2 DEF RunOK, RunSteps, Saving
<1> QED BY <1>1, <1>3 DEF r

LEMMA FetchedBulletinsKeep == ASSUME Inv, FetchedBulletins PROVE Inv'
<1>1. RunOK(Bulletins, run)
  BY InProgress DEF FetchedBulletins, RunSteps
<1>2. RunOK(Bulletins, Persist(run.buffer))
  BY <1>1, PersistOK DEF RunOK
<1> QED BY <1>2 DEF Inv, WorldOK, FetchedBulletins, Bulletins

LEMMA PortionOf ==
    ASSUME NEW raws, IsList(raws), run.stage \in 1..4
    PROVE  Portion(raws) \in 0..Len(raws)
<1> DEFINE Full(k) == Len(Transformed(FirstOf(raws, k))) >= BATCH_SIZE
           F == {k \in DOMAIN raws : Full(k)}
           First(k) == k \in DOMAIN raws /\ Full(k) /\ ~Full(k - 1)
<1>1. Len(raws) \in Nat /\ DOMAIN raws = 1..Len(raws)
  BY LengthOfList
<1>2. Portion(raws) = IF Source \in Streamed /\ F # {}
                        THEN CHOOSE k : First(k) ELSE Len(raws)
  BY DEF Portion
<1>3. ~Full(0)
  <2>1. Smaller(0, Len(raws)) = 0
    BY <1>1 DEF Smaller
  <2>2. FirstOf(raws, 0) = <<>>
    <3>1. raws \in Seq(ToSet(raws))
      BY DEF IsList
    <3> QED BY <2>1, <3>1 DEF FirstOf
  <2> DEFINE parts == [k \in DOMAIN <<>> |-> Only(Transforms(Source, <<>>[k]), Transform(Source, <<>>[k]))]
  <2>3. Transformed(<<>>) = <<>>
    <3>1. parts = <<>>
      OBVIOUS
    <3>2. Transformed(<<>>) = FlattenSeq(parts)
      BY DEF Transformed
    <3> HIDE DEF parts
    <3> QED BY <3>1, <3>2, NoList DEF FlattenSeq
  <2> QED BY <2>2, <2>3, NoList, PipelineAssumption
<1> HIDE DEF Full
<1>4. ASSUME F # {} PROVE (CHOOSE k : First(k)) \in 1..Len(raws)
  <2>1. F \subseteq Nat
    BY <1>1
  <2>2. PICK x \in F : \A y \in F : x <= y
    <3> HIDE DEF F
    <3> QED BY <1>4, <2>1, Writes!HasSmallest
  <2>3. x \in 1..Len(raws) /\ Full(x)
    BY <1>1
  <2>4. ~Full(x - 1)
    <3>1. CASE x = 1
      BY <1>3, <3>1
    <3>2. CASE x # 1
      <4>1. x - 1 \in 1..Len(raws) /\ ~(x <= x - 1)
        BY <1>1, <2>3, <3>2
      <4> QED BY <1>1, <2>2, <4>1
    <3> QED BY <3>1, <3>2
  <2>5. First(x)
    BY <1>1, <2>3, <2>4
  <2>6. First(CHOOSE k : First(k))
    <3> HIDE DEF First
    <3> QED BY <2>5
  <2> QED BY <1>1, <2>6
<1> QED BY <1>1, <1>2, <1>4

\* The records of a portion as they were got: an ITMS record may lack a part.
LEMMA GotRaws ==
    ASSUME NEW raws, Raws("itms", raws), NEW k \in DOMAIN raws, NEW had
    PROVE  Raws("itms", [raws EXCEPT ![k] = fetch_procurements(@, had)])
<1> DEFINE got == [raws EXCEPT ![k] = fetch_procurements(@, had)]
           part == fetch_procurements(raws[k], had)
<1>1. WellFormed("itms", part)
  BY FetchedProcurement DEF Raws
<1>2. /\ got = [j \in DOMAIN raws |-> got[j]]
      /\ \A j \in DOMAIN raws : got[j] = IF j = k THEN part ELSE raws[j]
  <2>1. raws = [j \in DOMAIN raws |-> raws[j]]
    BY LengthOfList DEF Raws
  <2> HIDE DEF part
  <2>2. got = [raws EXCEPT ![k] = part]
    BY DEF part
  <2> HIDE DEF got
  <2> QED BY <2>1, <2>2
<1> HIDE DEF got, part
<1>3. IsList(got) /\ DOMAIN got = DOMAIN raws
  BY <1>2, MappedList DEF Raws
<1>4. Raws("itms", got)
  BY <1>1, <1>2, <1>3 DEF Raws
<1> QED BY <1>4 DEF got

\* The highest id of what was read, and of what was read before.
LEMMA SeenIds ==
    ASSUME NEW got, Raws("itms", got), NEW seen \in Int, seen >= -1
    PROVE  LET ids == {raw.id : raw \in {raw \in ToSet(got) : Transforms("itms", raw)}}
               most == Max({seen} \cup ids)
           IN /\ most \in Int /\ most >= -1 /\ most >= seen /\ \A id \in ids : most >= id
              /\ most = seen \/ most \in ids
<1> DEFINE R == {raw \in ToSet(got) : Transforms("itms", raw)}
           ids == {raw.id : raw \in R}
           S == {seen} \cup ids
<1>1. Len(got) \in Nat /\ DOMAIN got = 1..Len(got)
  BY LengthOfList DEF Raws
<1>2. \A raw \in R : raw.id \in Nat
  BY DEF Raws, WellFormed, ToSet
<1>3. IsFiniteSet(ToSet(got))
  <2>1. IsFiniteSet(DOMAIN got)
    BY <1>1, FS_Interval
  <2>2. got = [k \in DOMAIN got |-> got[k]] /\ ToSet(got) = {got[k] : k \in DOMAIN got}
    BY LengthOfList DEF Raws, ToSet
  <2> QED BY <2>1, <2>2, FiniteImage
<1>4. IsFiniteSet(ids)
  <2> DEFINE f == [raw \in R |-> raw.id]
  <2>1. IsFiniteSet(R) /\ f = [raw \in R |-> f[raw]] /\ ids = {f[raw] : raw \in R}
    BY <1>3, FS_Subset
  <2> HIDE DEF f, ids, R
  <2> QED BY <2>1, FiniteImage
<1>5. \A x \in ids : x \in Nat
  BY <1>2
<1> HIDE DEF ids
<1>6. IsFiniteSet(S)
  BY <1>4, FS_Singleton, FS_Union
<1>7. \A x \in S : x \in Int /\ x >= -1
  BY <1>5
<1> HIDE DEF S
<1>8. S # {}
  BY DEF S
<1>9. Max(S) \in S /\ \A x \in S : Max(S) >= x
  BY <1>6, <1>7, <1>8, MaxOfFinite
<1> QED BY <1>7, <1>9 DEF S, ids

LEMMA FetchItemsKeeps == ASSUME Inv, FetchItems PROVE Inv'
<1>1. /\ RunOK(Bulletins, run) /\ Source = Stages[run.stage]
      /\ Source \in {"vestnik", "crz", "ted", "itms"}
  BY InProgress DEF FetchItems, RunSteps
<1> DEFINE n == Portion(run.queue)
           raws == FirstOf(run.queue, n)
           rest == After(run.queue, n)
           Ids(got) == {raw.id : raw \in {raw \in ToSet(got) : Transforms("itms", raw)}}
           Seen(got) == IF Source # "itms" THEN run.seen ELSE Max({run.seen} \cup Ids(got))
           Take(got) == [Persist(Transformed(got)) EXCEPT !.queue = rest, !.seen = Seen(got)]
<1>2. Source # "vestnik" /\ QueueOK(Bulletins, Source, run.queue)
  BY <1>1 DEF FetchItems, RunOK
<1>3. Raws(Source, run.queue)
  BY <1>2, RawsOfQueue
<1>4. n \in 0..Len(run.queue) /\ n \in Nat
  <2>1. n \in 0..Len(run.queue)
    BY <1>1, <1>3, PortionOf DEF Raws, RunOK
  <2> QED BY <2>1, <1>3, LengthOfList DEF Raws
<1> HIDE DEF n
<1>5. Raws(Source, raws) /\ QueueOK(Bulletins, Source, rest)
  BY <1>2, <1>3, <1>4, FirstRaws, RestOfQueue
<1>6. /\ UNCHANGED <<today, released, cached, db>>
      /\ \/ run' = Take(raws)
         \/ Source = "itms" /\ \E k \in DOMAIN raws, had \in HadForms :
               run' = Take([raws EXCEPT ![k] = fetch_procurements(@, had)])
  <2> DEFINE Taken(got) ==
                [Persist(Transformed(got)) EXCEPT
                    !.queue = After(@, n),
                    !.seen = IF Source # "itms" THEN @ ELSE Max({@} \cup Ids(got))]
  <2>1. ASSUME NEW got PROVE Taken(got) = Take(got)
    <3> DEFINE r == Persist(Transformed(got))
    <3>1. r.queue = run.queue /\ r.seen = run.seen
      BY <1>1 DEF Persist, RunOK, RunFields
    <3> HIDE DEF r
    <3>2. [r EXCEPT !.queue = After(@, n),
                    !.seen = IF Source # "itms" THEN @ ELSE Max({@} \cup Ids(got))]
          = [r EXCEPT !.queue = rest, !.seen = Seen(got)]
      BY <3>1
    <3> QED BY <3>2 DEF r
  <2>2. /\ UNCHANGED <<today, released, cached, db>>
        /\ \/ run' = Taken(raws)
           \/ Source = "itms" /\ \E k \in DOMAIN raws, had \in HadForms :
                 run' = Taken([raws EXCEPT ![k] = fetch_procurements(@, had)])
    BY DEF FetchItems, n
  <2> HIDE DEF Taken, Take, raws
  <2> QED BY <2>1, <2>2
<1> HIDE DEF raws, rest
<1>7. ASSUME NEW got, Raws(Source, got), run' = Take(got) PROVE RunOK(Bulletins, run')
  <2> DEFINE r == Persist(Transformed(got))
             seen == Seen(got)
  <2>1. RunOK(Bulletins, r) /\ r.stage = run.stage
    BY <1>1, <1>7, TransformedList, PersistOK DEF RunOK
  <2>2. seen \in Int /\ seen >= -1
    BY <1>1, <1>7, SeenIds DEF RunOK
  <2>3. run' = [r EXCEPT !.queue = rest, !.seen = seen]
    BY <1>7
  <2> HIDE DEF r, seen
  <2>4. /\ DOMAIN run' = RunFields /\ run'.queue = rest /\ run'.seen = seen
        /\ run'.step = r.step /\ run'.stage = r.stage /\ run'.mark = r.mark
        /\ run'.buffer = r.buffer /\ run'.todo = r.todo
    BY <2>1, <2>3 DEF RunOK, RunFields
  <2> QED BY <1>1, <1>5, <2>1, <2>2, <2>4 DEF RunOK
<1>8. RunOK(Bulletins, run')
  <2>1. ASSUME NEW k \in DOMAIN raws, NEW had, Source = "itms"
        PROVE  Raws(Source, [raws EXCEPT ![k] = fetch_procurements(@, had)])
    BY <1>5, <2>1, GotRaws
  <2> HIDE DEF Take
  <2> QED BY <1>5, <1>6, <1>7, <2>1
<1> QED BY <1>6, <1>8 DEF Inv, WorldOK, Bulletins

LEMMA SaveNoticesKeeps == ASSUME Inv, SaveNotices PROVE Inv'
<1>1. RunOK(Bulletins, run)
  BY InProgress DEF SaveNotices, RunSteps, Saving
<1>2. AreNotices(Chunk)
  BY <1>1, ChunkOfNotices DEF RunOK
<1>3. PICK failed :
         /\ db' = [db EXCEPT !.store = bulk_write_notices(@, db.registry, Chunk, failed, run.id, today)]
         /\ run' = [run EXCEPT !.step = "registry", !.failed = failed]
         /\ UNCHANGED <<today, released, cached>>
  BY DEF SaveNotices
<1> DEFINE store == bulk_write_notices(db.store, db.registry, Chunk, failed, run.id, today)
<1>4. IsStore(store) /\ db' = [db EXCEPT !.store = store]
  BY <1>2, <1>3, StoreWritten DEF Inv, DbOK
<1> HIDE DEF store
<1>5. DbOK(db')
  BY <1>4 DEF Inv, DbOK, DbFields
<1>6. /\ DOMAIN run' = RunFields /\ run'.step = "registry" /\ run'.stage = run.stage
      /\ run'.mark = run.mark /\ run'.seen = run.seen /\ run'.queue = run.queue
      /\ run'.buffer = run.buffer /\ run'.todo = run.todo
  BY <1>1, <1>3 DEF RunOK, RunFields
<1>7. RunOK(Bulletins, run')
  BY <1>1, <1>6 DEF RunOK, RunSteps, Saving
<1> QED BY <1>3, <1>5, <1>7 DEF Inv, WorldOK, Bulletins

LEMMA SaveRegistryKeeps == ASSUME Inv, SaveRegistry PROVE Inv'
<1>1. RunOK(Bulletins, run)
  BY InProgress DEF SaveRegistry, RunSteps, Saving
<1>2. AreNotices(Chunk)
  BY <1>1, ChunkOfNotices DEF RunOK
<1>3. PICK lost :
         /\ db' = [db EXCEPT !.registry = bulk_write_registry(@, Chunk, run.failed \cup lost)]
         /\ run' = [run EXCEPT !.step = "entities"]
         /\ UNCHANGED <<today, released, cached>>
  BY DEF SaveRegistry
<1> DEFINE registry == bulk_write_registry(db.registry, Chunk, run.failed \cup lost)
<1>4. IsRegistry(registry) /\ db' = [db EXCEPT !.registry = registry]
  BY <1>2, <1>3, RegistryWritten DEF Inv, DbOK
<1> HIDE DEF registry
<1>5. DbOK(db')
  BY <1>4 DEF Inv, DbOK, DbFields
<1>6. /\ DOMAIN run' = RunFields /\ run'.step = "entities" /\ run'.stage = run.stage
      /\ run'.mark = run.mark /\ run'.seen = run.seen /\ run'.queue = run.queue
      /\ run'.buffer = run.buffer /\ run'.todo = run.todo
  BY <1>1, <1>3 DEF RunOK, RunFields
<1>7. RunOK(Bulletins, run')
  BY <1>1, <1>6 DEF RunOK, RunSteps, Saving
<1> QED BY <1>3, <1>5, <1>7 DEF Inv, WorldOK, Bulletins

LEMMA SaveEntitiesKeeps == ASSUME Inv, SaveEntities PROVE Inv'
<1>1. RunOK(Bulletins, run)
  BY InProgress DEF SaveEntities, RunSteps, Saving
<1>2. AreNotices(deduped(Chunk))
  BY <1>1, ChunkOfNotices, DedupedList DEF RunOK
<1> DEFINE procurers == bulk_write_entities(db.procurers, ProcurersOf(deduped(Chunk)))
           suppliers == bulk_write_entities(db.suppliers, SuppliersOf(deduped(Chunk)))
           rest == After(run.todo, BATCH_SIZE)
<1>3. IsEntities(procurers) /\ IsEntities(suppliers)
  BY <1>2, ProcurersList, SuppliersList, EntitiesWritten DEF Inv, DbOK
<1>4. /\ AreNotices(rest) /\ Len(rest) <= Len(run.todo)
      /\ Len(run.todo) <= BATCH_SIZE => rest = <<>>
  BY <1>1, RestOfNotices, PipelineAssumption DEF RunOK
<1>5. /\ db' = [db EXCEPT !.procurers = procurers, !.suppliers = suppliers]
      /\ run' = [run EXCEPT !.todo = rest, !.failed = {},
                            !.step = IF Len(run.todo) > BATCH_SIZE THEN "notices" ELSE "graph"]
      /\ UNCHANGED <<today, released, cached>>
  BY DEF SaveEntities
<1> HIDE DEF procurers, suppliers, rest
<1>6. DbOK(db')
  BY <1>3, <1>5 DEF Inv, DbOK, DbFields
<1>7. /\ DOMAIN run' = RunFields /\ run'.stage = run.stage
      /\ run'.step = (IF Len(run.todo) > BATCH_SIZE THEN "notices" ELSE "graph")
      /\ run'.mark = run.mark /\ run'.seen = run.seen /\ run'.queue = run.queue
      /\ run'.buffer = run.buffer /\ run'.todo = rest
  BY <1>1, <1>5 DEF RunOK, RunFields
<1>8. {Len(rest), Len(run.todo), Len(run.buffer), BATCH_SIZE} \subseteq Nat
  BY <1>1, <1>4, LengthOfList, PipelineAssumption DEF RunOK, AreNotices
<1>9. RunOK(Bulletins, run')
  BY <1>1, <1>4, <1>7, <1>8 DEF RunOK, RunSteps, Saving
<1> QED BY <1>5, <1>6, <1>9 DEF Inv, WorldOK, Bulletins

LEMMA MergeGraphKeeps == ASSUME Inv, MergeGraph PROVE Inv'
<1>1. RunOK(Bulletins, run) /\ run.step = "graph"
  BY InProgress DEF MergeGraph, RunSteps
<1>2. run' = [run EXCEPT !.step = "checkpoint"] /\ UNCHANGED <<today, released, cached, db>>
  BY DEF MergeGraph
<1>3. /\ DOMAIN run' = RunFields /\ run'.step = "checkpoint" /\ run'.stage = run.stage
      /\ run'.mark = run.mark /\ run'.seen = run.seen /\ run'.queue = run.queue
      /\ run'.buffer = run.buffer /\ run'.todo = run.todo
  BY <1>1, <1>2 DEF RunOK, RunFields
<1>4. RunOK(Bulletins, run')
  BY <1>1, <1>3 DEF RunOK, RunSteps, Saving
<1> QED BY <1>2, <1>4 DEF Inv, WorldOK, Bulletins

LEMMA SaveCheckpointKeeps == ASSUME Inv, SaveCheckpoint PROVE Inv'
<1>1. RunOK(Bulletins, run) /\ run.step = "checkpoint" /\ run.todo = <<>>
  <2>1. RunOK(Bulletins, run) /\ run.step = "checkpoint"
    BY InProgress DEF SaveCheckpoint, RunSteps
  <2> QED BY <2>1 DEF RunOK, Saving
<1>2. /\ run' = MoveOn /\ UNCHANGED <<today, released, cached>>
      /\ \/ db' = [db EXCEPT !.vestnikMark = run.mark]
         \/ db' = [db EXCEPT !.itmsMin = run.seen + 1]
         \/ db' = db
  BY DEF SaveCheckpoint
<1>3. DbOK(db')
  <2>1. run.mark \in 0..EndDay /\ run.seen + 1 \in Nat
    BY <1>1 DEF RunOK
  <2> QED BY <1>2, <2>1 DEF Inv, DbOK, DbFields
<1>4. Len(Stages) = 4
  BY DEF Stages
<1>5. /\ DOMAIN run' = RunFields /\ run'.buffer = <<>> /\ run'.todo = <<>>
      /\ run'.mark = run.mark /\ run'.seen = run.seen /\ run'.queue = run.queue
      /\ run'.step \in {"fetch", "open", "finish"}
      /\ run'.stage \in 1..4 /\ (run.queue # <<>> => run'.stage = run.stage)
  BY <1>1, <1>2, <1>4 DEF RunOK, RunFields, MoveOn
<1>6. QueueOK(Bulletins, Stages[run'.stage], run'.queue)
  BY <1>1, <1>5, EmptyQueue DEF RunOK
<1>7. RunOK(Bulletins, run')
  BY <1>1, <1>5, <1>6, NoList DEF RunOK, RunSteps, Saving
<1> QED BY <1>2, <1>3, <1>7 DEF Inv, WorldOK, Bulletins

LEMMA FinishKeeps == ASSUME Inv, Finish PROVE Inv'
<1>1. RunOK(Bulletins, run) /\ run.step = "finish"
  BY InProgress DEF Finish, RunSteps
<1>2. /\ db' = [db EXCEPT !.lastRun = today] /\ UNCHANGED <<today, released, cached>>
      /\ run' = [run EXCEPT !.step = "match"] \/ run' = Idle
  BY DEF Finish
<1>3. today \in 0..EndDay
  BY PipelineAssumption DEF Inv, WorldOK
<1>4. DbOK(db')
  BY <1>2, <1>3 DEF Inv, DbOK, DbFields
<1>5. ASSUME run' = [run EXCEPT !.step = "match"] PROVE RunOK(Bulletins, run')
  <2>1. /\ DOMAIN run' = RunFields /\ run'.step = "match" /\ run'.stage = run.stage
        /\ run'.mark = run.mark /\ run'.seen = run.seen /\ run'.queue = run.queue
        /\ run'.buffer = run.buffer /\ run'.todo = run.todo
    BY <1>1, <1>5 DEF RunOK, RunFields
  <2> QED BY <1>1, <2>1 DEF RunOK, RunSteps, Saving
<1> QED BY <1>2, <1>4, <1>5 DEF Inv, WorldOK, Bulletins

\* Matching gives documents ids and touches no key.
LEMMA GroupsPersisted ==
    ASSUME NEW store, IsStore(store), NEW groups
    PROVE  IsStore(persist_match_groups(store, groups))
<1> DEFINE Of(d) == {g \in groups : KeyOf(d) \in g.notices}
           Given(d) == IF Of(d) = {} THEN d
                       ELSE [d EXCEPT !.canonical_id = (CHOOSE g \in Of(d) : TRUE).canonical_id]
<1>1. persist_match_groups(store, groups) = {Given(d) : d \in store}
  BY DEF persist_match_groups
<1>2. ASSUME NEW d \in store
      PROVE  KeyOf(Given(d)) = KeyOf(d) /\ Hashed \subseteq DOMAIN Given(d)
  <2>1. Hashed \subseteq DOMAIN d
    BY DEF IsStore
  <2>2. PICK id : Given(d) \in {d, [d EXCEPT !.canonical_id = id]}
    OBVIOUS
  <2> HIDE DEF Given
  <2>3. \A e : e = [d EXCEPT !.canonical_id = id]
               => DOMAIN e = DOMAIN d /\ e.source = d.source /\ e.source_id = d.source_id
    BY <2>1 DEF Hashed
  <2> QED BY <2>1, <2>2, <2>3 DEF KeyOf
<1> HIDE DEF Given
<1> QED BY <1>1, <1>2 DEF IsStore

LEMMA MatchPassKeeps == ASSUME Inv, MatchPass PROVE Inv'
<1>1. RunOK(Bulletins, run) /\ run.step = "match"
  BY InProgress DEF MatchPass, RunSteps
<1>2. PICK groups : db' = [db EXCEPT !.store = persist_match_groups(@, groups)]
  BY DEF MatchPass
<1>3. /\ UNCHANGED <<today, released, cached>>
      /\ run' = [run EXCEPT !.pass = @ + 1] \/ run' = Idle
  BY DEF MatchPass
<1> DEFINE store == persist_match_groups(db.store, groups)
<1>4. IsStore(store) /\ db' = [db EXCEPT !.store = store]
  BY <1>2, GroupsPersisted DEF Inv, DbOK
<1> HIDE DEF store
<1>5. DbOK(db')
  BY <1>4 DEF Inv, DbOK, DbFields
<1>6. ASSUME run' = [run EXCEPT !.pass = @ + 1] PROVE RunOK(Bulletins, run')
  <2>1. /\ DOMAIN run' = RunFields /\ run'.step = run.step /\ run'.stage = run.stage
        /\ run'.mark = run.mark /\ run'.seen = run.seen /\ run'.queue = run.queue
        /\ run'.buffer = run.buffer /\ run'.todo = run.todo
    BY <1>1, <1>6 DEF RunOK, RunFields
  <2> QED BY <1>1, <2>1 DEF RunOK
<1> QED BY <1>3, <1>5, <1>6 DEF Inv, WorldOK, Bulletins

LEMMA InvNext == Inv /\ [Next]_vars => Inv'
<1> SUFFICES ASSUME Inv, [Next]_vars PROVE Inv'
  OBVIOUS
<1>1. ASSUME NEW r \in Releases, Release(r) PROVE Inv'
  BY <1>1, ReleaseKeeps
<1>2. CASE NextDay
  BY <1>2, NextDayKeeps
<1>3. ASSUME NEW mode, Start(mode) PROVE Inv'
  BY <1>3, StartKeeps
<1>4. CASE OpenSource
  BY <1>4, OpenSourceKeeps
<1>5. CASE FetchBulletin
  BY <1>5, FetchBulletinKeeps
<1>6. CASE FetchedBulletins
  BY <1>6, FetchedBulletinsKeep
<1>7. CASE FetchItems
  BY <1>7, FetchItemsKeeps
<1>8. CASE SaveNotices
  BY <1>8, SaveNoticesKeeps
<1>9. CASE SaveRegistry
  BY <1>9, SaveRegistryKeeps
<1>10. CASE SaveEntities
  BY <1>10, SaveEntitiesKeeps
<1>11. CASE MergeGraph
  BY <1>11, MergeGraphKeeps
<1>12. CASE SaveCheckpoint
  BY <1>12, SaveCheckpointKeeps
<1>13. CASE Finish
  BY <1>13, FinishKeeps
<1>14. CASE MatchPass
  BY <1>14, MatchPassKeeps
<1>15. CASE Abort
  BY <1>15 DEF Abort, Inv, WorldOK
<1>16. CASE UNCHANGED vars
  BY <1>16 DEF vars, Inv, WorldOK, Bulletins
<1> QED BY <1>1, <1>2, <1>3, <1>4, <1>5, <1>6, <1>7, <1>8, <1>9, <1>10, <1>11, <1>12,
           <1>13, <1>14, <1>15, <1>16 DEF Next

LEMMA Invariant == Spec => []Inv
BY InvInit, InvNext, PTL DEF Spec

-----------------------------------------------------------------------------
(* What is in a list, and what a chunk holds *)

LEMMA OnlySet ==
    ASSUME NEW passes, passes \in BOOLEAN, NEW value
    PROVE  /\ IsList(Only(passes, value))
           /\ \A x : x \in ToSet(Only(passes, value)) <=> passes /\ x = value
<1>1. CASE passes
  <2>1. Only(passes, value) = <<value>>
    BY <1>1 DEF Only
  <2>2. ToSet(<<value>>) = {value}
    BY DEF ToSet
  <2> QED BY <1>1, <2>1, <2>2, OnlyList
<1>2. CASE ~passes
  <2>1. Only(passes, value) = <<>>
    BY <1>2 DEF Only
  <2>2. ToSet(<<>>) = {}
    BY DEF ToSet
  <2> QED BY <1>2, <2>1, <2>2, OnlyList
<1> QED BY <1>1, <1>2

\* What a comprehension with a test takes from a list.
LEMMA TransformedSet ==
    ASSUME NEW raws, IsList(raws)
    PROVE  \A n : n \in ToSet(Transformed(raws)) <=>
                  \E raw \in ToSet(raws) : Transforms(Source, raw) /\ n = Transform(Source, raw)
<1> DEFINE parts == [k \in DOMAIN raws |-> Only(Transforms(Source, raws[k]), Transform(Source, raws[k]))]
           all == Transformed(raws)
<1>1. all = FlattenSeq(parts)
  BY DEF Transformed
<1>2. parts = [k \in DOMAIN raws |-> parts[k]]
  OBVIOUS
<1>3. ASSUME NEW k \in DOMAIN raws
      PROVE  /\ IsList(parts[k])
             /\ \A n : n \in ToSet(parts[k]) <=> Transforms(Source, raws[k]) /\ n = Transform(Source, raws[k])
  <2> DEFINE passes == Transforms(Source, raws[k])
  <2>1. passes \in BOOLEAN /\ parts[k] = Only(passes, Transform(Source, raws[k]))
    BY DEF Transforms
  <2> HIDE DEF parts, passes
  <2>2. /\ IsList(parts[k])
        /\ \A n : n \in ToSet(parts[k]) <=> passes /\ n = Transform(Source, raws[k])
    BY <2>1, OnlySet
  <2> QED BY <2>2 DEF passes
<1> HIDE DEF parts
<1>4. IsList(parts) /\ DOMAIN parts = DOMAIN raws
  BY <1>2, MappedList
<1> HIDE DEF all
<1>5. ToSet(all) = UNION {ToSet(parts[k]) : k \in DOMAIN parts}
  BY <1>1, <1>3, <1>4, FlattenedList
<1>6. ASSUME NEW n PROVE n \in ToSet(all) <=> \E k \in DOMAIN raws : n \in ToSet(parts[k])
  BY <1>4, <1>5
<1>7. ASSUME NEW n
      PROVE  n \in ToSet(all) <=> \E raw \in ToSet(raws) : Transforms(Source, raw) /\ n = Transform(Source, raw)
  <2>1. \A raw : raw \in ToSet(raws) <=> \E k \in DOMAIN raws : raw = raws[k]
    BY DEF ToSet
  <2>2. n \in ToSet(all) <=> \E k \in DOMAIN raws : Transforms(Source, raws[k]) /\ n = Transform(Source, raws[k])
    BY <1>3, <1>6
  <2> QED BY <2>1, <2>2
<1> QED BY <1>7 DEF all

LEMMA ProcurersSet ==
    ASSUME NEW batch, AreNotices(batch)
    PROVE  \A n \in ToSet(batch) : n.procurer # None => n.procurer \in ToSet(ProcurersOf(batch))
<1> DEFINE parts == [k \in DOMAIN batch |-> Only(batch[k].procurer # None, batch[k].procurer)]
           all == ProcurersOf(batch)
<1>1. all = FlattenSeq(parts)
  BY DEF ProcurersOf
<1>2. parts = [k \in DOMAIN batch |-> parts[k]]
  OBVIOUS
<1>3. ASSUME NEW k \in DOMAIN batch
      PROVE  /\ IsList(parts[k])
             /\ batch[k].procurer # None => batch[k].procurer \in ToSet(parts[k])
  <2> DEFINE named == batch[k].procurer # None
  <2>1. named \in BOOLEAN /\ parts[k] = Only(named, batch[k].procurer)
    OBVIOUS
  <2> HIDE DEF parts, named
  <2>2. IsList(parts[k]) /\ (named => batch[k].procurer \in ToSet(parts[k]))
    BY <2>1, OnlySet
  <2> QED BY <2>2 DEF named
<1> HIDE DEF parts
<1>4. IsList(parts) /\ DOMAIN parts = DOMAIN batch
  BY <1>2, MappedList DEF AreNotices
<1> HIDE DEF all
<1>5. ToSet(all) = UNION {ToSet(parts[k]) : k \in DOMAIN parts}
  BY <1>1, <1>3, <1>4, FlattenedList
<1>6. \A n \in ToSet(batch) : n.procurer # None => n.procurer \in ToSet(all)
  <2> SUFFICES ASSUME NEW k \in DOMAIN batch, batch[k].procurer # None PROVE batch[k].procurer \in ToSet(all)
    BY DEF ToSet
  <2> QED BY <1>3, <1>4, <1>5
<1> QED BY <1>6 DEF all

LEMMA SuppliersSet ==
    ASSUME NEW batch, AreNotices(batch)
    PROVE  \A n \in ToSet(batch) : \A a \in ToSet(n.awards) : a.supplier \in ToSet(SuppliersOf(batch))
<1> DEFINE Each(n) == [j \in DOMAIN n.awards |-> n.awards[j].supplier]
           parts == [k \in DOMAIN batch |-> Each(batch[k])]
           all == SuppliersOf(batch)
<1>1. all = FlattenSeq(parts)
  BY DEF SuppliersOf
<1>2. parts = [k \in DOMAIN batch |-> parts[k]]
  OBVIOUS
<1>3. ASSUME NEW k \in DOMAIN batch
      PROVE  IsList(parts[k]) /\ \A a \in ToSet(batch[k].awards) : a.supplier \in ToSet(parts[k])
  <2> DEFINE n == batch[k]
             each == Each(n)
  <2>1. IsNotice(n)
    BY DEF AreNotices
  <2>2. parts[k] = each
    OBVIOUS
  <2>3. each = [j \in DOMAIN n.awards |-> each[j]] /\ \A j \in DOMAIN n.awards : each[j] = n.awards[j].supplier
    OBVIOUS
  <2> HIDE DEF parts, each
  <2>4. IsList(each) /\ DOMAIN each = DOMAIN n.awards
    <3> HIDE DEF n
    <3> QED BY <2>1, <2>3, MappedList DEF IsNotice
  <2> QED BY <2>1, <2>2, <2>3, <2>4 DEF ToSet
<1> HIDE DEF parts
<1>4. IsList(parts) /\ DOMAIN parts = DOMAIN batch
  BY <1>2, MappedList DEF AreNotices
<1> HIDE DEF all
<1>5. ToSet(all) = UNION {ToSet(parts[k]) : k \in DOMAIN parts}
  BY <1>1, <1>3, <1>4, FlattenedList
<1>6. ASSUME NEW n \in ToSet(batch), NEW a \in ToSet(n.awards) PROVE a.supplier \in ToSet(all)
  <2>1. PICK k \in DOMAIN batch : n = batch[k]
    BY DEF ToSet
  <2>2. a.supplier \in ToSet(parts[k])
    BY <1>3, <2>1
  <2> QED BY <1>4, <1>5, <2>2
<1> QED BY <1>6 DEF all

\* A batch is written one notice a key, each of the batch.
OnePerKey(S) == \A m, n \in S : KeyOf(m) = KeyOf(n) => m = n

LEMMA ReplacedSet ==
    ASSUME NEW kept, IsList(kept), NEW n
    PROVE  /\ IsList(Replaced(kept, n))
           /\ ToSet(Replaced(kept, n)) = {m \in ToSet(kept) : KeyOf(m) # KeyOf(n)} \cup {n}
<1> DEFINE X == ToSet(kept) \cup {n}
           t == Replaced(kept, n)
<1>1. kept \in Seq(X) /\ n \in X
  BY SeqMonotonic DEF IsList
<1>2. t \in Seq(X)
  <2> HIDE DEF X
  <2> QED BY <1>1, ReplacedOver
<1>3. IsList(t)
  <2> HIDE DEF X, t
  <2> QED BY <1>2, ListOver
<1>4. ToSet(t) = {m \in ToSet(kept) : KeyOf(m) # KeyOf(n)} \cup {n}
  <2>1. CASE \E k \in DOMAIN kept : KeyOf(kept[k]) = KeyOf(n)
    <3> DEFINE u == [k \in DOMAIN kept |-> IF KeyOf(kept[k]) = KeyOf(n) THEN n ELSE kept[k]]
    <3>1. t = u
      BY <2>1 DEF Replaced
    <3>2. DOMAIN u = DOMAIN kept /\ \A k \in DOMAIN kept : u[k] = IF KeyOf(kept[k]) = KeyOf(n) THEN n ELSE kept[k]
      OBVIOUS
    <3> HIDE DEF u, t
    <3>3. ToSet(u) = {m \in ToSet(kept) : KeyOf(m) # KeyOf(n)} \cup {n}
      BY <2>1, <3>2 DEF ToSet
    <3> QED BY <3>1, <3>3
  <2>2. CASE ~\E k \in DOMAIN kept : KeyOf(kept[k]) = KeyOf(n)
    <3> DEFINE u == Append(kept, n)
               m == Len(kept)
    <3>1. t = u
      BY <2>2 DEF Replaced
    <3>2. /\ DOMAIN u = 1..(m + 1) /\ u[m + 1] = n /\ \A k \in 1..m : u[k] = kept[k]
          /\ m \in Nat /\ DOMAIN kept = 1..m
      BY AppendedList, LengthOfList
    <3> HIDE DEF u, t, m
    <3>3. \A k \in 1..(m + 1) : k = m + 1 \/ k \in 1..m
      BY <3>2
    <3>4. m + 1 \in 1..(m + 1) /\ \A k \in 1..m : k \in 1..(m + 1)
      BY <3>2
    <3>5. ToSet(u) = ToSet(kept) \cup {n}
      BY <3>2, <3>3, <3>4 DEF ToSet
    <3>6. \A x \in ToSet(kept) : KeyOf(x) # KeyOf(n)
      BY <2>2 DEF ToSet
    <3> QED BY <3>1, <3>5, <3>6
  <2> QED BY <2>1, <2>2
<1> QED BY <1>3, <1>4 DEF t

LEMMA DedupedSet ==
    ASSUME NEW batch, AreNotices(batch)
    PROVE  LET D == ToSet(deduped(batch))
           IN /\ D \subseteq ToSet(batch) /\ OnePerKey(D)
              /\ \A n \in ToSet(batch) : \E m \in D : KeyOf(m) = KeyOf(n)
<1> DEFINE N == Len(batch)
           Entries(k) == {batch[j] : j \in 1..k}
           Holds(s, k) == /\ IsList(s) /\ ToSet(s) \subseteq Entries(k) /\ OnePerKey(ToSet(s))
                          /\ \A j \in 1..k : \E m \in ToSet(s) : KeyOf(m) = KeyOf(batch[j])
<1>1. N \in Nat /\ DOMAIN batch = 1..N /\ batch \in Seq(ToSet(batch))
  BY LengthOfList DEF AreNotices, IsList
<1>2. PICK f : /\ f[0] = <<>>
               /\ \A k \in 1..N : f[k] = Replaced(f[k - 1], batch[k])
               /\ deduped(batch) = f[N]
  <2>1. deduped(batch) = Replaces!Fold({}, <<>>, batch)
    BY DedupedFolds
  <2>2. \E f : Replaces!Steps({}, <<>>, batch, f) /\ Replaces!Fold({}, <<>>, batch) = f[Len(batch)]
    BY <1>1, Replaces!FoldGoesThrough
  <2> QED BY <2>1, <2>2 DEF Replaces!Steps
<1> DEFINE K == {k \in 0..N : Holds(f[k], k)}
<1>3. 0 \in K
  <2>1. IsList(<<>>) /\ ToSet(<<>>) = {}
    BY NoList DEF ToSet
  <2>2. Holds(<<>>, 0)
    BY <2>1 DEF OnePerKey
  <2> HIDE DEF Holds
  <2> QED BY <1>1, <1>2, <2>2
<1>4. ASSUME NEW k \in 1..N, k - 1 \in K PROVE k \in K
  <2> DEFINE s == f[k - 1]
             n == batch[k]
             t == Replaced(s, n)
  <2>1. Holds(s, k - 1) /\ f[k] = t
    BY <1>2, <1>4
  <2> HIDE DEF s
  <2>2. IsList(t) /\ ToSet(t) = {m \in ToSet(s) : KeyOf(m) # KeyOf(n)} \cup {n}
    BY <2>1, ReplacedSet
  <2> HIDE DEF t
  <2>3. \A j \in 1..k : j = k \/ j \in 1..(k - 1)
    BY <1>1
  <2>4. Entries(k - 1) \subseteq Entries(k) /\ n \in Entries(k)
    <3>1. \A j \in 1..(k - 1) : j \in 1..k
      BY <1>1
    <3>2. k \in 1..k
      BY <1>1
    <3> QED BY <3>1, <3>2
  <2>5. ToSet(t) \subseteq Entries(k)
    <3> HIDE DEF Entries, n
    <3> QED BY <2>1, <2>2, <2>4
  <2>6. OnePerKey(ToSet(t))
    BY <2>1, <2>2 DEF OnePerKey
  <2>7. ASSUME NEW j \in 1..k PROVE \E m \in ToSet(t) : KeyOf(m) = KeyOf(batch[j])
    <3>1. CASE KeyOf(batch[j]) = KeyOf(n)
      BY <2>2, <3>1
    <3>2. CASE KeyOf(batch[j]) # KeyOf(n)
      <4>1. j \in 1..(k - 1)
        BY <2>3, <3>2
      <4>2. PICK m \in ToSet(s) : KeyOf(m) = KeyOf(batch[j])
        BY <2>1, <4>1
      <4> QED BY <2>2, <3>2, <4>2
    <3> QED BY <3>1, <3>2
  <2>8. Holds(t, k)
    BY <2>2, <2>5, <2>6, <2>7
  <2> HIDE DEF Holds
  <2> QED BY <1>1, <2>1, <2>8
<1>5. N \in K
  <2>1. Writes!Hereditary(K, N)
    <3> HIDE DEF K
    <3> QED BY <1>3, <1>4 DEF Writes!Hereditary
  <2> HIDE DEF K
  <2> QED BY <1>1, <2>1, Writes!BoundedInduction
<1> DEFINE D == ToSet(deduped(batch))
<1>6. Holds(deduped(batch), N)
  BY <1>2, <1>5
<1>7. Entries(N) = ToSet(batch)
  BY <1>1 DEF ToSet
<1>8. \A n \in ToSet(batch) : \E j \in 1..N : n = batch[j]
  BY <1>1 DEF ToSet
<1> QED BY <1>6, <1>7, <1>8

\* ... and of those, the ones that are not unchanged.
LEMMA UpsertedSet ==
    ASSUME NEW registry, NEW batch, AreNotices(batch)
    PROVE  \A n : n \in ToSet(ToUpsert(registry, batch)) <=>
                  n \in ToSet(deduped(batch)) /\ ~unchanged(registry, n)
<1> DEFINE kept == deduped(batch)
           parts == [k \in DOMAIN kept |-> Only(~unchanged(registry, kept[k]), kept[k])]
           all == ToUpsert(registry, batch)
<1>1. IsList(kept)
  BY DedupedList DEF AreNotices
<1>2. all = FlattenSeq(parts)
  BY DEF ToUpsert
<1> HIDE DEF kept
<1>3. parts = [k \in DOMAIN kept |-> parts[k]]
  OBVIOUS
<1>4. ASSUME NEW k \in DOMAIN kept
      PROVE  /\ IsList(parts[k])
             /\ \A n : n \in ToSet(parts[k]) <=> n = kept[k] /\ ~unchanged(registry, n)
  <2> DEFINE new == ~unchanged(registry, kept[k])
  <2>1. new \in BOOLEAN /\ parts[k] = Only(new, kept[k])
    OBVIOUS
  <2> HIDE DEF parts, new
  <2>2. IsList(parts[k]) /\ \A n : n \in ToSet(parts[k]) <=> new /\ n = kept[k]
    BY <2>1, OnlySet
  <2> QED BY <2>2 DEF new
<1> HIDE DEF parts
<1>5. IsList(parts) /\ DOMAIN parts = DOMAIN kept
  BY <1>1, <1>3, MappedList
<1> HIDE DEF all
<1>6. ToSet(all) = UNION {ToSet(parts[k]) : k \in DOMAIN parts}
  BY <1>2, <1>4, <1>5, FlattenedList
<1>7. ASSUME NEW n PROVE n \in ToSet(all) <=> \E k \in DOMAIN kept : n \in ToSet(parts[k])
  BY <1>5, <1>6
<1>8. ASSUME NEW n PROVE n \in ToSet(all) <=> n \in ToSet(kept) /\ ~unchanged(registry, n)
  BY <1>4, <1>7 DEF ToSet
<1> QED BY <1>8 DEF all, kept

-----------------------------------------------------------------------------
(* What is stored, registered and named once a chunk is written *)

HashIn(store, hash) == \E d \in store : compute_notice_hash(d) = hash
EntryIn(registry, key, hash) == \E e \in registry : e.key = key /\ e.hash = hash
Has(entities, org) == \E e \in entities : SameEntity(e, org)
Entry(n) == [key |-> KeyOf(n), hash |-> compute_notice_hash(n)]

Saves == INSTANCE Folding WITH
            Op <- LAMBDA c, store, n : IF KeyOf(n) \in c.failing THEN store
                                       ELSE upsert_notice(store, n, c.run, c.today),
            Good <- LAMBDA c, store : HashIn(store, c.hash)
Entries == INSTANCE Folding WITH
            Op <- LAMBDA c, registry, n : IF KeyOf(n) \in c.failing THEN registry
                                          ELSE upsert_registry(registry, n),
            Good <- LAMBDA c, registry : \A e \in registry : e.key = c.key => e \in c.allowed
Unchanges == INSTANCE Folding WITH
            Op <- LAMBDA c, registry, n : IF KeyOf(n) \in c.failing THEN registry
                                          ELSE upsert_registry(registry, n),
            Good <- LAMBDA c, registry : EntryIn(registry, c.key, c.hash)
Names == INSTANCE Folding WITH
            Op <- LAMBDA c, entities, org : _entity_update(entities, org),
            Good <- LAMBDA c, entities : Has(entities, c)

\* The hash tells a notice's key, and looks at the hashed fields alone.
LEMMA HashHasKey ==
    ASSUME NEW n
    PROVE  <<compute_notice_hash(n)[1], compute_notice_hash(n)[2]>> = KeyOf(n)
BY DEF compute_notice_hash, KeyOf

LEMMA SameHash ==
    ASSUME NEW m, NEW n, m.source = n.source, m.source_id = n.source_id, m.title_slug = n.title_slug,
           m.procurer = n.procurer, m.cpv_code = n.cpv_code, m.publication_date = n.publication_date,
           m.estimated_value = n.estimated_value, m.final_value = n.final_value, m.awards = n.awards
    PROVE  compute_notice_hash(m) = compute_notice_hash(n) /\ KeyOf(m) = KeyOf(n)
BY DEF compute_notice_hash, KeyOf

LEMMA UpsertStores ==
    ASSUME NEW store, NEW n, IsNotice(n), NEW id, NEW day
    PROVE  LET after == upsert_notice(store, n, id, day)
           IN /\ HashIn(after, compute_notice_hash(n))
              /\ \A hash : HashIn(store, hash) /\ <<hash[1], hash[2]>> # KeyOf(n) => HashIn(after, hash)
<1> DEFINE found == {d \in store : KeyOf(d) = KeyOf(n)}
<1>1. PICK kept : upsert_notice(store, n, id, day) = (store \ found) \cup {Over(kept, n)}
  BY NoticeWithKept
<1> DEFINE new == Over(kept, n)
<1>2. \A field \in Hashed : new[field] = n[field]
  BY DEF IsNotice, Over
<1>3. compute_notice_hash(new) = compute_notice_hash(n)
  <2> HIDE DEF new
  <2> QED BY <1>2, SameHash DEF Hashed
<1> HIDE DEF new
<1>4. upsert_notice(store, n, id, day) = (store \ found) \cup {new}
  BY <1>1 DEF new
<1> DEFINE after == upsert_notice(store, n, id, day)
<1> HIDE DEF after
<1>5. HashIn(after, compute_notice_hash(n))
  BY <1>3, <1>4 DEF after, HashIn
<1>6. ASSUME NEW hash, HashIn(store, hash), <<hash[1], hash[2]>> # KeyOf(n) PROVE HashIn(after, hash)
  <2>1. PICK d \in store : compute_notice_hash(d) = hash
    BY <1>6 DEF HashIn
  <2>2. d \notin found
    BY <1>6, <2>1, HashHasKey
  <2>3. d \in after
    BY <1>4, <2>2 DEF after
  <2> QED BY <2>1, <2>3 DEF HashIn
<1> QED BY <1>5, <1>6 DEF after

LEMMA SavesFold ==
    ASSUME NEW store, NEW registry, NEW batch, NEW failing, NEW id, NEW day, NEW hash
    PROVE  bulk_write_notices(store, registry, batch, failing, id, day)
              = Saves!Fold([failing |-> failing, run |-> id, today |-> day, hash |-> hash],
                           store, ToUpsert(registry, batch))
BY DEF bulk_write_notices, FoldLeft, MapThenFoldSet, Max,
       Saves!Fold, Saves!MapThenFoldSet, Saves!Greatest

\* What is stored stays, unless another version of it is written; what is written is stored.
LEMMA NoticesStored ==
    ASSUME NEW store, NEW registry, NEW batch, AreNotices(batch), NEW failing, NEW id, NEW day
    PROVE  LET after == bulk_write_notices(store, registry, batch, failing, id, day)
               writes == ToSet(ToUpsert(registry, batch))
           IN /\ \A n \in writes : KeyOf(n) \notin failing => HashIn(after, compute_notice_hash(n))
              /\ \A hash : /\ HashIn(store, hash)
                           /\ \A n \in writes : \/ KeyOf(n) \in failing \/ KeyOf(n) # <<hash[1], hash[2]>>
                                                \/ compute_notice_hash(n) = hash
                           => HashIn(after, hash)
<1> DEFINE s == ToUpsert(registry, batch)
           after == bulk_write_notices(store, registry, batch, failing, id, day)
           C(hash) == [failing |-> failing, run |-> id, today |-> day, hash |-> hash]
           Spares(n, hash) == \/ KeyOf(n) \in failing \/ KeyOf(n) # <<hash[1], hash[2]>>
                              \/ compute_notice_hash(n) = hash
<1>1. AreNotices(s) /\ OnePerKey(ToSet(s))
  <2>1. AreNotices(s)
    BY UpsertedList
  <2>2. OnePerKey(ToSet(deduped(batch))) /\ ToSet(s) \subseteq ToSet(deduped(batch))
    BY DedupedSet, UpsertedSet
  <2> HIDE DEF s
  <2> QED BY <2>1, <2>2 DEF OnePerKey
<1>2. \A hash : after = Saves!Fold(C(hash), store, s)
  BY SavesFold
<1> HIDE DEF s, after
<1>3. s \in Seq(ToSet(s)) /\ DOMAIN s = 1..Len(s) /\ \A k \in DOMAIN s : IsNotice(s[k]) /\ s[k] \in ToSet(s)
  <2>1. IsList(s) /\ \A k \in DOMAIN s : IsNotice(s[k])
    BY <1>1 DEF AreNotices
  <2>2. \A k \in DOMAIN s : s[k] \in ToSet(s)
    BY DEF ToSet
  <2> QED BY <2>1, <2>2, LengthOfList DEF IsList
<1>4. ASSUME NEW hash, NEW k \in DOMAIN s, Spares(s[k], hash) PROVE Saves!Keeps(C(hash), s[k])
  <2> DEFINE n == s[k]
             c == C(hash)
  <2>1. c.failing = failing /\ c.run = id /\ c.today = day /\ c.hash = hash
    OBVIOUS
  <2>2. ASSUME NEW v, HashIn(v, hash), KeyOf(n) \notin failing
        PROVE  HashIn(upsert_notice(v, n, id, day), hash)
    <3>1. CASE compute_notice_hash(n) = hash
      BY <1>3, <3>1, UpsertStores
    <3>2. CASE KeyOf(n) # <<hash[1], hash[2]>>
      BY <1>3, <2>2, <3>2, UpsertStores
    <3> QED BY <1>4, <2>2, <3>1, <3>2
  <2> HIDE DEF n, c
  <2>3. Saves!Keeps(c, n)
    BY <2>1, <2>2 DEF Saves!Keeps
  <2> QED BY <2>3 DEF n, c
<1>5. ASSUME NEW hash, HashIn(store, hash), \A n \in ToSet(s) : Spares(n, hash) PROVE HashIn(after, hash)
  <2> DEFINE c == C(hash)
  <2>1. \A k \in DOMAIN s : Saves!Keeps(c, s[k])
    <3> HIDE DEF Spares
    <3> QED BY <1>3, <1>4, <1>5
  <2>2. c.hash = hash
    OBVIOUS
  <2>3. after = Saves!Fold(c, store, s)
    BY <1>2
  <2> HIDE DEF c
  <2>4. HashIn(Saves!Fold(c, store, s), c.hash)
    BY <1>3, <1>5, <2>1, <2>2, Saves!FoldKeeps
  <2> QED BY <2>2, <2>3, <2>4
<1>6. ASSUME NEW n \in ToSet(s), KeyOf(n) \notin failing PROVE HashIn(after, compute_notice_hash(n))
  <2> DEFINE hash == compute_notice_hash(n)
             c == C(hash)
  <2>1. PICK i \in DOMAIN s : n = s[i]
    BY DEF ToSet
  <2>2. ASSUME NEW k \in DOMAIN s PROVE Spares(s[k], hash)
    BY <1>1, <1>3, HashHasKey DEF OnePerKey
  <2>3. \A k \in DOMAIN s : Saves!Keeps(c, s[k])
    <3> HIDE DEF Spares, hash
    <3> QED BY <1>4, <2>2
  <2>4. c.failing = failing /\ c.run = id /\ c.today = day /\ c.hash = hash
    OBVIOUS
  <2>5. after = Saves!Fold(c, store, s)
    BY <1>2
  <2> HIDE DEF c
  <2>6. \A v : HashIn(IF KeyOf(s[i]) \in c.failing THEN v ELSE upsert_notice(v, s[i], c.run, c.today), c.hash)
    BY <1>3, <1>6, <2>1, <2>4, UpsertStores
  <2> HIDE DEF hash
  <2>7. HashIn(Saves!Fold(c, store, s), c.hash)
    BY <1>3, <2>3, <2>6, Saves!FoldReaches
  <2> QED BY <2>4, <2>5, <2>7 DEF hash
<1> QED BY <1>5, <1>6 DEF s, after

LEMMA EntriesFold ==
    ASSUME NEW registry, NEW batch, NEW failing, NEW key, NEW allowed, NEW hash
    PROVE  /\ bulk_write_registry(registry, batch, failing)
                 = Entries!Fold([failing |-> failing, key |-> key, allowed |-> allowed],
                                registry, ToUpsert(registry, batch))
           /\ bulk_write_registry(registry, batch, failing)
                 = Unchanges!Fold([failing |-> failing, key |-> key, hash |-> hash],
                                  registry, ToUpsert(registry, batch))
<1>1. bulk_write_registry(registry, batch, failing)
                 = Entries!Fold([failing |-> failing, key |-> key, allowed |-> allowed],
                                registry, ToUpsert(registry, batch))
  BY DEF bulk_write_registry, FoldLeft, MapThenFoldSet, Max,
         Entries!Fold, Entries!MapThenFoldSet, Entries!Greatest
<1>2. bulk_write_registry(registry, batch, failing)
                 = Unchanges!Fold([failing |-> failing, key |-> key, hash |-> hash],
                                  registry, ToUpsert(registry, batch))
  BY DEF bulk_write_registry, FoldLeft, MapThenFoldSet, Max,
         Unchanges!Fold, Unchanges!MapThenFoldSet, Unchanges!Greatest
<1> QED BY <1>1, <1>2

LEMMA UpsertEnters ==
    ASSUME NEW registry, NEW n
    PROVE  LET after == upsert_registry(registry, n)
           IN /\ Entry(n) \in after
              /\ \A e \in after : e = Entry(n) \/ (e \in registry /\ e.key # KeyOf(n))
              /\ \A e \in registry : e.key # KeyOf(n) => e \in after
              /\ Entry(n).key = KeyOf(n) /\ Entry(n).hash = compute_notice_hash(n)
BY DEF upsert_registry, registry_entry, Entry

\* An entry of the registry is one that was there, of a notice not written since, or
\* that of a notice written; what is unchanged stays so, unless another version is.
LEMMA NoticesEntered ==
    ASSUME NEW registry, NEW batch, AreNotices(batch), NEW failing
    PROVE  LET after == bulk_write_registry(registry, batch, failing)
               writes == {n \in ToSet(ToUpsert(registry, batch)) : KeyOf(n) \notin failing}
           IN /\ \A e \in after : \/ e \in registry /\ \A n \in writes : KeyOf(n) # e.key
                                  \/ \E n \in writes : e = Entry(n)
              /\ \A n : /\ unchanged(registry, n)
                        /\ \A m \in writes : KeyOf(m) = KeyOf(n) => compute_notice_hash(m) = compute_notice_hash(n)
                        => unchanged(after, n)
<1> DEFINE s == ToUpsert(registry, batch)
           after == bulk_write_registry(registry, batch, failing)
           writes == {n \in ToSet(s) : KeyOf(n) \notin failing}
           C(key, allowed) == [failing |-> failing, key |-> key, allowed |-> allowed]
           H(key, hash) == [failing |-> failing, key |-> key, hash |-> hash]
<1>1. AreNotices(s) /\ OnePerKey(ToSet(s))
  <2>1. AreNotices(s)
    BY UpsertedList
  <2>2. OnePerKey(ToSet(deduped(batch))) /\ ToSet(s) \subseteq ToSet(deduped(batch))
    BY DedupedSet, UpsertedSet
  <2> HIDE DEF s
  <2> QED BY <2>1, <2>2 DEF OnePerKey
<1>2. \A key, allowed : after = Entries!Fold(C(key, allowed), registry, s)
  BY EntriesFold
<1>3. \A key, hash : after = Unchanges!Fold(H(key, hash), registry, s)
  BY EntriesFold
<1> HIDE DEF s, after
<1>4. s \in Seq(ToSet(s)) /\ \A k \in DOMAIN s : s[k] \in ToSet(s)
  <2>1. IsList(s)
    BY <1>1 DEF AreNotices
  <2>2. \A k \in DOMAIN s : s[k] \in ToSet(s)
    BY DEF ToSet
  <2> QED BY <2>1, <2>2 DEF IsList
<1>5. ASSUME NEW key, \A n \in writes : KeyOf(n) # key, NEW e \in after, e.key = key
      PROVE  e \in registry
  <2> DEFINE allowed == {d \in registry : d.key = key}
             c == C(key, allowed)
  <2>1. c.failing = failing /\ c.key = key /\ c.allowed = allowed
    OBVIOUS
  <2>2. \A d \in registry : d.key = key => d \in allowed
    OBVIOUS
  <2>3. after = Entries!Fold(c, registry, s)
    BY <1>2
  <2>4. allowed \subseteq registry
    OBVIOUS
  <2> HIDE DEF c, allowed
  <2>5. ASSUME NEW k \in DOMAIN s PROVE Entries!Keeps(c, s[k])
    <3>1. KeyOf(s[k]) \in failing \/ KeyOf(s[k]) # key
      BY <1>4, <1>5
    <3> QED BY <2>1, <3>1, UpsertEnters DEF Entries!Keeps
  <2>6. \A d \in registry : d.key = c.key => d \in c.allowed
    BY <2>1, <2>2
  <2>7. \A d \in Entries!Fold(c, registry, s) : d.key = c.key => d \in c.allowed
    BY <1>4, <2>5, <2>6, Entries!FoldKeeps
  <2> QED BY <1>5, <2>1, <2>3, <2>4, <2>7
<1>6. ASSUME NEW n \in writes, NEW e \in after, e.key = KeyOf(n)
      PROVE  e = Entry(n)
  <2> DEFINE key == KeyOf(n)
             allowed == {Entry(n)}
             c == C(key, allowed)
  <2>1. c.failing = failing /\ c.key = key /\ c.allowed = allowed
    OBVIOUS
  <2>2. PICK i \in DOMAIN s : n = s[i]
    BY DEF ToSet
  <2>3. after = Entries!Fold(c, registry, s)
    BY <1>2
  <2> HIDE DEF c
  <2>4. ASSUME NEW k \in DOMAIN s PROVE Entries!Keeps(c, s[k])
    <3>1. KeyOf(s[k]) \in failing \/ KeyOf(s[k]) # key \/ s[k] = n
      BY <1>1, <1>4 DEF OnePerKey
    <3> QED BY <2>1, <3>1, UpsertEnters DEF Entries!Keeps
  <2>5. \A R : LET w == IF KeyOf(s[i]) \in c.failing THEN R ELSE upsert_registry(R, s[i])
               IN \A d \in w : d.key = c.key => d \in c.allowed
    BY <2>1, <2>2, UpsertEnters
  <2>6. \A d \in Entries!Fold(c, registry, s) : d.key = c.key => d \in c.allowed
    BY <1>4, <2>4, <2>5, Entries!FoldReaches
  <2> QED BY <1>6, <2>1, <2>3, <2>6
<1>7. ASSUME NEW n, unchanged(registry, n),
             \A m \in writes : KeyOf(m) = KeyOf(n) => compute_notice_hash(m) = compute_notice_hash(n)
      PROVE  unchanged(after, n)
  <2> DEFINE key == KeyOf(n)
             hash == compute_notice_hash(n)
             c == H(key, hash)
  <2>1. c.failing = failing /\ c.key = key /\ c.hash = hash
    OBVIOUS
  <2>2. \A R : unchanged(R, n) <=> EntryIn(R, key, hash)
    BY DEF unchanged, registry_entry, EntryIn
  <2>3. after = Unchanges!Fold(c, registry, s)
    BY <1>3
  <2>4. \A m \in writes : KeyOf(m) = key => compute_notice_hash(m) = hash
    BY <1>7
  <2> HIDE DEF c, key, hash
  <2>5. ASSUME NEW k \in DOMAIN s PROVE Unchanges!Keeps(c, s[k])
    <3> DEFINE m == s[k]
    <3>1. KeyOf(m) \in failing \/ KeyOf(m) # key \/ compute_notice_hash(m) = hash
      BY <1>4, <2>4
    <3> HIDE DEF m
    <3>2. ASSUME NEW R, EntryIn(R, key, hash), KeyOf(m) \notin failing
          PROVE  EntryIn(upsert_registry(R, m), key, hash)
      <4>1. CASE KeyOf(m) # key
        BY <3>2, <4>1, UpsertEnters DEF EntryIn
      <4>2. CASE KeyOf(m) = key /\ compute_notice_hash(m) = hash
        BY <4>2, UpsertEnters DEF EntryIn
      <4> QED BY <3>1, <3>2, <4>1, <4>2
    <3>3. Unchanges!Keeps(c, m)
      BY <2>1, <3>2 DEF Unchanges!Keeps
    <3> QED BY <3>3 DEF m
  <2>6. EntryIn(registry, c.key, c.hash)
    BY <1>7, <2>1, <2>2
  <2>7. EntryIn(Unchanges!Fold(c, registry, s), c.key, c.hash)
    BY <1>4, <2>5, <2>6, Unchanges!FoldKeeps
  <2> QED BY <2>1, <2>2, <2>3, <2>7
<1>8. ASSUME NEW e \in after
      PROVE  \/ e \in registry /\ \A n \in writes : KeyOf(n) # e.key
             \/ \E n \in writes : e = Entry(n)
  <2>1. CASE \E n \in writes : KeyOf(n) = e.key
    BY <1>6, <2>1
  <2>2. CASE \A n \in writes : KeyOf(n) # e.key
    <3> HIDE DEF writes
    <3> QED BY <1>5, <2>2
  <2> QED BY <2>1, <2>2
<1> HIDE DEF writes
<1> QED BY <1>7, <1>8 DEF s, after, writes

\* An organisation that is known stays known, and one that is written is known.
LEMMA OrgsNamed ==
    ASSUME NEW E, NEW orgs, Orgs(orgs)
    PROVE  LET after == bulk_write_entities(E, orgs)
           IN /\ \A org : Has(E, org) => Has(after, org)
              /\ \A org \in ToSet(orgs) : Has(after, org)
<1> DEFINE after == bulk_write_entities(E, orgs)
<1>1. after = UpsertAll(E, orgs)
  BY CollapseSound
<1>2. \A c : UpsertAll(E, orgs) = Names!Fold(c, E, orgs)
  BY DEF UpsertAll, FoldLeft, MapThenFoldSet, Max,
         Names!Fold, Names!MapThenFoldSet, Names!Greatest
<1> HIDE DEF after
<1>3. ASSUME NEW F, NEW org, IsOrg(org)
      PROVE  /\ Has(_entity_update(F, org), org)
             /\ \A other : Has(F, other) => Has(_entity_update(F, org), other)
  <2>1. _entity_update(F, org) = (F \ Like(F, org)) \cup {Joined(F, org)}
    BY <1>3, UpdateJoins
  <2>2. SameEntity(Joined(F, org), org)
    BY <1>3, JoinedSame
  <2>3. \A e \in F : e \in Like(F, org) <=> SameEntity(org, e)
    BY Sameness DEF Like
  <2>4. Has(_entity_update(F, org), org)
    BY <2>1, <2>2 DEF Has
  <2>5. ASSUME NEW other, NEW e \in F, SameEntity(e, other) PROVE Has(_entity_update(F, org), other)
    <3>1. CASE e \in Like(F, org)
      <4>1. SameEntity(Joined(F, org), other)
        BY <2>2, <2>3, <2>5, <3>1, Sameness
      <4> QED BY <2>1, <4>1 DEF Has
    <3>2. CASE e \notin Like(F, org)
      BY <2>1, <2>5, <3>2 DEF Has
    <3> QED BY <3>1, <3>2
  <2> QED BY <2>4, <2>5 DEF Has
<1>4. orgs \in Seq(ToSet(orgs)) /\ \A k \in DOMAIN orgs : IsOrg(orgs[k])
  BY DEF Orgs, IsList
<1>5. \A org : \A k \in DOMAIN orgs : Names!Keeps(org, orgs[k])
  BY <1>3, <1>4 DEF Names!Keeps
<1>6. ASSUME NEW org, Has(E, org) PROVE Has(after, org)
  <2>1. Has(Names!Fold(org, E, orgs), org)
    BY <1>4, <1>5, <1>6, Names!FoldKeeps
  <2> QED BY <1>1, <1>2, <2>1
<1>7. ASSUME NEW org \in ToSet(orgs) PROVE Has(after, org)
  <2>1. PICK i \in DOMAIN orgs : org = orgs[i]
    BY DEF ToSet
  <2>2. \A F : Has(_entity_update(F, orgs[i]), org)
    BY <1>3, <1>4, <2>1
  <2>3. Has(Names!Fold(org, E, orgs), org)
    BY <1>4, <1>5, <2>2, Names!FoldReaches
  <2> QED BY <1>1, <1>2, <2>3
<1> QED BY <1>6, <1>7 DEF after

\* The matching gives ids: what is stored is stored still.
LEMMA GroupsKeepHashes ==
    ASSUME NEW store, IsStore(store), NEW groups
    PROVE  \A hash : HashIn(persist_match_groups(store, groups), hash) <=> HashIn(store, hash)
<1> DEFINE Of(d) == {g \in groups : KeyOf(d) \in g.notices}
           With(d) == IF Of(d) = {} THEN d
                      ELSE [d EXCEPT !.canonical_id = (CHOOSE g \in Of(d) : TRUE).canonical_id]
<1>1. persist_match_groups(store, groups) = {With(d) : d \in store}
  BY DEF persist_match_groups
<1>2. ASSUME NEW d \in store PROVE compute_notice_hash(With(d)) = compute_notice_hash(d)
  <2> DEFINE id == (CHOOSE g \in Of(d) : TRUE).canonical_id
             e == [d EXCEPT !.canonical_id = id]
  <2>1. With(d) = d \/ With(d) = e
    OBVIOUS
  <2> HIDE DEF id, With
  <2>2. \A field \in Hashed : e[field] = d[field]
    BY DEF IsStore, Hashed
  <2> HIDE DEF e
  <2>3. compute_notice_hash(e) = compute_notice_hash(d)
    BY <2>2, SameHash DEF Hashed
  <2> QED BY <2>1, <2>3
<1> HIDE DEF With
<1> QED BY <1>1, <1>2 DEF HashIn

-----------------------------------------------------------------------------
(* What a source lists, and what a portion takes of it *)

\* The parts of a list: each entry is in one of them, the earlier in the first.
LEMMA PartsOfList ==
    ASSUME NEW s, IsList(s), NEW n \in Nat
    PROVE  /\ IsList(FirstOf(s, n)) /\ IsList(After(s, n))
           /\ ToSet(s) = ToSet(FirstOf(s, n)) \cup ToSet(After(s, n))
           /\ \A k \in DOMAIN FirstOf(s, n) : k \in DOMAIN s /\ FirstOf(s, n)[k] = s[k]
           /\ \A k \in DOMAIN After(s, n) : n + k \in DOMAIN s /\ After(s, n)[k] = s[n + k]
           /\ \A k \in DOMAIN FirstOf(s, n) : k <= n
<1> DEFINE N == Len(s)
           m == Smaller(n, N)
           a == FirstOf(s, n)
           b == After(s, n)
<1>1. N \in Nat /\ DOMAIN s = 1..N /\ s \in Seq(ToSet(s))
  BY LengthOfList DEF IsList
<1>2. m \in Nat /\ m <= n /\ m <= N /\ (m = n \/ m = N)
  BY <1>1 DEF Smaller
<1> HIDE DEF m, N
<1>3. a = [k \in 1..m |-> s[k]]
  <2>1. a = SubSeq(s, 1, m)
    BY DEF FirstOf, m, N
  <2>2. SubSeq(s, 1, m) = [k \in 1..(1 + m - 1) |-> s[1 + k - 1]]
    BY <1>1, <1>2
  <2>3. 1 + m - 1 = m /\ \A k \in 1..m : 1 + k - 1 = k
    BY <1>2
  <2> HIDE DEF a
  <2> QED BY <2>1, <2>2, <2>3
<1>4. IsList(a) /\ DOMAIN a = 1..m /\ \A k \in 1..m : a[k] = s[k]
  <2>1. a = [k \in 1..m |-> a[k]] /\ \A k \in 1..m : a[k] = s[k]
    <3> HIDE DEF a
    <3> QED BY <1>3
  <2> HIDE DEF a
  <2> QED BY <1>2, <2>1, ListByLength
<1>5. IsList(b) /\ DOMAIN b = {k \in 1..N : n + k <= N} /\ \A k \in DOMAIN b : b[k] = s[n + k]
  <2>1. CASE n <= N
    <3>1. b = SubSeq(s, n + 1, N)
      BY DEF After, N
    <3>2. SubSeq(s, n + 1, N) = [k \in 1..(1 + N - (n + 1)) |-> s[n + 1 + k - 1]]
      BY <1>1, <2>1
    <3>3. 1 + N - (n + 1) = N - n /\ \A k \in 1..(N - n) : n + 1 + k - 1 = n + k
      BY <1>1
    <3> HIDE DEF b
    <3>4. b = [k \in 1..(N - n) |-> s[n + k]]
      BY <3>1, <3>2, <3>3
    <3>5. b = [k \in 1..(N - n) |-> b[k]] /\ N - n \in Nat /\ \A k \in 1..(N - n) : b[k] = s[n + k]
      BY <1>1, <2>1, <3>4
    <3>6. IsList(b) /\ DOMAIN b = 1..(N - n)
      BY <3>5, ListByLength
    <3>7. 1..(N - n) = {k \in 1..N : n + k <= N}
      BY <1>1
    <3> QED BY <3>5, <3>6, <3>7
  <2>2. CASE n > N
    <3>1. b = <<>>
      <4>1. n + 1 > N
        BY <1>1, <2>2
      <4> QED BY <1>1, <4>1 DEF After, N
    <3>2. {k \in 1..N : n + k <= N} = {}
      BY <1>1, <2>2
    <3> HIDE DEF b
    <3> QED BY <3>1, <3>2, NoList
  <2> QED BY <1>1, <2>1, <2>2
<1> HIDE DEF a, b
<1>6. \A k \in 1..N : k \in 1..m \/ k - n \in {j \in 1..N : n + j <= N}
  BY <1>1, <1>2
<1>7. \A k \in {j \in 1..N : n + j <= N} : n + k \in 1..N
  BY <1>1
<1>8. \A k \in 1..m : k \in 1..N /\ k <= n
  BY <1>1, <1>2
<1>9. ToSet(s) \subseteq ToSet(a) \cup ToSet(b)
  <2> SUFFICES ASSUME NEW k \in 1..N PROVE s[k] \in ToSet(a) \cup ToSet(b)
    BY <1>1 DEF ToSet
  <2>1. CASE k \in 1..m
    BY <1>4, <2>1 DEF ToSet
  <2>2. CASE k - n \in DOMAIN b
    <3>1. n + (k - n) = k
      OBVIOUS
    <3>2. b[k - n] = s[k]
      BY <1>5, <2>2, <3>1
    <3>3. b[k - n] \in ToSet(b)
      BY <2>2 DEF ToSet
    <3> QED BY <3>2, <3>3
  <2> QED BY <1>5, <1>6, <2>1, <2>2
<1>10. ToSet(a) \cup ToSet(b) \subseteq ToSet(s)
  <2>1. ASSUME NEW k \in DOMAIN a PROVE a[k] \in ToSet(s)
    BY <1>1, <1>4, <1>8 DEF ToSet
  <2>2. ASSUME NEW k \in DOMAIN b PROVE b[k] \in ToSet(s)
    BY <1>1, <1>5, <1>7 DEF ToSet
  <2> QED BY <2>1, <2>2 DEF ToSet
<1> QED BY <1>1, <1>4, <1>5, <1>7, <1>8, <1>9, <1>10 DEF a, b

\* The records of a listing by day.
LEMMA RawsSet ==
    ASSUME NEW S, S \subseteq Releases
    PROVE  ToSet(RawsByDay(S)) = {r.raw : r \in S}
<1> DEFINE sorted == ByRank(S, [r \in S |-> r.day])
           raws == RawsByDay(S)
<1>1. IsFiniteSet(S)
  BY FS_Subset, PipelineAssumption
<1>2. ToSet(sorted) = S
  BY <1>1, RankedOver
<1>3. raws = [k \in DOMAIN sorted |-> sorted[k].raw]
  BY DEF RawsByDay
<1> HIDE DEF sorted, raws
<1>4. ToSet(raws) = {sorted[k].raw : k \in DOMAIN sorted}
  BY <1>3 DEF ToSet
<1>5. S = {sorted[k] : k \in DOMAIN sorted}
  BY <1>2 DEF ToSet
<1>6. ToSet(raws) = {r.raw : r \in S}
  BY <1>4, <1>5
<1> QED BY <1>6 DEF raws

\* A bulletin is dated by the latest release at its address.
LatestDay(Out, url) == Max({r.day : r \in {r \in Out : r.url = url}})

LEMMA DatedLatest ==
    ASSUME NEW Out, Out \subseteq Releases, NEW url, NEW q \in Out, q.url = url
    PROVE  /\ \E r \in Out : r.url = url /\ r.day = LatestDay(Out, url)
           /\ \A r \in Out : r.url = url => r.day <= LatestDay(Out, url)
           /\ LatestDay(Out, url) \in Int
<1> DEFINE R == {r \in Out : r.url = url}
           S == {r.day : r \in R}
<1>1. IsFiniteSet(R) /\ R \subseteq Releases
  BY FS_Subset, PipelineAssumption
<1>2. R # {}
  OBVIOUS
<1> HIDE DEF R
<1>3. IsFiniteSet(S)
  <2> DEFINE f == [r \in R |-> r.day]
  <2>1. f = [r \in R |-> f[r]] /\ S = {f[r] : r \in R}
    OBVIOUS
  <2> HIDE DEF f, S
  <2> QED BY <1>1, <2>1, FiniteImage
<1>4. \A x \in S : x \in 0..EndDay
  BY <1>1, PipelineAssumption
<1>5. S # {} /\ \A r \in R : r.day \in S
  BY <1>2
<1>6. \A x \in S : \E r \in R : r.day = x
  OBVIOUS
<1> HIDE DEF S
<1>7. EndDay \in Nat
  BY PipelineAssumption
<1>8. \A x \in S : x \in Int /\ x >= -1
  BY <1>4, <1>7
<1>9. Max(S) \in S /\ \A x \in S : Max(S) >= x
  BY <1>3, <1>5, <1>8, MaxOfFinite
<1> DEFINE modified == Max(S)
<1>10. \A r \in R : r.day <= modified
  BY <1>5, <1>8, <1>9
<1>11. (\E r \in R : r.day = modified) /\ modified \in Int
  BY <1>6, <1>8, <1>9
<1>12. \A r : r \in R <=> r \in Out /\ r.url = url
  BY DEF R
<1>13. modified = LatestDay(Out, url)
  BY DEF S, R, LatestDay
<1> HIDE DEF modified
<1> QED BY <1>10, <1>11, <1>12, <1>13

LEMMA ModifiedIsLatest ==
    ASSUME released \subseteq Releases, NEW url, NEW q \in released, q.url = url
    PROVE  /\ \E r \in released : r.url = url /\ r.day = Modified(url)
           /\ \A r \in released : r.url = url => r.day <= Modified(url)
           /\ Modified(url) \in Int
<1>1. Modified(url) = LatestDay(released, url)
  BY DEF Modified, LatestDay
<1> QED BY <1>1, DatedLatest

\* What Vestnik lists: every bulletin modified since.
LEMMA VestnikQuery ==
    ASSUME released \subseteq Releases, Source = "vestnik"
    PROVE  ToSet(Query) = {[url |-> url, modified |-> Modified(url)] :
                              url \in {url \in Bulletins : Modified(url) >= run.since}}
<1> DEFINE U == {url \in Bulletins : Modified(url) >= run.since}
           f == [url \in U |-> [url |-> url, modified |-> Modified(url)]]
           listed == {[url |-> url, modified |-> Modified(url)] : url \in U}
           ranked == ByRank(listed, [b \in listed |-> b.modified])
<1>1. Query = ranked
  BY DEF Query
<1>2. IsFiniteSet(Bulletins)
  <2> DEFINE R == {r \in released : r.source = "vestnik"}
             g == [r \in R |-> r.url]
  <2>1. IsFiniteSet(R)
    BY FS_Subset, PipelineAssumption
  <2>2. g = [r \in R |-> g[r]] /\ Bulletins = {g[r] : r \in R}
    BY DEF Bulletins
  <2> HIDE DEF R, g
  <2> QED BY <2>1, <2>2, FiniteImage
<1>3. IsFiniteSet(listed)
  <2>1. IsFiniteSet(U) /\ f = [url \in U |-> f[url]] /\ listed = {f[url] : url \in U}
    BY <1>2, FS_Subset
  <2> HIDE DEF f, listed, U
  <2> QED BY <2>1, FiniteImage
<1> HIDE DEF listed
<1>4. ToSet(ranked) = listed
  BY <1>3, RankedOver
<1> QED BY <1>1, <1>4 DEF listed

\* What ITMS lists: the records from the next id on, by id, or as many as one query gives.
LEMMA ItmsQuery ==
    ASSUME released \subseteq Releases, Source = "itms"
    PROVE  LET wanted == {r.raw : r \in {r \in OfSource : r.raw.id >= db.itmsMin}}
           IN /\ ToSet(Query) \subseteq wanted
              /\ \A j, k \in DOMAIN Query : j < k => Query[j].id <= Query[k].id
              /\ \A raw \in wanted : \/ raw \in ToSet(Query)
                                      \/ \A other \in ToSet(Query) : other.id <= raw.id
<1> DEFINE R == {r \in OfSource : r.raw.id >= db.itmsMin}
           f == [r \in R |-> r.raw]
           wanted == {r.raw : r \in R}
           rank == [raw \in wanted |-> raw.id]
           ranked == ByRank(wanted, rank)
           query == FirstOf(ranked, ITMS_MAX_ITEMS)
           rest == After(ranked, ITMS_MAX_ITEMS)
<1>1. Query = query
  BY DEF Query
<1>2. R \subseteq Releases /\ \A r \in R : r.source = "itms"
  BY DEF OfSource, Latest
<1>3. IsFiniteSet(wanted)
  <2>1. IsFiniteSet(R) /\ f = [r \in R |-> f[r]] /\ wanted = {f[r] : r \in R}
    BY <1>2, FS_Subset, PipelineAssumption
  <2> HIDE DEF f, wanted, R
  <2> QED BY <2>1, FiniteImage
<1>4. \A raw \in wanted : raw.id \in Nat
  <2>1. \A r \in R : r.raw.id \in Nat
    <3> HIDE DEF R
    <3> QED BY <1>2, PipelineAssumption DEF WellFormed
  <2> QED BY <2>1
<1> HIDE DEF wanted
<1>5. \A raw \in wanted : rank[raw] = raw.id /\ rank[raw] \in Int
  BY <1>4
<1> HIDE DEF rank
<1>6. ranked \in Seq(wanted) /\ ToSet(ranked) = wanted /\ Sorted(ranked, rank)
  BY <1>3, <1>5, RankedOver
<1> HIDE DEF ranked
<1>7. IsList(ranked) /\ \A k \in DOMAIN ranked : ranked[k] \in wanted
  BY <1>6, ListOver
<1>8. ITMS_MAX_ITEMS \in Nat
  BY PipelineAssumption
<1> DEFINE most == ITMS_MAX_ITEMS
<1> HIDE DEF most
<1>a. /\ IsList(FirstOf(ranked, most)) /\ IsList(After(ranked, most))
      /\ ToSet(ranked) = ToSet(FirstOf(ranked, most)) \cup ToSet(After(ranked, most))
      /\ \A k \in DOMAIN FirstOf(ranked, most) : k \in DOMAIN ranked /\ FirstOf(ranked, most)[k] = ranked[k]
      /\ \A k \in DOMAIN After(ranked, most) : most + k \in DOMAIN ranked /\ After(ranked, most)[k] = ranked[most + k]
      /\ \A k \in DOMAIN FirstOf(ranked, most) : k <= most
  <2>1. most \in Nat
    BY <1>8 DEF most
  <2> QED BY <1>7, <2>1, PartsOfList
<1>9. /\ IsList(query) /\ IsList(rest)
      /\ wanted = ToSet(query) \cup ToSet(rest)
      /\ \A k \in DOMAIN query : k \in DOMAIN ranked /\ query[k] = ranked[k] /\ k <= ITMS_MAX_ITEMS
      /\ \A k \in DOMAIN rest : /\ ITMS_MAX_ITEMS + k \in DOMAIN ranked
                               /\ rest[k] = ranked[ITMS_MAX_ITEMS + k]
  BY <1>6, <1>a DEF most
<1>10. DOMAIN query \subseteq Nat /\ DOMAIN rest \subseteq Nat \ {0}
  <2>1. DOMAIN query = 1..Len(query) /\ DOMAIN rest = 1..Len(rest) /\ Len(query) \in Nat /\ Len(rest) \in Nat
    BY <1>9, LengthOfList
  <2> QED BY <2>1
<1> HIDE DEF query, rest
<1>11. \A j, k \in DOMAIN query : j < k => query[j].id <= query[k].id
  BY <1>5, <1>6, <1>7, <1>9 DEF Sorted
<1>12. ASSUME NEW j \in DOMAIN query, NEW k \in DOMAIN rest PROVE query[j].id <= rest[k].id
  <2>1. j < ITMS_MAX_ITEMS + k
    BY <1>8, <1>9, <1>10
  <2>2. rank[ranked[j]] <= rank[ranked[ITMS_MAX_ITEMS + k]]
    BY <1>6, <1>9, <2>1 DEF Sorted
  <2> QED BY <1>5, <1>7, <1>9, <2>2
<1>13. \A raw \in ToSet(rest) : \A other \in ToSet(query) : other.id <= raw.id
  BY <1>12 DEF ToSet
<1> QED BY <1>1, <1>9, <1>11, <1>13 DEF wanted

\* The key of what comes of a record.
LEMMA KeyOfRecord ==
    /\ \A raw : KeyOf(Transform("vestnik", raw)) = <<"vestnik", raw.id>>
    /\ \A raw : KeyOf(Transform("itms", raw)) = <<"itms", raw.id>>
    /\ \A source \in {"vestnik", "crz", "ted", "itms"} : \A raw : Transform(source, raw).source = source
<1>1. \A raw : transform_notice(raw).source = "vestnik" /\ transform_notice(raw).source_id = raw.id
  BY DEF transform_notice, CanonicalNotice
<1>2. \A raw : transform_procurement(raw).source = "itms" /\ transform_procurement(raw).source_id = raw.id
  BY DEF transform_procurement, CanonicalNotice
<1>3. \A raw : transform_contract(raw).source = "crz"
  BY DEF transform_contract, CanonicalNotice
<1>4. \A raw : transform_ted_notice(raw).source = "ted"
  BY DEF transform_ted_notice, CanonicalNotice
<1>5. \A raw : /\ Transform("vestnik", raw) = transform_notice(raw)
               /\ Transform("crz", raw) = transform_contract(raw)
               /\ Transform("ted", raw) = transform_ted_notice(raw)
               /\ Transform("itms", raw) = transform_procurement(raw)
  BY DEF Transform
<1> QED BY <1>1, <1>2, <1>3, <1>4, <1>5 DEF KeyOf

LEMMA FetchedId ==
    ASSUME NEW raw, WellFormed("itms", raw), NEW had
    PROVE  fetch_procurements(raw, had).id = raw.id
<1> DEFINE detail == IF "detail" \in had THEN raw
                     ELSE [raw EXCEPT !.title = NoName, !.cpv = <<>>, !.day = 0,
                                      !.estimate = NoValue, !.inline_ico = None, !.status = "none"]
<1>1. {"contracts", "id"} \subseteq DOMAIN raw
  BY DEF WellFormed
<1>2. detail.id = raw.id /\ "id" \in DOMAIN detail
  BY <1>1
<1>3. PICK contracts : \E subject : fetch_procurements(raw, had) =
                           [detail EXCEPT !.contracts = contracts, !.subject = subject]
  BY DEF fetch_procurements
<1>4. PICK subject : fetch_procurements(raw, had) =
                           [detail EXCEPT !.contracts = contracts, !.subject = subject]
  BY <1>3
<1> HIDE DEF detail
<1> QED BY <1>2, <1>4

-----------------------------------------------------------------------------
(* Nothing is lost unexplained: the inductive invariant *)

\* What comes of a release, and what was stored and named of it.
Notice(r) == Transform(r.source, r.raw)
Counts(r) == r \in Latest /\ Transforms(r.source, r.raw)
Stored(n) == HashIn(db.store, compute_notice_hash(n))
Kept(n) == \/ Stored(n)
           \/ KeyOf(n) \in past.harmed
           \/ KeyOf(n) \in past.behind /\ unchanged(db.registry, n)
Named(n) ==
    /\ n.procurer # None => Has(db.procurers, n.procurer)
    /\ \A a \in ToSet(n.awards) : Has(db.suppliers, a.supplier)
Safe(r) == Loaded(r) \/ Excused(r)

\* The marks are beyond the release: what they are beyond is safe.
Beyond(marks, modified, r) ==
    CASE r.source = "vestnik" ->
            modified < (IF marks.vestnikMark # 0 THEN marks.vestnikMark ELSE marks.lastRun)
      [] r.source \in {"crz", "ted"} -> r.day < marks.lastRun
      [] r.source = "itms" -> r.raw.id < marks.itmsMin
Passed(r) == Beyond(db, Modified(r.url), r)
MarksFollowData == \A r \in released : Counts(r) /\ Passed(r) => Safe(r)

\* What the registry knows is stored, but for the entries about to be replaced.
ToRegister == IF run # Idle /\ run.step = "registry"
                THEN Keys(ToUpsert(db.registry, Chunk)) \ run.failed ELSE {}
RegistryOK ==
    \A e \in db.registry :
        /\ <<e.hash[1], e.hash[2]>> = e.key
        /\ HashIn(db.store, e.hash) \/ e.key \in past.behind \/ e.key \in ToRegister

\* Releases come out on their day, those of ITMS by their ids; no mark is beyond them.
Calendar ==
    /\ \A r \in released : r.day <= today
    /\ \A r \in Releases : r.day < today => r \in released
    /\ db.lastRun <= today /\ db.vestnikMark <= today
    /\ \A q \in released, r \in Releases \ released :
          q.source = "itms" /\ r.source = "itms" /\ q.day = r.day => q.raw.id <= r.raw.id
    /\ db.itmsMin = 0 \/ \E q \in released : q.source = "itms" /\ db.itmsMin <= q.raw.id + 1

\* The copy of a bulletin holds what was released in it, one version of a record.
CachedOK ==
    \A url \in DOMAIN cached :
        /\ \A raw \in ToSet(cached[url]) :
              \E q \in released : q.source = "vestnik" /\ q.url = url /\ q.raw = raw
        /\ \A a, b \in ToSet(cached[url]) : a.id = b.id => a = b

\* A notice is the latest of its record, or the latest is accounted for.
Suits(n) ==
    \A r \in Latest : Transforms(r.source, r.raw) /\ RecordOf(r) = KeyOf(n)
                        => n = Notice(r) \/ Missed(r) \/ r \in run.late

Working == {"fetch", "notices", "registry", "entities", "graph", "checkpoint"}

\* What a run asks for goes back to the marks, and it never marks more than it saw.
Bounds ==
    /\ run.from \in Int /\ run.since \in Int
    /\ run.from = 1 \/ run.from <= db.lastRun \/ run.from <= today - RECENT_DAYS
    /\ run.step = "open" /\ run.stage = 1 =>
          \/ run.since = 0
          \/ db.vestnikMark # 0 /\ run.since = db.vestnikMark
          \/ db.vestnikMark = 0 /\ (run.since <= db.lastRun \/ run.since <= today - RECENT_DAYS)
    /\ run.mark <= today
    /\ run.stage < 4 \/ run.step = "open" => run.seen = db.itmsMin - 1
    /\ db.itmsMin <= run.seen + 1
    /\ run.seen = -1 \/ \E q \in released : q.source = "itms" /\ run.seen <= q.raw.id

\* What is where at each step: the sources are opened in order, each empty at first.
Places ==
    /\ run.opened = {Stages[k] : k \in 1..(IF run.step = "open" THEN run.stage - 1 ELSE run.stage)}
    /\ run.step \in {"open", "finish", "match"} => run.queue = <<>> /\ run.buffer = <<>>
    /\ run.step = "fetch" /\ Source # "vestnik" => run.buffer = <<>>
    /\ run.step \in {"finish", "match"} => run.stage = 4
    /\ ToSet(run.todo) \subseteq ToSet(run.buffer)
    /\ Source = "vestnik" /\ run.step # "fetch" => run.queue = <<>>

\* What waits was released, and is the latest of its record or is accounted for.
QueueFresh ==
    IF Source = "vestnik" THEN \A b \in ToSet(run.queue) : b.modified <= today
    ELSE /\ \A raw \in ToSet(run.queue) :
              /\ Suits(Transform(Source, raw))
              /\ \E q \in released : q.source = Source /\ q.raw = raw
         /\ Source = "itms" => /\ \A j, k \in DOMAIN run.queue : j < k => run.queue[j].id <= run.queue[k].id
                               /\ \A a, b \in ToSet(run.queue) : a.id = b.id => a = b
BufferFresh == \A n \in ToSet(run.buffer) : n.source = Source /\ Suits(n)

\* What came out after its source was opened is beyond every mark of the run.
LateOK ==
    \A r \in run.late :
        /\ r \in released /\ r.source \in run.opened
        /\ r.day >= db.lastRun \/ r \in past.late
        /\ r.day >= db.vestnikMark /\ r.day >= run.mark
        /\ Source = "vestnik" => \A b \in ToSet(run.queue) : b.modified <= r.day
        /\ r.source = "itms" /\ r \in Latest =>
              \/ Missed(r)
              \/ r.raw.id > run.seen /\ \A raw \in ToSet(run.queue) : raw.id < r.raw.id

\* A release of the source being read is safe, late, in the buffer, or yet to come.
Waits(source, queue, seen, r) ==
    CASE source = "vestnik" -> \E b \in ToSet(queue) : b.url = r.url
      [] source \in {"crz", "ted"} -> r.raw \in ToSet(queue)
      [] source = "itms" ->
            /\ r.raw.id > seen
            /\ r.raw \in ToSet(queue) \/ \A raw \in ToSet(queue) : raw.id < r.raw.id
InLine(r) == Waits(Source, run.queue, run.seen, r)
SourcesDone ==
    \A r \in released : Counts(r) /\ r.source \in run.opened \ {Source} =>
        Safe(r) \/ r \in run.late
SourceInHand ==
    run.step \in Working =>
    \A r \in released : Counts(r) /\ r.source = Source =>
        Safe(r) \/ r \in run.late \/ Notice(r) \in ToSet(run.buffer) \/ InLine(r)

\* Step by step a release of the buffer is kept, named, and merged.
Rest == After(run.todo, BATCH_SIZE)
Pending(r) == /\ Counts(r) /\ r.source = Source /\ Notice(r) \in ToSet(run.buffer)
              /\ r \notin run.late /\ ~Missed(r)
SoFar(n) ==
    /\ run.step = "notices" => (n \notin ToSet(run.todo) => Kept(n) /\ Named(n))
    /\ run.step \in {"registry", "entities"} =>
          /\ n \notin ToSet(Rest) => Kept(n)
          /\ n \notin ToSet(run.todo) => Named(n)
    /\ run.step = "graph" => Kept(n) /\ Named(n)
BufferInHand ==
    \A r \in released : Pending(r) => SoFar(Notice(r)) /\ (run.step = "checkpoint" => Safe(r))
ChunkStored ==
    run.step = "registry" =>
        \A n \in ToSet(ToUpsert(db.registry, Chunk)) : KeyOf(n) \notin run.failed => Stored(n)

Handling == Bounds /\ Places /\ QueueFresh /\ BufferFresh /\ LateOK
Progress == SourcesDone /\ SourceInHand /\ BufferInHand /\ ChunkStored
PastOK == DOMAIN past = {"runs", "faults", "late", "harmed", "merged", "behind"}
World == Calendar /\ CachedOK /\ RegistryOK /\ MarksFollowData /\ PastOK
LossInv == World /\ (run # Idle => Handling /\ Progress)

-----------------------------------------------------------------------------
(* What a step leaves as it was *)

LEMMA ReleaseFacts ==
    ASSUME NEW r \in Releases
    PROVE  /\ IsNotice(Notice(r)) /\ KeyOf(Notice(r)) = RecordOf(r) /\ Notice(r).source = r.source
           /\ RecordOf(r)[1] = r.source /\ r.source \in {"vestnik", "crz", "ted", "itms"}
           /\ r.day \in 1..EndDay /\ r.day \in Int /\ r.day >= 1
           /\ r.source = "itms" => r.raw.id \in Nat /\ RecordOf(r) = <<"itms", r.raw.id>>
           /\ r.source = "vestnik" => RecordOf(r) = <<"vestnik", r.raw.id>>
           /\ WellFormed(r.source, r.raw)
<1>1. /\ r.source \in {"vestnik", "crz", "ted", "itms"} /\ WellFormed(r.source, r.raw)
      /\ r.day \in 1..EndDay /\ EndDay \in Nat
  BY PipelineAssumption
<1>2. IsNotice(Notice(r))
  BY <1>1, TransformedNotice DEF Notice
<1>3. Notice(r).source = r.source
  BY <1>1, KeyOfRecord DEF Notice
<1>4. KeyOf(Notice(r)) = RecordOf(r)
  BY DEF Notice, RecordOf
<1>5. RecordOf(r)[1] = r.source
  BY <1>3, <1>4 DEF KeyOf
<1>6. r.source = "itms" => r.raw.id \in Nat /\ RecordOf(r) = <<"itms", r.raw.id>>
  BY <1>1, KeyOfRecord DEF WellFormed, RecordOf
<1>7. r.source = "vestnik" => RecordOf(r) = <<"vestnik", r.raw.id>>
  BY KeyOfRecord DEF RecordOf
<1>8. r.day \in Int /\ r.day >= 1
  BY <1>1
<1> QED BY <1>1, <1>2, <1>3, <1>4, <1>5, <1>6, <1>7, <1>8

\* The latest of a record is one release.
LEMMA LatestOne ==
    ASSUME released \subseteq Releases, NEW q \in Latest, NEW r \in Latest, RecordOf(q) = RecordOf(r)
    PROVE  q = r
<1>1. q \in released /\ r \in released /\ q \in Releases /\ r \in Releases
  BY DEF Latest
<1>2. ~(q.day > r.day) /\ ~(r.day > q.day)
  BY <1>1 DEF Latest, Revised
<1>3. q.day \in Int /\ r.day \in Int
  BY <1>1, ReleaseFacts
<1>4. q.day = r.day
  BY <1>2, <1>3
<1> QED BY <1>1, <1>4, PipelineAssumption

\* Time goes on, and what has happened has.
Grows ==
    /\ today <= today' /\ released \subseteq released' /\ db.lastRun <= db'.lastRun
    /\ past.harmed \subseteq past'.harmed /\ past.late \subseteq past'.late
    /\ past.behind \subseteq past'.behind /\ past.merged \subseteq past'.merged
    /\ \A url \in DOMAIN cached : url \in DOMAIN cached' /\ cached'[url] = cached[url]

LEMMA LatestBefore ==
    ASSUME released \subseteq released', NEW r \in released, r \in Latest'
    PROVE  r \in Latest
BY DEF Latest, Revised

LEMMA MissedStays ==
    ASSUME Inv, Inv', Grows, NEW r \in Releases, Missed(r)
    PROVE  Missed(r)'
<1>1. r.day \in Int /\ today \in Int /\ today' \in Int /\ db.lastRun \in Int /\ db'.lastRun \in Int /\ RECENT_DAYS \in Int
  BY ReleaseFacts, PipelineAssumption DEF Inv, WorldOK, DbOK
<1>2. CASE RecordOf(r) \in past.harmed
  BY <1>2 DEF Missed, Grows
<1>3. CASE r \in past.late /\ r.day < db.lastRun
  <2>1. r \in past'.late /\ r.day < db'.lastRun
    BY <1>1, <1>3 DEF Grows
  <2> QED BY <2>1 DEF Missed
<1>4. CASE r.day < today - RECENT_DAYS
  <2>1. r.day < today' - RECENT_DAYS
    BY <1>1, <1>4 DEF Grows
  <2> QED BY <2>1 DEF Missed
<1>5. CASE r.source = "vestnik" /\ r.url \in DOMAIN cached /\ r.raw \notin ToSet(cached[r.url])
  BY <1>5 DEF Missed, Grows
<1>6. CASE r.source = "itms" /\ \E q \in released : RecordOf(q) = RecordOf(r) /\ q.day < r.day
  BY <1>6 DEF Missed, Grows
<1> QED BY <1>2, <1>3, <1>4, <1>5, <1>6 DEF Missed

\* What was safe stays so while what it needs of the stores does.
LEMMA SafeStays ==
    ASSUME Inv, Inv', Grows, NEW r \in Releases, Safe(r),
           Stored(Notice(r)) => Stored(Notice(r))',
           Named(Notice(r)) => Named(Notice(r))',
           unchanged(db.registry, Notice(r)) => unchanged(db'.registry, Notice(r))
    PROVE  Safe(r)'
<1>1. CASE Loaded(r)
  <2>1. Stored(Notice(r)) /\ Named(Notice(r)) /\ Notice(r) \in past.merged
    BY <1>1 DEF Loaded, Stored, Named, Notice, HashIn, Has
  <2>2. Stored(Notice(r))' /\ Named(Notice(r))' /\ Notice(r) \in past'.merged
    BY <2>1 DEF Grows
  <2>3. Loaded(r)'
    BY <2>2 DEF Loaded, Stored, Named, Notice, HashIn, Has
  <2> QED BY <2>3 DEF Safe
<1>2. CASE Missed(r)
  BY <1>2, MissedStays DEF Safe, Excused
<1>3. CASE RecordOf(r) \in past.behind /\ unchanged(db.registry, Transform(r.source, r.raw))
  BY <1>3 DEF Safe, Excused, Grows, Notice
<1> QED BY <1>1, <1>2, <1>3 DEF Safe, Excused

StoresStay ==
    /\ db'.store = db.store /\ db'.registry = db.registry
    /\ db'.procurers = db.procurers /\ db'.suppliers = db.suppliers

LEMMA SafeWhileStoresStay ==
    ASSUME Inv, Inv', Grows, StoresStay, NEW r \in Releases, Safe(r)
    PROVE  Safe(r)'
<1>1. /\ Stored(Notice(r)) => Stored(Notice(r))'
      /\ Named(Notice(r)) => Named(Notice(r))'
      /\ unchanged(db.registry, Notice(r)) => unchanged(db'.registry, Notice(r))
  BY DEF Stored, Named, StoresStay, Notice
<1> QED BY <1>1, SafeStays

\* What a run holds stays the latest, but for what it is late for.
LEMMA SuitsStay ==
    ASSUME Inv, Inv', Grows, run.late \subseteq run'.late, NEW n, Suits(n),
           \A r \in released' \ released : r.source = n.source => r \in run'.late
    PROVE  Suits(n)'
<1> SUFFICES ASSUME NEW r \in Latest', Transforms(r.source, r.raw), RecordOf(r) = KeyOf(n)
             PROVE  n = Notice(r) \/ Missed(r)' \/ r \in run'.late
  BY DEF Suits, Notice, RecordOf
<1>1. r \in released' /\ r \in Releases
  BY DEF Latest, Inv, WorldOK
<1>2. CASE r \in released
  <2>1. r \in Latest
    BY <1>2, LatestBefore DEF Grows
  <2>2. n = Notice(r) \/ Missed(r) \/ r \in run.late
    BY <2>1 DEF Suits
  <2> QED BY <1>1, <2>2, MissedStays
<1>3. CASE r \notin released
  <2>1. r.source = n.source
    BY <1>1, ReleaseFacts DEF KeyOf
  <2> QED BY <1>1, <1>3, <2>1
<1> QED BY <1>2, <1>3

LEMMA BeyondBySource ==
    ASSUME NEW marks, NEW modified, NEW r
    PROVE  /\ r.source = "vestnik" =>
                (Beyond(marks, modified, r) <=>
                   modified < (IF marks.vestnikMark # 0 THEN marks.vestnikMark ELSE marks.lastRun))
           /\ r.source \in {"crz", "ted"} => (Beyond(marks, modified, r) <=> r.day < marks.lastRun)
           /\ r.source = "itms" => (Beyond(marks, modified, r) <=> r.raw.id < marks.itmsMin)
<1>1. CASE r.source = "vestnik"
  BY <1>1 DEF Beyond
<1>2. CASE r.source = "crz" \/ r.source = "ted"
  BY <1>2 DEF Beyond
<1>3. CASE r.source = "itms"
  BY <1>3 DEF Beyond
<1> QED BY <1>1, <1>2, <1>3

LEMMA WaitsBySource ==
    ASSUME NEW source, NEW queue, NEW seen, NEW r
    PROVE  /\ source = "vestnik" => (Waits(source, queue, seen, r) <=> \E b \in ToSet(queue) : b.url = r.url)
           /\ source \in {"crz", "ted"} => (Waits(source, queue, seen, r) <=> r.raw \in ToSet(queue))
           /\ source = "itms" =>
                (Waits(source, queue, seen, r) <=>
                    /\ r.raw.id > seen
                    /\ r.raw \in ToSet(queue) \/ \A raw \in ToSet(queue) : raw.id < r.raw.id)
<1>1. CASE source = "vestnik"
  BY <1>1 DEF Waits
<1>2. CASE source = "crz" \/ source = "ted"
  BY <1>2 DEF Waits
<1>3. CASE source = "itms"
  BY <1>3 DEF Waits
<1> QED BY <1>1, <1>2, <1>3

\* What is late is not beyond the marks that its run set.
LEMMA LateNotPassed ==
    ASSUME Inv, LossInv, run # Idle, NEW r \in run.late, r \in Latest
    PROVE  ~Passed(r) \/ Missed(r)
<1>1. r \in released /\ r \in Releases /\ r.day \in Int /\ db.lastRun \in Int /\ db.vestnikMark \in Int
  BY ReleaseFacts DEF Latest, Inv, WorldOK, DbOK
<1>2. LateOK /\ Bounds
  BY DEF LossInv, Handling
<1>3. r.day >= db.lastRun \/ Missed(r)
  BY <1>1, <1>2 DEF LateOK, Missed
<1>4. CASE r.source = "vestnik"
  <2>1. r.day <= Modified(r.url) /\ Modified(r.url) \in Int
    BY <1>1, ModifiedIsLatest DEF Inv, WorldOK
  <2>2. r.day >= db.vestnikMark
    BY <1>2 DEF LateOK
  <2> QED BY <1>1, <1>3, <1>4, <2>1, <2>2, BeyondBySource DEF Passed
<1>5. CASE r.source \in {"crz", "ted"}
  BY <1>1, <1>3, <1>5, BeyondBySource DEF Passed
<1>6. CASE r.source = "itms"
  <2>1. Missed(r) \/ r.raw.id > run.seen
    BY <1>2, <1>6 DEF LateOK
  <2>2. db.itmsMin <= run.seen + 1 /\ db.itmsMin \in Int /\ run.seen \in Int /\ r.raw.id \in Int
    BY <1>1, <1>2, <1>6, ReleaseFacts DEF Bounds, Inv, DbOK, RunOK
  <2> QED BY <1>6, <2>1, <2>2, BeyondBySource DEF Passed
<1> QED BY <1>1, <1>4, <1>5, <1>6, ReleaseFacts

-----------------------------------------------------------------------------
(* The sources publish *)

\* What comes out is of the day that is, or begins.
Arrives(R) ==
    /\ Publish(R) /\ R \subseteq Releases \ released /\ \A r \in R : r.day = today'
    /\ today <= today' /\ today \in Int /\ today' \in Int /\ Noticeable

LEMMA ReleaseArrives ==
    ASSUME Inv, Calendar, NEW r \in Releases, Release(r)
    PROVE  Arrives({r}) /\ Calendar'
<1>1. /\ Publish({r}) /\ today' = today /\ db' = db /\ r \in Releases \ released /\ r.day = today
      /\ Noticeable /\ released' = released \cup {r}
  BY DEF Release, Publish
<1>2. today \in Int
  BY PipelineAssumption DEF Inv, WorldOK
<1>3. Arrives({r})
  BY <1>1, <1>2 DEF Arrives
<1>4. \A p \in released' : p.day <= today'
  BY <1>1, <1>2 DEF Calendar
<1>5. \A p \in Releases : p.day < today' => p \in released'
  BY <1>1 DEF Calendar
<1>6. ASSUME NEW q \in released', NEW p \in Releases \ released',
             q.source = "itms", p.source = "itms", q.day = p.day
      PROVE  q.raw.id <= p.raw.id
  <2>1. CASE q = r
    BY <1>1, <1>6, <2>1 DEF Release
  <2>2. CASE q \in released
    BY <1>1, <1>6, <2>2 DEF Calendar
  <2> QED BY <1>1, <2>1, <2>2
<1>7. db'.itmsMin = 0 \/ \E q \in released' : q.source = "itms" /\ db'.itmsMin <= q.raw.id + 1
  BY <1>1 DEF Calendar
<1>8. db'.lastRun <= today' /\ db'.vestnikMark <= today'
  BY <1>1 DEF Calendar
<1> QED BY <1>3, <1>4, <1>5, <1>6, <1>7, <1>8 DEF Calendar

LEMMA NextDayArrives ==
    ASSUME Inv, Calendar, NextDay
    PROVE  Arrives({r \in Releases : r.day = today + 1}) /\ Calendar'
<1> DEFINE R == {r \in Releases : r.day = today + 1}
<1>1. /\ Publish(R) /\ today' = today + 1 /\ db' = db /\ Noticeable /\ released' = released \cup R
      /\ \A r \in Releases : r.day = today => r \in released
  BY DEF NextDay, Publish
<1>2. today \in Int /\ \A r \in Releases : r.day \in Int
  BY PipelineAssumption, ReleaseFacts DEF Inv, WorldOK
<1>3. ASSUME NEW r \in R PROVE r \in Releases \ released
  BY <1>2 DEF Calendar
<1>4. R \subseteq Releases /\ \A r \in R : r.day = today + 1
  OBVIOUS
<1>5. \A r \in Releases : r.day = today + 1 => r \in R
  OBVIOUS
<1> HIDE DEF R
<1>6. Arrives(R)
  BY <1>1, <1>2, <1>3, <1>4 DEF Arrives
<1>7. \A p \in released' : p.day <= today'
  <2>1. \A p \in released : p.day <= today + 1
    BY <1>2 DEF Calendar, Inv, WorldOK
  <2> QED BY <1>1, <1>2, <1>4, <2>1
<1>8. \A p \in Releases : p.day < today' => p \in released'
  <2>1. \A p \in Releases : p.day < today + 1 => p.day < today \/ p.day = today
    BY <1>2
  <2> QED BY <1>1, <2>1 DEF Calendar
<1>9. ASSUME NEW q \in released', NEW p \in Releases \ released',
             q.source = "itms", p.source = "itms", q.day = p.day
      PROVE  q.raw.id <= p.raw.id
  <2>1. CASE q \in R
    BY <1>1, <1>4, <1>5, <1>9, <2>1
  <2>2. CASE q \in released
    BY <1>1, <1>9, <2>2 DEF Calendar
  <2> QED BY <1>1, <2>1, <2>2
<1>10. db'.itmsMin = 0 \/ \E q \in released' : q.source = "itms" /\ db'.itmsMin <= q.raw.id + 1
  BY <1>1 DEF Calendar
<1>11. db'.lastRun <= today' /\ db'.vestnikMark <= today'
  <2>1. db.lastRun \in Int /\ db.vestnikMark \in Int
    BY DEF Inv, DbOK
  <2> QED BY <1>1, <1>2, <2>1 DEF Calendar
<1>12. Calendar'
  BY <1>7, <1>8, <1>9, <1>10, <1>11 DEF Calendar
<1> QED BY <1>6, <1>12 DEF R

\* An ITMS record that comes out has a higher id than those that have come out, or
\* is a later version of one that has.
LEMMA NewAboveOld ==
    ASSUME Inv, Calendar, Calendar', NEW R, Arrives(R),
           NEW q \in released, NEW r \in R, q.source = "itms", r.source = "itms"
    PROVE  q.raw.id < r.raw.id \/ Missed(r)'
<1>1. /\ q \in Releases /\ r \in Releases /\ r \notin released /\ r.day = today'
      /\ q.day \in Int /\ r.day \in Int /\ q.raw.id \in Int /\ r.raw.id \in Int
      /\ today \in Int /\ today' \in Int /\ today <= today'
  BY ReleaseFacts DEF Arrives, Inv, WorldOK
<1>2. q.day <= r.day
  BY <1>1 DEF Calendar
<1>3. CASE q.day < r.day
  <2>1. CASE q.raw.id >= r.raw.id
    <3>1. PICK p \in Releases : RecordOf(p) = RecordOf(r) /\ p.day < r.day
      BY <1>1, <1>3, <2>1, PipelineAssumption
    <3>2. p \in released'
      BY <1>1, <3>1 DEF Calendar
    <3> QED BY <3>1, <3>2 DEF Missed
  <2> QED BY <1>1, <2>1
<1>4. CASE q.day = r.day
  <2>1. q.raw.id <= r.raw.id
    BY <1>1, <1>4 DEF Calendar
  <2>2. CASE q.raw.id = r.raw.id
    <3>1. RecordOf(q) = RecordOf(r)
      BY <1>1, <2>2, ReleaseFacts
    <3> QED BY <1>1, <1>4, <3>1, PipelineAssumption
  <2> QED BY <1>1, <2>1, <2>2
<1> QED BY <1>1, <1>2, <1>3, <1>4

LEMMA ArrivalGrows ==
    ASSUME Inv, NEW R, Arrives(R)
    PROVE  Grows /\ StoresStay /\ db' = db /\ past' = past /\ cached' = cached /\ released' = released \cup R
<1>1. db' = db /\ past' = past /\ cached' = cached /\ released' = released \cup R /\ today <= today'
  BY DEF Arrives, Publish
<1>2. db.lastRun \in Int
  BY DEF Inv, DbOK
<1> QED BY <1>1, <1>2 DEF Grows, StoresStay

\* A release that comes out is beyond no mark, or is accounted for.
LEMMA ArrivalNotPassed ==
    ASSUME Inv, Calendar, Calendar', NEW R, Arrives(R), NEW r \in R
    PROVE  ~Passed(r)' \/ Missed(r)'
<1> DEFINE modified == Modified(r.url)'
<1>1. /\ r \in Releases /\ r.day = today' /\ today' \in Int /\ r.day \in Int /\ r \in released'
      /\ db' = db /\ released' \subseteq Releases
  BY ReleaseFacts, ArrivalGrows DEF Arrives, Inv, WorldOK
<1>2. db'.lastRun <= today' /\ db'.vestnikMark <= today' /\ db'.lastRun \in Int /\ db'.vestnikMark \in Int
  BY <1>1 DEF Calendar, Inv, DbOK
<1>3. Passed(r)' <=> Beyond(db', modified, r)
  BY DEF Passed
<1>4. r.day <= modified /\ modified \in Int
  <2>1. modified = LatestDay(released', r.url)
    BY DEF Modified, LatestDay
  <2> HIDE DEF modified
  <2> QED BY <1>1, <2>1, DatedLatest
<1> HIDE DEF modified
<1>5. CASE r.source = "vestnik"
  BY <1>1, <1>2, <1>3, <1>4, <1>5, BeyondBySource
<1>6. CASE r.source \in {"crz", "ted"}
  BY <1>1, <1>2, <1>3, <1>6, BeyondBySource
<1>7. CASE r.source = "itms"
  <2>1. r.raw.id \in Nat /\ db.itmsMin \in Nat
    BY <1>1, <1>7, ReleaseFacts DEF Inv, DbOK
  <2>2. CASE db.itmsMin = 0
    BY <1>1, <1>3, <1>7, <2>1, <2>2, BeyondBySource
  <2>3. CASE \E q \in released : q.source = "itms" /\ db.itmsMin <= q.raw.id + 1
    <3>1. PICK q \in released : q.source = "itms" /\ db.itmsMin <= q.raw.id + 1
      BY <2>3
    <3>2. q.raw.id < r.raw.id \/ Missed(r)'
      BY <1>7, <3>1, NewAboveOld
    <3>3. q.raw.id \in Int
      BY <3>1, ReleaseFacts DEF Inv, WorldOK
    <3> QED BY <1>1, <1>3, <1>7, <2>1, <3>1, <3>2, <3>3, BeyondBySource
  <2> QED BY <2>2, <2>3 DEF Calendar
<1> QED BY <1>1, <1>5, <1>6, <1>7, ReleaseFacts

\* A mark that was not beyond a release is not beyond it while it stays.
LEMMA PassedBefore ==
    ASSUME Inv, released \subseteq released', released' \subseteq Releases, NEW r \in released, Passed(r)',
           db'.lastRun = db.lastRun, db'.vestnikMark = db.vestnikMark, db'.itmsMin = db.itmsMin
    PROVE  Passed(r)
<1> DEFINE before == Modified(r.url)
           after == Modified(r.url)'
<1>1. /\ Passed(r)' <=> Beyond(db', after, r)
      /\ Passed(r) <=> Beyond(db, before, r)
  BY DEF Passed
<1>2. before <= after /\ before \in Int /\ after \in Int
  <2>1. before = LatestDay(released, r.url) /\ after = LatestDay(released', r.url)
    BY DEF Modified, LatestDay
  <2> HIDE DEF before, after
  <2>2. released \subseteq Releases /\ r \in released'
    BY DEF Inv, WorldOK
  <2>3. PICK q \in released : q.url = r.url /\ q.day = before
    BY <2>1, <2>2, DatedLatest
  <2>4. q \in released'
    BY <2>3
  <2> QED BY <2>1, <2>2, <2>3, <2>4, DatedLatest
<1> HIDE DEF before, after
<1>3. db.lastRun \in Int /\ db.vestnikMark \in Int
  BY DEF Inv, DbOK
<1>4. r.source \in {"vestnik", "crz", "ted", "itms"}
  BY ReleaseFacts DEF Inv, WorldOK
<1>5. CASE r.source = "vestnik"
  BY <1>1, <1>2, <1>3, <1>5, BeyondBySource
<1>6. CASE r.source \in {"crz", "ted"} \/ r.source = "itms"
  BY <1>1, <1>6, BeyondBySource
<1> QED BY <1>4, <1>5, <1>6

\* A run that goes on holding what it held, while releases may come out.
Holds ==
    /\ run # Idle /\ run' # Idle
    /\ run'.queue = run.queue /\ run'.buffer = run.buffer /\ run'.stage = run.stage
    /\ run'.opened = run.opened /\ run'.mark = run.mark /\ run'.seen = run.seen
    /\ run'.from = run.from /\ run'.since = run.since /\ run.late \subseteq run'.late
    /\ run'.step = "open" <=> run.step = "open"
    /\ db'.lastRun = db.lastRun /\ db'.vestnikMark = db.vestnikMark /\ db'.itmsMin = db.itmsMin
    /\ \A r \in released' \ released : r.source \in run.opened => r \in run'.late

LEMMA Opened ==
    ASSUME Inv, run # Idle, Places
    PROVE  /\ Source \in {"vestnik", "crz", "ted", "itms"} /\ Source = Stages[run.stage]
           /\ run.step # "open" => Source \in run.opened
           /\ run.step = "open" => Source \notin run.opened
           /\ "itms" \in run.opened => Source = "itms"
           /\ Source = "vestnik" => run.opened \subseteq {"vestnik"}
           /\ Source = "itms" => {"vestnik", "crz", "ted"} \subseteq run.opened
           /\ run.stage = 4 <=> Source = "itms"
           /\ run.stage = 1 <=> Source = "vestnik"
<1>1. run.stage \in 1..4
  BY DEF Inv, RunOK
<1>2. Source = Stages[run.stage] /\ Stages = <<"vestnik", "crz", "ted", "itms">>
  BY DEF Source, Stages
<1>3. run.opened = {Stages[k] : k \in 1..(IF run.step = "open" THEN run.stage - 1 ELSE run.stage)}
  BY DEF Places
<1>4. ASSUME NEW n \in 0..4 PROVE
         /\ {Stages[k] : k \in 1..n} = {Stages[k] : k \in {j \in {1, 2, 3, 4} : j <= n}}
  <2>1. 1..n = {j \in {1, 2, 3, 4} : j <= n}
    OBVIOUS
  <2> QED BY <2>1
<1>5. /\ {Stages[k] : k \in 1..0} = {} /\ {Stages[k] : k \in 1..1} = {"vestnik"}
      /\ {Stages[k] : k \in 1..2} = {"vestnik", "crz"} /\ {Stages[k] : k \in 1..3} = {"vestnik", "crz", "ted"}
      /\ {Stages[k] : k \in 1..4} = {"vestnik", "crz", "ted", "itms"}
  <2>1. 1..0 = {} /\ 1..1 = {1} /\ 1..2 = {1, 2} /\ 1..3 = {1, 2, 3} /\ 1..4 = {1, 2, 3, 4}
    OBVIOUS
  <2> QED BY <1>2, <2>1
<1>6. CASE run.stage = 1
  BY <1>2, <1>3, <1>5, <1>6
<1>7. CASE run.stage = 2
  BY <1>2, <1>3, <1>5, <1>7
<1>8. CASE run.stage = 3
  BY <1>2, <1>3, <1>5, <1>8
<1>9. CASE run.stage = 4
  BY <1>2, <1>3, <1>5, <1>9
<1> QED BY <1>1, <1>6, <1>7, <1>8, <1>9

LEMMA HoldsBounds ==
    ASSUME Inv, Inv', Grows, Bounds, Holds
    PROVE  Bounds'
<1>1. run.from \in Int /\ run.since \in Int /\ today \in Int /\ today' \in Int /\ today <= today'
      /\ RECENT_DAYS \in Int /\ run.mark \in Int
  BY PipelineAssumption DEF Inv, WorldOK, RunOK, Bounds, Grows, Holds
<1>2. run.from = 1 \/ run.from <= db.lastRun \/ run.from <= today' - RECENT_DAYS
  BY <1>1 DEF Bounds
<1>3. run.step = "open" /\ run.stage = 1 =>
          \/ run.since = 0
          \/ db.vestnikMark # 0 /\ run.since = db.vestnikMark
          \/ db.vestnikMark = 0 /\ (run.since <= db.lastRun \/ run.since <= today' - RECENT_DAYS)
  BY <1>1 DEF Bounds
<1>4. run.mark <= today'
  BY <1>1 DEF Bounds
<1>5. run.seen = -1 \/ \E q \in released' : q.source = "itms" /\ run.seen <= q.raw.id
  BY DEF Bounds, Grows
<1> QED BY <1>1, <1>2, <1>3, <1>4, <1>5 DEF Bounds, Holds

LEMMA HoldsSuits ==
    ASSUME Inv, Inv', Grows, Places, Holds, NEW n, Suits(n), n.source = Source, run.step # "open"
    PROVE  Suits(n)'
<1>1. Source \in run.opened
  BY Opened DEF Holds
<1> QED BY <1>1, SuitsStay DEF Holds

LEMMA HoldsFresh ==
    ASSUME Inv, Inv', Grows, Handling, Holds
    PROVE  QueueFresh' /\ BufferFresh' /\ Source' = Source
<1>1. Source' = Source /\ run'.queue = run.queue /\ run'.buffer = run.buffer /\ released \subseteq released'
  BY DEF Holds, Source, Grows
<1>2. Places /\ QueueFresh /\ BufferFresh
  BY DEF Handling
<1>3. ToSet(<<>>) = {}
  BY DEF ToSet
<1>4. run.step = "open" => ToSet(run.queue) = {} /\ ToSet(run.buffer) = {}
  BY <1>2, <1>3 DEF Places
<1>5. Source \in {"vestnik", "crz", "ted", "itms"}
  BY <1>2, Opened DEF Holds
<1>6. BufferFresh'
  <2>1. \A n \in ToSet(run.buffer) : n.source = Source /\ Suits(n)'
    BY <1>2, <1>4, HoldsSuits DEF BufferFresh
  <2> QED BY <1>1, <2>1 DEF BufferFresh
<1>7. QueueFresh'
  <2>1. CASE Source = "vestnik"
    <3>1. today \in Int /\ today' \in Int /\ today <= today'
      BY PipelineAssumption DEF Inv, WorldOK, Grows
    <3>2. \A b \in ToSet(run.queue) : b.modified \in Int
      <4>1. QueueOK(Bulletins, "vestnik", run.queue)
        BY <1>2, <2>1, Opened DEF Inv, RunOK, Holds
      <4> QED BY <4>1, PipelineAssumption DEF QueueOK, Queued, ToSet
    <3>3. \A b \in ToSet(run.queue) : b.modified <= today'
      BY <1>2, <2>1, <3>1, <3>2 DEF QueueFresh
    <3> QED BY <1>1, <2>1, <3>3 DEF QueueFresh
  <2>2. CASE Source # "vestnik"
    <3>1. ASSUME NEW raw \in ToSet(run.queue) PROVE Suits(Transform(Source, raw))'
      <4> DEFINE n == Transform(Source, raw)
      <4>1. n.source = Source
        BY <1>5, KeyOfRecord
      <4>2. Suits(n) /\ run.step # "open"
        BY <1>2, <1>4, <2>2, <3>1 DEF QueueFresh
      <4>3. Suits(n)'
        <5> HIDE DEF n
        <5> SUFFICES ASSUME NEW m, Suits(m), m.source = Source PROVE Suits(m)'
          BY <1>1, <4>1, <4>2 DEF n
        <5> QED BY <1>2, <4>2, HoldsSuits
      <4> QED BY <4>3
    <3>2. \A raw \in ToSet(run.queue) : \E q \in released' : q.source = Source /\ q.raw = raw
      BY <1>1, <1>2, <2>2 DEF QueueFresh
    <3>3. Source = "itms" => /\ \A j, k \in DOMAIN run.queue : j < k => run.queue[j].id <= run.queue[k].id
                             /\ \A a, b \in ToSet(run.queue) : a.id = b.id => a = b
      BY <1>2, <2>2 DEF QueueFresh
    <3> HIDE DEF Source
    <3> QED BY <1>1, <2>2, <3>1, <3>2, <3>3 DEF QueueFresh
  <2> QED BY <2>1, <2>2
<1> QED BY <1>1, <1>6, <1>7

\* What is safe and not late stays safe.
SafeOnes(S) == \A r \in released : Counts(r) /\ Safe(r) /\ r \notin S => Safe(r)'

LEMMA CountsBefore ==
    ASSUME released \subseteq released', NEW r \in released, Counts(r)'
    PROVE  Counts(r)
BY LatestBefore DEF Counts

\* The marks go on to be behind the data, between runs ...
LEMMA MarksStayIdle ==
    ASSUME Inv, Inv', Grows, MarksFollowData, SafeOnes({}),
           db'.lastRun = db.lastRun, db'.vestnikMark = db.vestnikMark, db'.itmsMin = db.itmsMin,
           \A r \in released' \ released : ~Passed(r)' \/ Missed(r)'
    PROVE  MarksFollowData'
<1> SUFFICES ASSUME NEW r \in released', Counts(r)', Passed(r)' PROVE Safe(r)'
  BY DEF MarksFollowData
<1>1. CASE r \in released
  <2>1. Counts(r)
    BY <1>1, CountsBefore DEF Grows
  <2>2. Passed(r)
    BY <1>1, PassedBefore DEF Grows, Inv, WorldOK
  <2> QED BY <1>1, <2>1, <2>2 DEF MarksFollowData, SafeOnes
<1>2. CASE r \notin released
  BY <1>2 DEF Safe, Excused
<1> QED BY <1>1, <1>2

\* ... and while one goes on.
LEMMA MarksStay ==
    ASSUME Inv, Inv', Grows, LossInv, run # Idle, SafeOnes(run.late),
           db'.lastRun = db.lastRun, db'.vestnikMark = db.vestnikMark, db'.itmsMin = db.itmsMin,
           \A r \in released' \ released : ~Passed(r)' \/ Missed(r)'
    PROVE  MarksFollowData'
<1> SUFFICES ASSUME NEW r \in released', Counts(r)', Passed(r)' PROVE Safe(r)'
  BY DEF MarksFollowData
<1>1. CASE r \in released
  <2>1. Counts(r)
    BY <1>1, CountsBefore DEF Grows
  <2>2. Passed(r)
    BY <1>1, PassedBefore DEF Grows, Inv, WorldOK
  <2>3. CASE r \in run.late
    <3>1. Missed(r)
      BY <2>1, <2>2, <2>3, LateNotPassed DEF Counts
    <3>2. Missed(r)'
      BY <1>1, <3>1, MissedStays DEF Inv, WorldOK
    <3> QED BY <3>2 DEF Safe, Excused
  <2>4. CASE r \notin run.late
    BY <1>1, <2>1, <2>2, <2>4 DEF LossInv, World, MarksFollowData, SafeOnes
  <2> QED BY <2>3, <2>4
<1>2. CASE r \notin released
  BY <1>2 DEF Safe, Excused
<1> QED BY <1>1, <1>2

LEMMA SafeOnesWhileStoresStay ==
    ASSUME Inv, Inv', Grows, StoresStay
    PROVE  \A S : SafeOnes(S)
BY SafeWhileStoresStay DEF SafeOnes, Inv, WorldOK

\* The sources read, and the one being read.
LEMMA HoldsProgress ==
    ASSUME Inv, Inv', Grows, LossInv, Holds, SafeOnes(run.late), run'.step \in Working => run.step \in Working
    PROVE  SourcesDone' /\ SourceInHand'
<1>1. Places /\ SourcesDone /\ SourceInHand
  BY DEF LossInv, Handling, Progress, Holds
<1>2. /\ Source' = Source /\ run'.opened = run.opened /\ run.late \subseteq run'.late
      /\ run'.queue = run.queue /\ run'.buffer = run.buffer /\ run'.seen = run.seen
  BY DEF Holds, Source
<1>3. SourcesDone'
  <2> SUFFICES ASSUME NEW r \in released', Counts(r)', r.source \in run.opened \ {Source}
               PROVE  Safe(r)' \/ r \in run'.late
    BY <1>2 DEF SourcesDone
  <2>1. CASE r \in released
    <3>1. Counts(r)
      BY <2>1, CountsBefore DEF Grows
    <3> QED BY <1>1, <1>2, <2>1, <3>1 DEF SourcesDone, SafeOnes
  <2>2. CASE r \notin released
    BY <2>2 DEF Holds
  <2> QED BY <2>1, <2>2
<1>4. SourceInHand'
  <2> SUFFICES ASSUME run'.step \in Working, NEW r \in released', Counts(r)', r.source = Source
               PROVE  Safe(r)' \/ r \in run'.late \/ Notice(r) \in ToSet(run.buffer) \/ InLine(r)'
    BY <1>2 DEF SourceInHand, Notice
  <2>1. CASE r \in released
    <3>1. Counts(r)
      BY <2>1, CountsBefore DEF Grows
    <3>2. InLine(r) => InLine(r)'
      BY <1>2 DEF InLine
    <3> QED BY <1>1, <1>2, <2>1, <3>1, <3>2 DEF SourceInHand, SafeOnes
  <2>2. CASE r \notin released
    <3>1. run.step # "open" /\ run # Idle
      BY DEF Working, Holds
    <3>2. Source \in run.opened
      BY <1>1, <3>1, Opened
    <3> QED BY <2>2, <3>2 DEF Holds
  <2> QED BY <2>1, <2>2
<1> QED BY <1>3, <1>4

-----------------------------------------------------------------------------
(* A release or a day *)

LEMMA ArrivalKeeps ==
    ASSUME Inv, Inv', LossInv, Calendar', NEW R, Arrives(R)
    PROVE  LossInv'
<1>1. /\ Grows /\ StoresStay /\ db' = db /\ past' = past /\ cached' = cached
      /\ released' = released \cup R /\ \A S : SafeOnes(S)
  BY ArrivalGrows, SafeOnesWhileStoresStay
<1>2. /\ run.step \in {"idle", "open", "fetch", "finish"}
      /\ run' = (IF run = Idle THEN Idle
                 ELSE [run EXCEPT !.late = @ \cup {r \in R : r.source \in run.opened}])
  BY DEF Arrives, Noticeable, Publish
<1>3. ASSUME run # Idle PROVE Holds /\ run'.step = run.step
                              /\ run'.late = run.late \cup {r \in R : r.source \in run.opened}
  <2>1. DOMAIN run = RunFields
    BY <1>3 DEF Inv, RunOK
  <2>2. /\ run'.queue = run.queue /\ run'.buffer = run.buffer /\ run'.stage = run.stage
        /\ run'.opened = run.opened /\ run'.mark = run.mark /\ run'.seen = run.seen
        /\ run'.from = run.from /\ run'.since = run.since /\ run'.step = run.step /\ run'.todo = run.todo
        /\ run'.late = run.late \cup {r \in R : r.source \in run.opened}
    BY <1>2, <1>3, <2>1 DEF RunFields
  <2>3. run.step \in RunSteps
    BY <1>3 DEF Inv, RunOK
  <2>4. run' # Idle
    BY <2>2, <2>3 DEF Idle, RunSteps, Saving
  <2>5. \A r \in released' \ released : r.source \in run.opened => r \in run'.late
    BY <1>1, <2>2
  <2> QED BY <1>1, <1>3, <2>2, <2>4, <2>5 DEF Holds
<1>4. \A r \in released' \ released : ~Passed(r)' \/ Missed(r)'
  BY <1>1, ArrivalNotPassed DEF LossInv, World
<1>5. MarksFollowData'
  <2>1. CASE run = Idle
    BY <1>1, <1>4, MarksStayIdle DEF LossInv, World
  <2>2. CASE run # Idle
    BY <1>1, <1>4, <2>2, MarksStay
  <2> QED BY <2>1, <2>2
<1>6. CachedOK'
  BY <1>1 DEF LossInv, World, CachedOK
<1>7. ToRegister = {} /\ run.step # "registry"
  BY <1>2 DEF ToRegister
<1>8. RegistryOK'
  BY <1>1, <1>7 DEF LossInv, World, RegistryOK
<1>9. ASSUME run' # Idle PROVE Handling' /\ Progress'
  <2>1. run # Idle /\ Holds /\ Handling /\ Progress /\ run'.step = run.step
        /\ run'.late = run.late \cup {r \in R : r.source \in run.opened}
    BY <1>2, <1>3, <1>9 DEF LossInv
  <2>2. Bounds' /\ QueueFresh' /\ BufferFresh' /\ Source' = Source
    BY <1>1, <2>1, HoldsBounds, HoldsFresh DEF Handling
  <2>3. SourcesDone' /\ SourceInHand'
    BY <1>1, <2>1, HoldsProgress
  <2>4. run'.todo = run.todo
    <3>1. DOMAIN run = RunFields
      BY <2>1 DEF Inv, RunOK
    <3> QED BY <1>2, <2>1, <3>1 DEF RunFields
  <2>5. Places'
    BY <2>1, <2>2, <2>4 DEF Handling, Places, Holds
  <2>6. BufferInHand' /\ ChunkStored'
    BY <1>2, <2>1 DEF BufferInHand, SoFar, ChunkStored
  <2>7. ASSUME NEW r \in run'.late
        PROVE  /\ r \in released' /\ r.source \in run'.opened
               /\ r.day >= db'.lastRun \/ r \in past'.late
               /\ r.day >= db'.vestnikMark /\ r.day >= run'.mark
               /\ Source' = "vestnik" => \A b \in ToSet(run'.queue) : b.modified <= r.day
               /\ r.source = "itms" /\ r \in Latest' =>
                    \/ Missed(r)'
                    \/ r.raw.id > run'.seen /\ \A raw \in ToSet(run'.queue) : raw.id < r.raw.id
    <3>1. run'.opened = run.opened /\ run'.mark = run.mark /\ run'.seen = run.seen /\ run'.queue = run.queue
      BY <2>1 DEF Holds
    <3>2. CASE r \in run.late
      <4>1. LateOK /\ r \in released /\ r \in Releases
        BY <2>1, <3>2 DEF Handling, LateOK, Inv, WorldOK
      <4>2. r.source = "itms" /\ r \in Latest' => r \in Latest /\ (Missed(r) => Missed(r)')
        BY <1>1, <4>1, LatestBefore, MissedStays DEF Grows
      <4> QED BY <1>1, <2>2, <3>1, <3>2, <4>1, <4>2 DEF LateOK
    <3>3. CASE r \in R /\ r.source \in run.opened
      <4>1. /\ r \in released' /\ r \in Releases /\ r.day = today' /\ today' \in Int /\ today \in Int
            /\ today <= today' /\ r.day \in Int
        BY <1>1, <3>3, ReleaseFacts DEF Arrives
      <4>2. /\ db.lastRun \in Int /\ db.vestnikMark \in Int /\ run.mark \in Int /\ run.seen \in Int
            /\ db.lastRun <= today /\ db.vestnikMark <= today /\ run.mark <= today
        BY <2>1 DEF Inv, DbOK, RunOK, LossInv, World, Calendar, Handling, Bounds
      <4>3. r.day >= db'.lastRun /\ r.day >= db'.vestnikMark /\ r.day >= run.mark
        BY <1>1, <4>1, <4>2
      <4>4. Source = "vestnik" => \A b \in ToSet(run.queue) : b.modified <= r.day
        <5> SUFFICES ASSUME Source = "vestnik", NEW b \in ToSet(run.queue) PROVE b.modified <= r.day
          OBVIOUS
        <5>1. b.modified \in Int
          <6>1. QueueOK(Bulletins, "vestnik", run.queue)
            BY <2>1, Opened DEF Inv, RunOK, Handling
          <6> QED BY <6>1, PipelineAssumption DEF QueueOK, Queued, ToSet
        <5>2. b.modified <= today
          BY <2>1 DEF Handling, QueueFresh
        <5> QED BY <4>1, <5>1, <5>2
      <4>5. CASE r.source = "itms"
        <5>1. Source = "itms"
          BY <2>1, <3>3, <4>5, Opened DEF Handling
        <5>2. \A q \in released : q.source = "itms" => q.raw.id < r.raw.id \/ Missed(r)'
          BY <3>3, <4>5, NewAboveOld DEF LossInv, World
        <5>3. \A q \in released : q.source = "itms" => q.raw.id \in Int
          BY ReleaseFacts DEF Inv, WorldOK
        <5>4. \A raw \in ToSet(run.queue) : \E q \in released : q.source = "itms" /\ q.raw = raw
          BY <2>1, <5>1 DEF Handling, QueueFresh
        <5>5. r.raw.id \in Nat
          BY <4>1, <4>5, ReleaseFacts
        <5>6. run.seen = -1 \/ \E q \in released : q.source = "itms" /\ run.seen <= q.raw.id
          BY <2>1 DEF Handling, Bounds
        <5>7. Missed(r)' \/ r.raw.id > run.seen
          BY <4>2, <5>2, <5>3, <5>5, <5>6
        <5>8. Missed(r)' \/ \A raw \in ToSet(run.queue) : raw.id < r.raw.id
          BY <5>2, <5>4
        <5> QED BY <2>2, <3>1, <3>3, <4>1, <4>3, <4>4, <5>7, <5>8
      <4>6. CASE r.source # "itms"
        BY <2>2, <3>1, <3>3, <4>1, <4>3, <4>4, <4>6
      <4> QED BY <4>5, <4>6
    <3> QED BY <2>1, <3>2, <3>3
  <2>8. LateOK'
    BY <2>7 DEF LateOK
  <2> QED BY <2>2, <2>3, <2>5, <2>6, <2>8 DEF Handling, Progress
<1>10. PastOK'
  BY <1>1 DEF LossInv, World, PastOK
<1> QED BY <1>5, <1>6, <1>8, <1>9, <1>10 DEF LossInv, World

-----------------------------------------------------------------------------
(* A run starts *)

LEMMA StartKeepsLoss ==
    ASSUME Inv, Inv', LossInv, NEW mode \in {"recent", "historical"}, Start(mode)
    PROVE  LossInv'
<1> DEFINE from == FromDate(mode)
           since == IF mode = "historical" THEN 0
                    ELSE IF db.vestnikMark # 0 THEN db.vestnikMark ELSE from
<1>1. /\ today' = today /\ released' = released /\ cached' = cached /\ db' = db /\ run = Idle
      /\ past' = [past EXCEPT !.runs = @ + 1]
  BY DEF Start
<1>2. /\ run'.step = "open" /\ run'.stage = 1 /\ run'.mark = 0 /\ run'.seen = db.itmsMin - 1
      /\ run'.queue = <<>> /\ run'.buffer = <<>> /\ run'.todo = <<>>
      /\ run'.from = from /\ run'.since = since /\ run'.opened = {} /\ run'.late = {}
  BY DEF Start
<1>3. PastOK' /\ past'.harmed = past.harmed /\ past'.late = past.late
      /\ past'.merged = past.merged /\ past'.behind = past.behind
  BY <1>1 DEF LossInv, World, PastOK
<1>4. today \in Int /\ RECENT_DAYS \in Int /\ db.lastRun \in Int /\ db.vestnikMark \in Int /\ db.itmsMin \in Nat
      /\ today >= 0
  BY PipelineAssumption DEF Inv, WorldOK, DbOK
<1>5. Grows /\ StoresStay
  BY <1>1, <1>3, <1>4 DEF Grows, StoresStay
<1>6. MarksFollowData'
  BY <1>1, <1>5, MarksStayIdle, SafeOnesWhileStoresStay DEF LossInv, World
<1>7. Calendar' /\ CachedOK'
  BY <1>1 DEF LossInv, World, Calendar, CachedOK
<1>8. RegistryOK'
  <2>1. ToRegister = {}
    BY <1>1 DEF ToRegister
  <2> QED BY <1>1, <1>3, <2>1 DEF LossInv, World, RegistryOK
<1>9. /\ from \in Int /\ (from = 1 \/ from <= db.lastRun \/ from <= today - RECENT_DAYS)
      /\ mode = "recent" => from <= db.lastRun \/ from <= today - RECENT_DAYS
  BY <1>4 DEF FromDate, Larger
<1> HIDE DEF from
<1>10. /\ since \in Int
       /\ \/ since = 0
          \/ db.vestnikMark # 0 /\ since = db.vestnikMark
          \/ db.vestnikMark = 0 /\ (since <= db.lastRun \/ since <= today - RECENT_DAYS)
  BY <1>4, <1>9
<1> HIDE DEF since
<1>11. Bounds'
  <2>1. db.itmsMin <= run'.seen + 1
    BY <1>2, <1>4
  <2>2. run'.seen = -1 \/ \E q \in released : q.source = "itms" /\ run'.seen <= q.raw.id
    <3>1. CASE db.itmsMin = 0
      BY <1>2, <3>1
    <3>2. CASE \E q \in released : q.source = "itms" /\ db.itmsMin <= q.raw.id + 1
      <4>1. PICK q \in released : q.source = "itms" /\ db.itmsMin <= q.raw.id + 1
        BY <3>2
      <4>2. q.raw.id \in Nat
        BY <4>1, ReleaseFacts DEF Inv, WorldOK
      <4>3. run'.seen <= q.raw.id
        BY <1>2, <1>4, <4>1, <4>2
      <4> QED BY <4>1, <4>3
    <3> QED BY <3>1, <3>2 DEF LossInv, World, Calendar
  <2>3. run'.mark <= today
    BY <1>2, <1>4
  <2> QED BY <1>1, <1>2, <1>9, <1>10, <2>1, <2>2, <2>3 DEF Bounds
<1>12. ToSet(<<>>) = {}
  BY DEF ToSet
<1>13. Source' = "vestnik"
  BY <1>2 DEF Source, Stages
<1>14. Places'
  <2>1. {Stages[k] : k \in 1..(1 - 1)} = {}
    OBVIOUS
  <2> QED BY <1>2, <1>12, <2>1 DEF Places
<1>15. QueueFresh' /\ BufferFresh' /\ LateOK'
  BY <1>2, <1>12, <1>13 DEF QueueFresh, BufferFresh, LateOK
<1>16. SourcesDone' /\ SourceInHand' /\ BufferInHand' /\ ChunkStored'
  BY <1>2 DEF SourcesDone, SourceInHand, Working, BufferInHand, SoFar, ChunkStored
<1> QED BY <1>3, <1>6, <1>7, <1>8, <1>11, <1>14, <1>15, <1>16 DEF LossInv, World, Handling, Progress

-----------------------------------------------------------------------------
(* A source is opened *)

\* A step that leaves the world and the stores as they are.
Inside ==
    /\ today' = today /\ released' = released /\ db' = db
    /\ past.harmed \subseteq past'.harmed /\ past.late \subseteq past'.late
    /\ past.merged \subseteq past'.merged /\ past.behind \subseteq past'.behind /\ PastOK'
    /\ \A url \in DOMAIN cached : url \in DOMAIN cached' /\ cached'[url] = cached[url]
    /\ run # Idle /\ run.step # "registry" /\ run'.step # "registry"

LEMMA InsideKeepsWorld ==
    ASSUME Inv, Inv', LossInv, Inside, CachedOK'
    PROVE  World' /\ Grows /\ StoresStay /\ \A S : SafeOnes(S)
<1>1. today \in Int /\ db.lastRun \in Int
  BY PipelineAssumption DEF Inv, WorldOK, DbOK
<1>2. Grows /\ StoresStay
  BY <1>1 DEF Inside, Grows, StoresStay
<1>3. \A S : SafeOnes(S)
  BY <1>2, SafeOnesWhileStoresStay
<1>4. MarksFollowData'
  BY <1>2, <1>3, MarksStay DEF Inside
<1>5. Calendar'
  BY DEF LossInv, World, Calendar, Inside
<1>6. RegistryOK'
  <2>1. ToRegister = {}
    BY DEF ToRegister, Inside
  <2> QED BY <2>1 DEF LossInv, World, RegistryOK, Inside
<1> QED BY <1>2, <1>3, <1>4, <1>5, <1>6 DEF World, Inside

\* What a source is not asked for is beyond its marks, or out of reach.
LEMMA OpenSourceInHand ==
    ASSUME Inv, LossInv, OpenSource, NEW r \in released, Counts(r), r.source = Source
    PROVE  Passed(r) \/ Missed(r) \/ Waits(Source, Query, run.seen, r)
<1>1. run.step = "open" /\ run # Idle
  BY DEF OpenSource, Idle
<1>2. Bounds /\ Places
  BY <1>1 DEF LossInv, Handling
<1>3. /\ r \in Releases /\ r.day \in Int /\ r.day >= 1 /\ today \in Int /\ RECENT_DAYS \in Int
      /\ db.lastRun \in Int /\ db.vestnikMark \in Int /\ run.from \in Int /\ run.since \in Int
      /\ released \subseteq Releases
  BY <1>2, ReleaseFacts, PipelineAssumption DEF Inv, WorldOK, DbOK, Bounds
<1>4. Source \in {"vestnik", "crz", "ted", "itms"} /\ (run.stage = 1 <=> Source = "vestnik")
  BY <1>1, <1>2, Opened
<1>5. r \in OfSource
  BY DEF OfSource, Counts
<1>6. r.day < today - RECENT_DAYS => Missed(r)
  BY DEF Missed
<1>7. CASE Source = "vestnik"
  <2> DEFINE modified == Modified(r.url)
  <2>1. r.day <= modified /\ modified \in Int
    BY <1>3, ModifiedIsLatest
  <2>2. r.url \in Bulletins
    BY <1>7 DEF Bulletins
  <2>3. CASE modified >= run.since
    <3> DEFINE b == [url |-> r.url, modified |-> modified]
    <3>1. b \in ToSet(Query) /\ b.url = r.url
      BY <1>3, <1>7, <2>2, <2>3, VestnikQuery
    <3> HIDE DEF b
    <3> QED BY <1>7, <3>1, WaitsBySource
  <2>4. CASE modified < run.since
    <3>1. \/ run.since = 0
          \/ db.vestnikMark # 0 /\ run.since = db.vestnikMark
          \/ db.vestnikMark = 0 /\ (run.since <= db.lastRun \/ run.since <= today - RECENT_DAYS)
      BY <1>1, <1>2, <1>4, <1>7 DEF Bounds
    <3>2. Passed(r) <=> modified < (IF db.vestnikMark # 0 THEN db.vestnikMark ELSE db.lastRun)
      BY <1>7, BeyondBySource DEF Passed
    <3> HIDE DEF modified
    <3> QED BY <1>3, <1>6, <2>1, <2>4, <3>1, <3>2
  <2> QED BY <1>3, <2>1, <2>3, <2>4
<1>8. CASE Source \in {"crz", "ted"}
  <2> DEFINE S == {q \in OfSource : q.day >= run.from}
  <2>1. CASE r.day >= run.from
    <3>1. S \subseteq Releases /\ r \in S
      BY <1>3, <1>5, <2>1 DEF OfSource, Latest
    <3>2. Query = RawsByDay(S)
      BY <1>8 DEF Query
    <3> HIDE DEF S
    <3>3. r.raw \in ToSet(Query)
      BY <3>1, <3>2, RawsSet
    <3> QED BY <1>8, <3>3, WaitsBySource
  <2>2. CASE r.day < run.from
    <3>1. run.from = 1 \/ run.from <= db.lastRun \/ run.from <= today - RECENT_DAYS
      BY <1>2 DEF Bounds
    <3>2. Passed(r) <=> r.day < db.lastRun
      BY <1>8, BeyondBySource DEF Passed
    <3> QED BY <1>3, <1>6, <2>2, <3>1, <3>2
  <2> QED BY <1>3, <2>1, <2>2
<1>9. CASE Source = "itms"
  <2>1. run.seen = db.itmsMin - 1 /\ db.itmsMin \in Int /\ r.raw.id \in Int
    BY <1>1, <1>2, <1>3, <1>9, ReleaseFacts DEF Bounds, Inv, DbOK
  <2>2. CASE r.raw.id >= db.itmsMin
    <3> DEFINE wanted == {q.raw : q \in {q \in OfSource : q.raw.id >= db.itmsMin}}
    <3>1. r.raw \in wanted
      BY <1>5, <2>2
    <3>2. ToSet(Query) \subseteq wanted /\ (r.raw \in ToSet(Query) \/ \A other \in ToSet(Query) : other.id <= r.raw.id)
      BY <1>3, <1>9, <3>1, ItmsQuery
    <3>3. ASSUME NEW other \in ToSet(Query) PROVE other.id \in Int /\ (other.id = r.raw.id => other = r.raw)
      <4>1. PICK q \in OfSource : q.raw = other
        BY <3>2
      <4>2. q \in Latest /\ q \in Releases /\ q.source = "itms"
        BY <1>3, <1>9 DEF OfSource, Latest
      <4>3. q.raw.id \in Int /\ (q.raw.id = r.raw.id => RecordOf(q) = RecordOf(r))
        BY <1>3, <1>9, <4>2, ReleaseFacts
      <4>4. r \in Latest
        BY DEF Counts
      <4> QED BY <1>3, <4>1, <4>2, <4>3, <4>4, LatestOne
    <3>4. r.raw \in ToSet(Query) \/ \A other \in ToSet(Query) : other.id < r.raw.id
      BY <2>1, <3>2, <3>3
    <3>5. r.raw.id > run.seen
      BY <2>1, <2>2
    <3> QED BY <1>9, <3>4, <3>5, WaitsBySource
  <2>3. CASE r.raw.id < db.itmsMin
    BY <1>9, <2>3, BeyondBySource DEF Passed
  <2> QED BY <2>1, <2>2, <2>3
<1> QED BY <1>4, <1>7, <1>8, <1>9

\* What a source lists was released, and is the latest of its record.
LEMMA OpenSourceFresh ==
    ASSUME Inv, OpenSource, Source # "vestnik", Source \in {"vestnik", "crz", "ted", "itms"}
    PROVE  /\ \A raw \in ToSet(Query) : \E q \in Latest : q.source = Source /\ q.raw = raw
           /\ Source = "itms" => \A j, k \in DOMAIN Query : j < k => Query[j].id <= Query[k].id
<1>1. released \subseteq Releases
  BY DEF Inv, WorldOK
<1>2. CASE Source \in {"crz", "ted"}
  <2> DEFINE S == {q \in OfSource : q.day >= run.from}
  <2>1. S \subseteq Releases /\ S \subseteq OfSource
    BY <1>1 DEF OfSource, Latest
  <2>2. Query = RawsByDay(S)
    BY <1>2 DEF Query
  <2> HIDE DEF S
  <2>3. ToSet(Query) = {q.raw : q \in S}
    BY <2>1, <2>2, RawsSet
  <2> QED BY <1>2, <2>1, <2>3 DEF OfSource
<1>3. CASE Source = "itms"
  BY <1>1, <1>3, ItmsQuery DEF OfSource
<1> QED BY <1>2, <1>3

LEMMA OpenSourceKeepsLoss ==
    ASSUME Inv, Inv', LossInv, OpenSource
    PROVE  LossInv'
<1>a. PICK query : query = Query
  OBVIOUS
<1>b. PICK source : source = Source
  OBVIOUS
<1>1. /\ today' = today /\ released' = released /\ cached' = cached /\ db' = db /\ past' = past
      /\ run.step = "open" /\ run # Idle
      /\ run' = [run EXCEPT !.step = "fetch", !.queue = query, !.opened = @ \cup {source}]
  BY <1>a, <1>b DEF OpenSource, Idle
<1>2. RunOK(Bulletins, run) /\ Handling /\ Progress /\ World
  BY <1>1 DEF Inv, LossInv
<1>3. /\ run'.step = "fetch" /\ run'.queue = query /\ run'.opened = run.opened \cup {source}
      /\ run'.stage = run.stage /\ run'.mark = run.mark /\ run'.seen = run.seen
      /\ run'.buffer = run.buffer /\ run'.todo = run.todo /\ run'.late = run.late
      /\ run'.from = run.from /\ run'.since = run.since
  BY <1>1, <1>2 DEF RunOK, RunFields
<1>4. Places /\ Bounds /\ run.buffer = <<>> /\ run.todo = <<>>
  BY <1>1, <1>2 DEF Handling, Places, RunOK, Saving
<1>5. /\ source \in {"vestnik", "crz", "ted", "itms"} /\ source = Stages[run.stage] /\ source = Source
      /\ Source' = source /\ source \notin run.opened
      /\ ("itms" \in run.opened => source = "itms") /\ (source = "vestnik" => run.opened \subseteq {"vestnik"})
  BY <1>1, <1>3, <1>4, <1>b, Opened DEF Source
<1>6. CachedOK' /\ PastOK'
  BY <1>1, <1>2 DEF World, CachedOK, PastOK
<1>7. Inside
  BY <1>1, <1>3, <1>6 DEF Inside
<1>8. World' /\ Grows /\ StoresStay /\ \A S : SafeOnes(S)
  BY <1>6, <1>7, InsideKeepsWorld
<1>9. ToSet(<<>>) = {} /\ ToSet(run'.buffer) = {} /\ ToSet(run'.todo) = {}
  BY <1>3, <1>4 DEF ToSet
<1>10. Bounds'
  BY <1>1, <1>3, <1>4 DEF Bounds
<1>11. Places'
  <2>1. run.stage \in 1..4
    BY <1>2 DEF RunOK
  <2>2. run.opened = {Stages[k] : k \in 1..(run.stage - 1)}
    BY <1>1, <1>4 DEF Places
  <2>3. run'.opened = {Stages[k] : k \in 1..run.stage}
    <3>1. 1..run.stage = (1..(run.stage - 1)) \cup {run.stage}
      BY <2>1
    <3>2. {Stages[k] : k \in 1..run.stage} = {Stages[k] : k \in 1..(run.stage - 1)} \cup {Stages[run.stage]}
      BY <3>1, Zenon
    <3> QED BY <1>3, <1>5, <2>2, <3>2
  <2> QED BY <1>3, <1>4, <1>9, <2>3 DEF Places
<1>12. \A r \in released : r \in Releases
  BY DEF Inv, WorldOK
<1>13. QueueFresh'
  <2>1. CASE source = "vestnik"
    <3>1. ToSet(query) = {[url |-> url, modified |-> Modified(url)] :
                              url \in {url \in Bulletins : Modified(url) >= run.since}}
      BY <1>5, <1>12, <2>1, <1>a, VestnikQuery
    <3>2. ASSUME NEW url \in Bulletins PROVE Modified(url) <= today
      <4>1. PICK r \in released : r.url = url
        BY DEF Bulletins
      <4>2. PICK q \in released : q.url = url /\ q.day = Modified(url)
        BY <1>12, <4>1, ModifiedIsLatest
      <4> QED BY <1>2, <4>2 DEF World, Calendar
    <3> QED BY <1>1, <1>3, <1>5, <2>1, <3>1, <3>2 DEF QueueFresh
  <2>2. CASE source # "vestnik"
    <3>1. /\ \A raw \in ToSet(query) : \E q \in Latest : q.source = source /\ q.raw = raw
          /\ source = "itms" => \A j, k \in DOMAIN query : j < k => query[j].id <= query[k].id
      BY <1>5, <2>2, <1>a, OpenSourceFresh
    <3>2. ASSUME NEW raw \in ToSet(query)
          PROVE  Suits(Transform(source, raw))' /\ \E q \in released : q.source = source /\ q.raw = raw
      <4>1. PICK q \in Latest : q.source = source /\ q.raw = raw
        BY <3>1
      <4>2. q \in released /\ Notice(q) = Transform(source, raw) /\ KeyOf(Notice(q)) = RecordOf(q)
        BY <1>12, <4>1, ReleaseFacts DEF Latest, Notice
      <4>3. ASSUME NEW r \in Latest', RecordOf(r) = RecordOf(q) PROVE Notice(r) = Notice(q)
        <5>1. r \in Latest
          BY <1>1, <4>3 DEF Latest, Revised
        <5> QED BY <1>12, <4>1, <4>3, <5>1, LatestOne
      <4>4. PICK n : n = Transform(source, raw)
        OBVIOUS
      <4>5. \A r \in Latest' : RecordOf(r) = KeyOf(n) => n = Notice(r)
        BY <4>2, <4>3, <4>4
      <4>6. Suits(n)'
        <5> HIDE DEF RecordOf, KeyOf
        <5> QED BY <4>5 DEF Suits, Notice, RecordOf
      <4> QED BY <4>1, <4>2, <4>4, <4>6
    <3>3. ASSUME source = "itms", NEW a \in ToSet(query), NEW b \in ToSet(query), a.id = b.id PROVE a = b
      <4>1. PICK p \in Latest : p.source = source /\ p.raw = a
        BY <3>1
      <4>2. PICK q \in Latest : q.source = source /\ q.raw = b
        BY <3>1
      <4>3. p \in Releases /\ q \in Releases
        BY <1>12 DEF Latest
      <4>4. RecordOf(p) = RecordOf(q)
        BY <3>3, <4>1, <4>2, <4>3, ReleaseFacts
      <4> QED BY <1>12, <4>1, <4>2, <4>4, LatestOne
    <3> HIDE DEF Suits
    <3> QED BY <1>1, <1>3, <1>5, <2>2, <3>1, <3>2, <3>3 DEF QueueFresh
  <2> QED BY <2>1, <2>2
<1>14. BufferFresh'
  BY <1>9 DEF BufferFresh
<1>15. LateOK'
  <2> SUFFICES ASSUME NEW r \in run.late
               PROVE  /\ r \in released /\ r.source \in run'.opened
                      /\ r.day >= db.lastRun \/ r \in past.late
                      /\ r.day >= db.vestnikMark /\ r.day >= run.mark
                      /\ source # "vestnik" /\ r.source # "itms"
    BY <1>1, <1>3, <1>5 DEF LateOK
  <2>1. LateOK
    BY <1>2 DEF Handling
  <2>2. r.source \in run.opened
    BY <2>1 DEF LateOK
  <2> QED BY <1>3, <1>5, <2>1, <2>2 DEF LateOK
<1>16. SourcesDone'
  <2> SUFFICES ASSUME NEW r \in released, Counts(r)', r.source \in run.opened \ {source}
               PROVE  Safe(r)' \/ r \in run.late
    BY <1>1, <1>3, <1>5 DEF SourcesDone
  <2>1. Counts(r)
    BY <1>8, CountsBefore DEF Grows
  <2> QED BY <1>2, <1>5, <1>8, <2>1 DEF Progress, SourcesDone, SafeOnes
<1>17. SourceInHand'
  <2> SUFFICES ASSUME NEW r \in released, Counts(r)', r.source = source
               PROVE  Safe(r)' \/ InLine(r)'
    BY <1>1, <1>5 DEF SourceInHand
  <2>1. Counts(r)
    BY <1>8, CountsBefore DEF Grows
  <2>2. Passed(r) \/ Missed(r) \/ Waits(source, query, run.seen, r)
    BY <1>5, <2>1, <1>a, OpenSourceInHand
  <2>3. CASE Passed(r) \/ Missed(r)
    <3>1. Safe(r)
      BY <1>2, <2>1, <2>3 DEF World, MarksFollowData, Safe, Excused
    <3>2. SafeOnes({})
      BY <1>8
    <3> QED BY <2>1, <3>1, <3>2 DEF SafeOnes
  <2>4. CASE Waits(source, query, run.seen, r)
    BY <1>3, <1>5, <2>4 DEF InLine
  <2> QED BY <2>2, <2>3, <2>4
<1>18. BufferInHand' /\ ChunkStored'
  BY <1>3, <1>9 DEF BufferInHand, Pending, ChunkStored
<1> QED BY <1>8, <1>10, <1>11, <1>13, <1>14, <1>15, <1>16, <1>17, <1>18 DEF LossInv, Handling, Progress

-----------------------------------------------------------------------------
(* The steps that hold what the run held *)

LEMMA HoldsLate ==
    ASSUME Inv, Inv', Grows, LateOK, Holds, released' = released, run'.late = run.late
    PROVE  LateOK'
<1> SUFFICES ASSUME NEW r \in run.late
             PROVE  /\ r \in released /\ r.source \in run.opened
                    /\ r.day >= db.lastRun \/ r \in past'.late
                    /\ r.day >= db.vestnikMark /\ r.day >= run.mark
                    /\ Source = "vestnik" => \A b \in ToSet(run.queue) : b.modified <= r.day
                    /\ r.source = "itms" /\ r \in Latest' =>
                          \/ Missed(r)'
                          \/ r.raw.id > run.seen /\ \A raw \in ToSet(run.queue) : raw.id < r.raw.id
  BY DEF LateOK, Holds, Source
<1>1. r \in released /\ r \in Releases
  BY DEF LateOK, Inv, WorldOK
<1>2. r \in Latest' => r \in Latest
  BY <1>1, LatestBefore
<1>3. Missed(r) => Missed(r)'
  BY <1>1, MissedStays
<1>4. r \in past.late => r \in past'.late
  BY DEF Grows
<1> QED BY <1>1, <1>2, <1>3, <1>4 DEF LateOK

LEMMA HoldsHandling ==
    ASSUME Inv, Inv', Grows, Handling, Holds, released' = released, run'.late = run.late,
           ToSet(run'.todo) \subseteq ToSet(run'.buffer), run.step # "open",
           run'.step \in {"finish", "match"} => run.step \in {"finish", "match"},
           run'.step # "fetch", Source = "vestnik" => run.queue = <<>>
    PROVE  Handling'
<1>1. Bounds /\ Places /\ LateOK
  BY DEF Handling
<1>2. Bounds' /\ QueueFresh' /\ BufferFresh' /\ LateOK' /\ Source' = Source
  BY <1>1, HoldsBounds, HoldsFresh, HoldsLate
<1>3. /\ run'.opened = run.opened /\ run'.stage = run.stage /\ run'.queue = run.queue
      /\ run'.buffer = run.buffer /\ run'.step # "open"
  BY DEF Holds
<1>4. run'.opened = {Stages[k] : k \in 1..(IF run'.step = "open" THEN run'.stage - 1 ELSE run'.stage)}
  BY <1>1, <1>3 DEF Places
<1>5. /\ run'.step \in {"open", "finish", "match"} => run'.queue = <<>> /\ run'.buffer = <<>>
      /\ run'.step \in {"finish", "match"} => run'.stage = 4
  BY <1>1, <1>3 DEF Places
<1>6. Places'
  BY <1>2, <1>3, <1>4, <1>5 DEF Places
<1> QED BY <1>2, <1>6 DEF Handling

LEMMA FetchedBulletinsKeepLoss ==
    ASSUME Inv, Inv', LossInv, FetchedBulletins
    PROVE  LossInv'
<1>1. /\ today' = today /\ released' = released /\ cached' = cached /\ db' = db /\ past' = past
      /\ run.step = "fetch" /\ Source = "vestnik" /\ run.queue = <<>> /\ run # Idle
      /\ run' = Persist(run.buffer)
  BY DEF FetchedBulletins, Idle
<1>2. RunOK(Bulletins, run) /\ Handling /\ Progress /\ World
  BY <1>1 DEF Inv, LossInv
<1>3. /\ run'.step = (IF run.buffer = <<>> THEN "checkpoint" ELSE "notices")
      /\ run'.queue = run.queue /\ run'.opened = run.opened
      /\ run'.stage = run.stage /\ run'.mark = run.mark /\ run'.seen = run.seen
      /\ run'.buffer = run.buffer /\ run'.todo = run.buffer /\ run'.late = run.late
      /\ run'.from = run.from /\ run'.since = run.since
  BY <1>1, <1>2 DEF RunOK, RunFields, Persist
<1>4. run'.step \in {"checkpoint", "notices"} /\ run' # Idle
  BY <1>3 DEF Idle
<1>5. CachedOK' /\ PastOK'
  BY <1>1, <1>2 DEF World, CachedOK, PastOK
<1>6. Inside
  BY <1>1, <1>4, <1>5 DEF Inside
<1>7. World' /\ Grows /\ StoresStay /\ SafeOnes(run.late)
  BY <1>5, <1>6, InsideKeepsWorld
<1>8. Holds
  BY <1>1, <1>3, <1>4 DEF Holds
<1>9. Handling'
  BY <1>1, <1>2, <1>3, <1>4, <1>7, <1>8, HoldsHandling
<1>10. SourcesDone' /\ SourceInHand'
  <2>1. run.step \in Working
    BY <1>1 DEF Working
  <2> QED BY <1>7, <1>8, <2>1, HoldsProgress
<1>11. BufferInHand'
  <2> SUFFICES ASSUME NEW r, Pending(r)' PROVE SoFar(Notice(r))' /\ run'.step = "notices"
    BY DEF BufferInHand
  <2>1. Notice(r) \in ToSet(run'.buffer)
    BY DEF Pending, Notice
  <2>2. run.buffer # <<>>
    BY <1>3, <2>1 DEF ToSet
  <2>3. run'.step = "notices"
    BY <1>3, <2>2
  <2>4. Notice(r) \in ToSet(run'.todo)
    BY <1>3, <2>1
  <2> QED BY <2>3, <2>4 DEF SoFar, Notice
<1>12. ChunkStored'
  BY <1>4 DEF ChunkStored
<1> QED BY <1>7, <1>9, <1>10, <1>11, <1>12 DEF LossInv, Progress

-----------------------------------------------------------------------------
(* A bulletin is read *)

LEMMA BulletinSet ==
    ASSUME released \subseteq Releases, NEW url \in Bulletins
    PROVE  /\ ToSet(Bulletin(url)) = {r.raw : r \in {r \in Latest : r.url = url}}
           /\ \A r \in released : r.url = url => r.source = "vestnik"
<1>1. PICK q \in released : q.url = url /\ q.source = "vestnik"
  BY DEF Bulletins
<1>2. \A r \in released : r.url = url => r.source = "vestnik"
  BY <1>1, PipelineAssumption
<1> DEFINE S == {r \in Latest : r.url = url}
<1>3. S \subseteq Releases
  BY DEF Latest
<1> HIDE DEF S
<1>4. ToSet(RawsByDay(S)) = {r.raw : r \in S}
  BY <1>3, RawsSet
<1> QED BY <1>2, <1>4 DEF S, Bulletin

\* What is read of a bulletin, from its copy or by a download.
Copied(url) == IF url \in DOMAIN cached THEN cached[url] ELSE Bulletin(url)

LEMMA CopiesOK ==
    ASSUME Inv, CachedOK, NEW url \in Bulletins, released' = released,
           cached' = [u \in DOMAIN cached \cup {url} |-> IF u = url THEN Copied(url) ELSE cached[u]]
    PROVE  CachedOK' /\ url \in DOMAIN cached' /\ cached'[url] = Copied(url)
<1> DEFINE items == Copied(url)
<1>1. released \subseteq Releases
  BY DEF Inv, WorldOK
<1>2. /\ \A raw \in ToSet(items) : \E q \in released : q.source = "vestnik" /\ q.url = url /\ q.raw = raw
      /\ \A a, b \in ToSet(items) : a.id = b.id => a = b
  <2>1. CASE url \in DOMAIN cached
    BY <2>1 DEF Copied, CachedOK
  <2>2. CASE url \notin DOMAIN cached
    <3>1. /\ ToSet(items) = {r.raw : r \in {r \in Latest : r.url = url}}
          /\ \A r \in released : r.url = url => r.source = "vestnik"
      BY <1>1, <2>2, BulletinSet DEF Copied
    <3> HIDE DEF items
    <3>2. \A raw \in ToSet(items) : \E q \in released :
              q \in Latest /\ q.source = "vestnik" /\ q.url = url /\ q.raw = raw
      BY <3>1 DEF Latest
    <3>3. ASSUME NEW a \in ToSet(items), NEW b \in ToSet(items), a.id = b.id PROVE a = b
      <4>1. PICK p \in Latest : p.source = "vestnik" /\ p.raw = a
        BY <3>2
      <4>2. PICK q \in Latest : q.source = "vestnik" /\ q.raw = b
        BY <3>2
      <4>3. p \in Releases /\ q \in Releases
        BY <1>1 DEF Latest
      <4>4. RecordOf(p) = RecordOf(q)
        BY <3>3, <4>1, <4>2, <4>3, ReleaseFacts
      <4> QED BY <1>1, <4>1, <4>2, <4>4, LatestOne
    <3> QED BY <3>2, <3>3
  <2> QED BY <2>1, <2>2
<1>3. cached' = [u \in DOMAIN cached \cup {url} |-> IF u = url THEN items ELSE cached[u]]
  OBVIOUS
<1> HIDE DEF items
<1>4. DOMAIN cached' = DOMAIN cached \cup {url} /\ cached'[url] = items
      /\ \A u \in DOMAIN cached : u # url => cached'[u] = cached[u]
  BY <1>3
<1>5. ASSUME NEW u \in DOMAIN cached'
      PROVE  /\ \A raw \in ToSet(cached'[u]) :
                   \E q \in released' : q.source = "vestnik" /\ q.url = u /\ q.raw = raw
             /\ \A a, b \in ToSet(cached'[u]) : a.id = b.id => a = b
  <2>1. CASE u = url
    BY <1>2, <1>4, <2>1
  <2>2. CASE u # url
    <3>1. u \in DOMAIN cached /\ cached'[u] = cached[u]
      BY <1>4, <1>5, <2>2
    <3> QED BY <3>1 DEF CachedOK
  <2> QED BY <2>1, <2>2
<1>6. CachedOK'
  BY <1>5 DEF CachedOK
<1> QED BY <1>4, <1>6 DEF items

\* What is read suits, or is missed for the copy on disk.
LEMMA BulletinRead ==
    ASSUME Inv, CachedOK, NEW url \in Bulletins, released' = released, Source = "vestnik",
           cached' = [u \in DOMAIN cached \cup {url} |-> IF u = url THEN Copied(url) ELSE cached[u]]
    PROVE  /\ \A n \in ToSet(Transformed(Copied(url))) : n.source = "vestnik" /\ Suits(n)'
           /\ \A r \in released : Counts(r) /\ r.source = "vestnik" /\ r.url = url =>
                 Missed(r)' \/ Notice(r) \in ToSet(Transformed(Copied(url)))
<1>a. PICK items : items = Copied(url)
  OBVIOUS
<1>1. CachedOK' /\ url \in DOMAIN cached' /\ cached'[url] = items
  BY <1>a, CopiesOK
<1>2. IsList(items)
  <2>1. Raws("vestnik", items)
    BY <1>a, BulletinListed DEF Copied, Inv, WorldOK
  <2> QED BY <2>1 DEF Raws
<1>3. \A n : n \in ToSet(Transformed(items)) <=>
                \E raw \in ToSet(items) : Transforms("vestnik", raw) /\ n = Transform("vestnik", raw)
  BY <1>2, TransformedSet
<1>4. \A r \in released : r \in Releases
  BY DEF Inv, WorldOK
<1>5. \A r : r.source = "vestnik" /\ r.url = url /\ r.raw \notin ToSet(items) => Missed(r)'
  BY <1>1 DEF Missed
<1>6. ASSUME NEW n \in ToSet(Transformed(items)) PROVE n.source = "vestnik" /\ Suits(n)'
  <2>1. PICK raw \in ToSet(items) : n = Transform("vestnik", raw)
    BY <1>3, <1>6
  <2>2. n.source = "vestnik" /\ KeyOf(n) = <<"vestnik", raw.id>>
    BY <2>1, KeyOfRecord
  <2>3. PICK q \in released : q.source = "vestnik" /\ q.url = url /\ q.raw = raw
    BY <1>1 DEF CachedOK
  <2>4. ASSUME NEW r \in Latest', RecordOf(r) = KeyOf(n) PROVE n = Notice(r) \/ Missed(r)'
    <3>1. r \in released /\ r \in Releases
      BY <1>4, <2>4 DEF Latest
    <3>2. r.source = "vestnik" /\ RecordOf(r) = <<"vestnik", r.raw.id>> /\ RecordOf(q) = RecordOf(r)
      BY <1>4, <2>2, <2>3, <2>4, <3>1, ReleaseFacts
    <3>3. r.url = url
      BY <1>4, <2>3, <3>1, <3>2, PipelineAssumption
    <3>4. CASE r.raw \in ToSet(items)
      <4>1. r.raw.id = raw.id
        BY <2>2, <2>4, <3>2
      <4>2. r.raw = raw
        BY <1>1, <3>4, <4>1 DEF CachedOK
      <4> QED BY <2>1, <3>2, <4>2 DEF Notice
    <3> QED BY <1>5, <3>2, <3>3, <3>4
  <2>5. Suits(n)'
    BY <2>4 DEF Suits, RecordOf, Notice
  <2> QED BY <2>2, <2>5
<1>7. ASSUME NEW r \in released, Counts(r), r.source = "vestnik", r.url = url
      PROVE  Missed(r)' \/ Notice(r) \in ToSet(Transformed(items))
  <2>1. CASE r.raw \in ToSet(items)
    <3>1. Notice(r) = Transform("vestnik", r.raw) /\ Transforms("vestnik", r.raw)
      BY <1>7 DEF Notice, Counts
    <3> QED BY <1>3, <2>1, <3>1
  <2> QED BY <1>5, <1>7, <2>1
<1> HIDE DEF Transformed
<1> QED BY <1>a, <1>6, <1>7

\* A download that fails is held against what the bulletin lists.
LEMMA BulletinFailed ==
    ASSUME Inv, NEW url \in Bulletins, released' = released,
           past'.harmed = past.harmed \cup {<<"vestnik", raw.id>> : raw \in ToSet(Bulletin(url))}
    PROVE  \A r \in released : Counts(r) /\ r.source = "vestnik" /\ r.url = url => Missed(r)'
<1> SUFFICES ASSUME NEW r \in released, Counts(r), r.source = "vestnik", r.url = url PROVE Missed(r)'
  OBVIOUS
<1>1. released \subseteq Releases
  BY DEF Inv, WorldOK
<1>2. r.raw \in ToSet(Bulletin(url))
  BY <1>1, BulletinSet DEF Counts
<1>3. RecordOf(r) = <<"vestnik", r.raw.id>>
  BY <1>1, ReleaseFacts
<1>4. RecordOf(r) \in past'.harmed
  BY <1>2, <1>3
<1> QED BY <1>4 DEF Missed

\* The run once a bulletin is read, from which fresh notices came.
LEMMA BulletinTaken ==
    ASSUME Inv, Inv', LossInv, NEW fresh,
           run.step = "fetch", Source = "vestnik", run.queue # <<>>,
           run' = [run EXCEPT !.queue = Tail(@), !.mark = Larger(@, run.queue[1].modified),
                              !.buffer = @ \o fresh],
           today' = today, released' = released, db' = db, CachedOK', PastOK',
           past.harmed \subseteq past'.harmed, past'.late = past.late,
           past'.merged = past.merged, past'.behind = past.behind,
           \A url \in DOMAIN cached : url \in DOMAIN cached' /\ cached'[url] = cached[url],
           AreNotices(fresh),
           \A n \in ToSet(fresh) : n.source = "vestnik" /\ Suits(n)',
           \A r \in released : Counts(r) /\ r.source = "vestnik" /\ r.url = run.queue[1].url =>
                 Missed(r)' \/ Notice(r) \in ToSet(fresh)
    PROVE  LossInv'
<1> DEFINE first == run.queue[1]
           marked == Larger(run.mark, first.modified)
<1>1. run # Idle
  BY DEF Idle
<1>2. RunOK(Bulletins, run) /\ Handling /\ Progress /\ World
  BY <1>1 DEF Inv, LossInv
<1>3. /\ run'.step = "fetch" /\ run'.queue = Tail(run.queue) /\ run'.mark = marked
      /\ run'.buffer = run.buffer \o fresh /\ run'.opened = run.opened
      /\ run'.stage = run.stage /\ run'.seen = run.seen
      /\ run'.todo = run.todo /\ run'.late = run.late
      /\ run'.from = run.from /\ run'.since = run.since
  BY <1>2 DEF RunOK, RunFields
<1>4. Inside
  BY <1>1, <1>3 DEF Inside
<1>5. World' /\ Grows /\ SafeOnes(run.late) /\ SafeOnes({})
  BY <1>4, InsideKeepsWorld
<1>6. QueueOK(Bulletins, "vestnik", run.queue) /\ run.todo = <<>>
  BY <1>2 DEF RunOK, Source, Saving
<1>7. /\ ToSet(run.queue) = {first} \cup ToSet(Tail(run.queue))
      /\ first \in ToSet(run.queue) /\ first.modified \in Int /\ run.mark \in Int
  <2>1. 1 \in DOMAIN run.queue /\ Queued(Bulletins, "vestnik", first)
    BY <1>6, TailOfQueue
  <2>2. run.queue \in Seq(ToSet(run.queue))
    BY <1>6 DEF QueueOK, IsList
  <2> DEFINE q == run.queue
             t == Tail(q)
  <2>3. /\ Len(q) \in Nat /\ Len(q) # 0 /\ DOMAIN q = 1..Len(q) /\ DOMAIN t = 1..(Len(q) - 1)
        /\ \A k \in 1..(Len(q) - 1) : t[k] = q[k + 1]
    BY <2>2
  <2> HIDE DEF q, t
  <2>4. \A k \in 1..Len(q) : k = 1 \/ (k - 1 \in 1..(Len(q) - 1) /\ t[k - 1] = q[k])
    BY <2>3
  <2>5. \A k \in 1..(Len(q) - 1) : k + 1 \in 1..Len(q)
    BY <2>3
  <2>6. 1 \in 1..Len(q)
    BY <2>3
  <2>7. ToSet(q) \subseteq {q[1]} \cup ToSet(t)
    BY <2>3, <2>4 DEF ToSet
  <2>8. {q[1]} \cup ToSet(t) \subseteq ToSet(q)
    BY <2>3, <2>5, <2>6 DEF ToSet
  <2>9. ToSet(q) = {q[1]} \cup ToSet(t) /\ q[1] \in ToSet(q)
    BY <2>7, <2>8
  <2>10. first.modified \in Int /\ run.mark \in Int
    BY <1>2, <2>1, PipelineAssumption DEF Queued, RunOK
  <2> QED BY <2>9, <2>10 DEF q, t
<1>8. /\ marked = run.mark \/ marked = first.modified
      /\ run.mark <= marked
  BY <1>7 DEF Larger
<1> HIDE DEF first, marked
<1>9. ToSet(run'.buffer) = ToSet(run.buffer) \cup ToSet(fresh)
  <2> DEFINE X == ToSet(run.buffer) \cup ToSet(fresh)
             b == run.buffer
  <2>1. b \in Seq(X) /\ fresh \in Seq(X)
    <3>1. IsList(run.buffer) /\ IsList(fresh)
      BY <1>2 DEF RunOK, AreNotices
    <3>2. run.buffer \in Seq(ToSet(run.buffer)) /\ fresh \in Seq(ToSet(fresh))
      BY <3>1 DEF IsList
    <3> QED BY <3>2, SeqMonotonic
  <2> HIDE DEF X, b
  <2>2. ToSet(b \o fresh) = ToSet(b) \cup ToSet(fresh)
    BY <2>1, JoinedSet
  <2> QED BY <1>3, <2>2 DEF b
<1>10. Bounds /\ Places /\ QueueFresh /\ BufferFresh /\ LateOK /\ Source' = "vestnik"
  BY <1>2, <1>3 DEF Handling, Source
<1>11. /\ run.opened \subseteq {"vestnik"} /\ \A b \in ToSet(run.queue) : b.modified <= today
  BY <1>1, <1>10, Opened DEF QueueFresh
<1>12. Bounds'
  <2>1. marked <= today
    BY <1>7, <1>8, <1>10, <1>11 DEF Bounds
  <2> QED BY <1>3, <1>10, <2>1 DEF Bounds
<1>13. Places'
  <2>1. ToSet(<<>>) = {}
    BY DEF ToSet
  <2>2. ToSet(run'.todo) \subseteq ToSet(run'.buffer)
    BY <1>3, <1>6, <2>1
  <2> QED BY <1>3, <1>10, <2>2 DEF Places
<1>14. QueueFresh'
  BY <1>3, <1>7, <1>10, <1>11 DEF QueueFresh
<1>15. BufferFresh'
  <2>1. \A n \in ToSet(run.buffer) : n.source = "vestnik" /\ Suits(n)'
    <3>1. \A n \in ToSet(run.buffer) : n.source = "vestnik" /\ Suits(n)
      BY <1>10 DEF BufferFresh
    <3> SUFFICES ASSUME NEW n \in ToSet(run.buffer) PROVE Suits(n)'
      BY <3>1
    <3>2. Suits(n)
      BY <3>1
    <3> QED BY <1>3, <1>5, <3>2, SuitsStay
  <2> QED BY <1>9, <1>10, <2>1 DEF BufferFresh
<1>16. LateOK'
  <2> SUFFICES ASSUME NEW r \in run.late
               PROVE  /\ r \in released /\ r.source \in run.opened
                      /\ r.day >= db.lastRun \/ r \in past.late
                      /\ r.day >= db.vestnikMark /\ r.day >= marked
                      /\ \A b \in ToSet(Tail(run.queue)) : b.modified <= r.day
                      /\ r.source # "itms"
    BY <1>3, <1>10 DEF LateOK
  <2>1. /\ r \in released /\ r.source \in run.opened
        /\ r.day >= db.lastRun \/ r \in past.late
        /\ r.day >= db.vestnikMark /\ r.day >= run.mark
        /\ \A b \in ToSet(run.queue) : b.modified <= r.day
    BY <1>10 DEF LateOK
  <2> QED BY <1>7, <1>8, <1>11, <2>1
<1>17. SourcesDone'
  <2>1. run'.opened \ {Source'} = {}
    BY <1>3, <1>10, <1>11
  <2> QED BY <2>1 DEF SourcesDone
<1>18. SourceInHand'
  <2> SUFFICES ASSUME NEW r \in released, Counts(r)', r.source = "vestnik"
               PROVE  Safe(r)' \/ r \in run.late \/ Notice(r) \in ToSet(run'.buffer) \/ InLine(r)'
    BY <1>3, <1>10 DEF SourceInHand, Notice
  <2>1. Counts(r)
    BY <1>5, CountsBefore DEF Grows
  <2>2. Safe(r) \/ r \in run.late \/ Notice(r) \in ToSet(run.buffer) \/ InLine(r)
    <3>1. run.step \in Working
      BY DEF Working
    <3> QED BY <1>2, <2>1, <3>1 DEF Progress, SourceInHand
  <2>3. CASE Safe(r)
    BY <1>5, <2>1, <2>3 DEF SafeOnes
  <2>4. CASE InLine(r)
    <3>1. PICK b \in ToSet(run.queue) : b.url = r.url
      BY <2>4, WaitsBySource DEF InLine
    <3>2. CASE b \in ToSet(Tail(run.queue))
      <4>1. Waits("vestnik", Tail(run.queue), run.seen, r)
        BY <3>1, <3>2, WaitsBySource
      <4> QED BY <1>3, <1>10, <4>1 DEF InLine
    <3>3. CASE b = first
      <4>1. Missed(r)' \/ Notice(r) \in ToSet(fresh)
        BY <2>1, <3>1, <3>3 DEF first
      <4> QED BY <1>9, <4>1 DEF Safe, Excused
    <3> QED BY <1>7, <3>1, <3>2, <3>3
  <2> QED BY <1>9, <2>2, <2>3, <2>4
<1>19. BufferInHand' /\ ChunkStored'
  BY <1>3 DEF BufferInHand, SoFar, ChunkStored
<1> QED BY <1>5, <1>12, <1>13, <1>14, <1>15, <1>16, <1>17, <1>18, <1>19 DEF LossInv, Handling, Progress

LEMMA FetchBulletinKeepsLoss ==
    ASSUME Inv, Inv', LossInv, FetchBulletin
    PROVE  LossInv'
<1>a. PICK url : url = run.queue[1].url
  OBVIOUS
<1>1. /\ run.step = "fetch" /\ Source = "vestnik" /\ run.queue # <<>> /\ run # Idle
      /\ today' = today /\ released' = released /\ db' = db
  BY DEF FetchBulletin, Idle
<1>2. RunOK(Bulletins, run) /\ World
  BY <1>1 DEF Inv, LossInv
<1>3. url \in Bulletins
  <2>1. QueueOK(Bulletins, "vestnik", run.queue)
    BY <1>1, <1>2 DEF RunOK, Source
  <2>2. Queued(Bulletins, "vestnik", run.queue[1])
    BY <1>1, <2>1, TailOfQueue
  <2> QED BY <1>a, <2>2 DEF Queued
<1>4. run.stage \in 1..4
  BY <1>2 DEF RunOK
<1>5. Raws("vestnik", Copied(url)) /\ Raws("vestnik", <<>>)
  <2>1. Raws("vestnik", Copied(url))
    BY <1>3, BulletinListed DEF Copied, Inv, WorldOK
  <2> QED BY <2>1, NoList DEF Raws
<1>6. AreNotices(Transformed(Copied(url))) /\ AreNotices(Transformed(<<>>))
  BY <1>1, <1>4, <1>5, TransformedList
<1>7. \/ /\ run' = [run EXCEPT !.queue = Tail(@), !.mark = Larger(@, run.queue[1].modified),
                               !.buffer = @ \o Transformed(Copied(url))]
         /\ cached' = [u \in DOMAIN cached \cup {url} |-> IF u = url THEN Copied(url) ELSE cached[u]]
         /\ past' = past
      \/ /\ run' = [run EXCEPT !.queue = Tail(@), !.mark = Larger(@, run.queue[1].modified),
                               !.buffer = @ \o Transformed(<<>>)]
         /\ past' = Faulty([past EXCEPT !.harmed = @ \cup
                              {<<"vestnik", raw.id>> : raw \in ToSet(Bulletin(url))}])
         /\ cached' = cached
  BY <1>a DEF FetchBulletin, Copied
<1>8. CASE /\ run' = [run EXCEPT !.queue = Tail(@), !.mark = Larger(@, run.queue[1].modified),
                               !.buffer = @ \o Transformed(Copied(url))]
           /\ cached' = [u \in DOMAIN cached \cup {url} |-> IF u = url THEN Copied(url) ELSE cached[u]]
           /\ past' = past
  <2>a. PICK fresh : fresh = Transformed(Copied(url))
    OBVIOUS
  <2>1. CachedOK /\ PastOK'
    BY <1>2, <1>8 DEF World, PastOK
  <2>2. CachedOK'
    BY <1>1, <1>3, <1>8, <2>1, CopiesOK
  <2>3. /\ \A n \in ToSet(fresh) : n.source = "vestnik" /\ Suits(n)'
        /\ \A r \in released : Counts(r) /\ r.source = "vestnik" /\ r.url = url =>
              Missed(r)' \/ Notice(r) \in ToSet(fresh)
    BY <1>1, <1>3, <1>8, <2>a, <2>1, BulletinRead
  <2>4. \A u \in DOMAIN cached : u \in DOMAIN cached' /\ cached'[u] = cached[u]
    BY <1>8 DEF Copied
  <2>5. run' = [run EXCEPT !.queue = Tail(@), !.mark = Larger(@, run.queue[1].modified),
                           !.buffer = @ \o fresh]
    BY <1>8, <2>a
  <2>6. AreNotices(fresh)
    BY <1>6, <2>a
  <2> QED BY <1>a, <1>1, <1>8, <2>1, <2>2, <2>3, <2>4, <2>5, <2>6, BulletinTaken
<1>9. CASE /\ run' = [run EXCEPT !.queue = Tail(@), !.mark = Larger(@, run.queue[1].modified),
                               !.buffer = @ \o Transformed(<<>>)]
           /\ past' = Faulty([past EXCEPT !.harmed = @ \cup
                              {<<"vestnik", raw.id>> : raw \in ToSet(Bulletin(url))}])
           /\ cached' = cached
  <2>a. PICK fresh : fresh = Transformed(<<>>)
    OBVIOUS
  <2>b. PICK lost : lost = {<<"vestnik", raw.id>> : raw \in ToSet(Bulletin(url))}
    OBVIOUS
  <2>1. /\ PastOK' /\ past'.harmed = past.harmed \cup lost
        /\ past'.late = past.late /\ past'.merged = past.merged /\ past'.behind = past.behind
    <3>1. past' = Faulty([past EXCEPT !.harmed = @ \cup lost])
      BY <1>9, <2>b
    <3> QED BY <1>2, <3>1 DEF World, PastOK, Faulty
  <2>2. CachedOK'
    BY <1>1, <1>2, <1>9 DEF World, CachedOK
  <2>3. \A r \in released : Counts(r) /\ r.source = "vestnik" /\ r.url = url => Missed(r)'
    BY <1>1, <1>3, <2>b, <2>1, BulletinFailed
  <2>4. \A n : n \notin ToSet(fresh)
    <3>1. \A n : n \in ToSet(Transformed(<<>>)) <=>
                \E raw \in ToSet(<<>>) : Transforms("vestnik", raw) /\ n = Transform("vestnik", raw)
      BY <1>1, NoList, TransformedSet
    <3>2. ToSet(<<>>) = {}
      BY DEF ToSet
    <3> QED BY <2>a, <3>1, <3>2
  <2>5. run' = [run EXCEPT !.queue = Tail(@), !.mark = Larger(@, run.queue[1].modified),
                           !.buffer = @ \o fresh]
    BY <1>9, <2>a
  <2>6. AreNotices(fresh)
    BY <1>6, <2>a
  <2>7. past.harmed \subseteq past'.harmed
    BY <2>1
  <2> QED BY <1>a, <1>1, <1>9, <2>1, <2>2, <2>3, <2>4, <2>5, <2>6, <2>7, BulletinTaken
<1> QED BY <1>7, <1>8, <1>9

-----------------------------------------------------------------------------
(* A portion of a list is read *)

\* The portion and what remains: in an ITMS list the remaining ids are higher.
LEMMA PortionTaken ==
    ASSUME NEW queue, IsList(queue), NEW n \in Nat
    PROVE  /\ IsList(After(queue, n)) /\ IsList(FirstOf(queue, n))
           /\ ToSet(queue) = ToSet(FirstOf(queue, n)) \cup ToSet(After(queue, n))
           /\ (\A j, k \in DOMAIN queue : j < k => queue[j].id <= queue[k].id) =>
                 /\ \A j, k \in DOMAIN After(queue, n) : j < k => After(queue, n)[j].id <= After(queue, n)[k].id
                 /\ \A a \in ToSet(FirstOf(queue, n)), b \in ToSet(After(queue, n)) : a.id <= b.id
<1>a. PICK first : first = FirstOf(queue, n)
  OBVIOUS
<1>b. PICK rest : rest = After(queue, n)
  OBVIOUS
<1>1. /\ IsList(first) /\ IsList(rest)
      /\ ToSet(queue) = ToSet(first) \cup ToSet(rest)
      /\ \A k \in DOMAIN first : k \in DOMAIN queue /\ first[k] = queue[k]
      /\ \A k \in DOMAIN rest : n + k \in DOMAIN queue /\ rest[k] = queue[n + k]
      /\ \A k \in DOMAIN first : k <= n
  BY <1>a, <1>b, PartsOfList
<1>2. /\ DOMAIN first = 1..Len(first) /\ Len(first) \in Nat
      /\ DOMAIN rest = 1..Len(rest) /\ Len(rest) \in Nat
  BY <1>1, LengthOfList
<1>3. ASSUME \A j, k \in DOMAIN queue : j < k => queue[j].id <= queue[k].id
      PROVE  /\ \A j, k \in DOMAIN rest : j < k => rest[j].id <= rest[k].id
             /\ \A a \in ToSet(first), b \in ToSet(rest) : a.id <= b.id
  <2>1. ASSUME NEW j \in DOMAIN rest, NEW k \in DOMAIN rest, j < k PROVE rest[j].id <= rest[k].id
    <3>1. n + j < n + k
      BY <1>2, <2>1
    <3> QED BY <1>1, <1>3, <3>1
  <2>2. ASSUME NEW j \in DOMAIN first, NEW k \in DOMAIN rest PROVE first[j].id <= rest[k].id
    <3>1. j < n + k
      BY <1>1, <1>2
    <3> QED BY <1>1, <1>3, <3>1
  <2> QED BY <2>1, <2>2 DEF ToSet
<1> QED BY <1>a, <1>b, <1>1, <1>3

\* The highest id of what was got.
HighestId(source, seen, got) ==
    IF source # "itms" THEN seen
    ELSE Max({seen} \cup {raw.id : raw \in {raw \in ToSet(got) : Transforms("itms", raw)}})

LEMMA HighestOf ==
    ASSUME NEW source, NEW seen \in Int, seen >= -1, NEW got, Raws(source, got)
    PROVE  /\ HighestId(source, seen, got) \in Int /\ HighestId(source, seen, got) >= seen
           /\ \/ HighestId(source, seen, got) = seen
              \/ source = "itms" /\ \E raw \in ToSet(got) : HighestId(source, seen, got) = raw.id
<1>1. CASE source # "itms"
  BY <1>1 DEF HighestId
<1>2. CASE source = "itms"
  <2> DEFINE ids == {raw.id : raw \in {raw \in ToSet(got) : Transforms("itms", raw)}}
             most == Max({seen} \cup ids)
  <2>1. most \in Int /\ most >= seen /\ (most = seen \/ most \in ids)
    BY <1>2, SeenIds
  <2>2. HighestId(source, seen, got) = most
    BY <1>2 DEF HighestId
  <2> HIDE DEF most
  <2> QED BY <1>2, <2>1, <2>2
<1> QED BY <1>1, <1>2

\* The run once a portion was got, more or less as it was listed.
LEMMA ItemsTaken ==
    ASSUME Inv, Inv', LossInv, NEW n \in Nat, NEW got, Raws(Source, got),
           run.step = "fetch", Source # "vestnik",
           run' = [Persist(Transformed(got)) EXCEPT !.queue = After(run.queue, n),
                                                    !.seen = HighestId(Source, run.seen, got)],
           today' = today, released' = released, cached' = cached, db' = db, PastOK',
           past.harmed \subseteq past'.harmed, past'.late = past.late,
           past'.merged = past.merged, past'.behind = past.behind,
           \A g \in ToSet(got) :
              \/ g \in ToSet(FirstOf(run.queue, n))
              \/ /\ Source = "itms" /\ <<"itms", g.id>> \in past'.harmed
                 /\ \E raw \in ToSet(FirstOf(run.queue, n)) : g.id = raw.id,
           \A raw \in ToSet(FirstOf(run.queue, n)) :
              \/ raw \in ToSet(got)
              \/ Source = "itms" /\ <<"itms", raw.id>> \in past'.harmed
    PROVE  LossInv'
<1>a. PICK source : source = Source
  OBVIOUS
<1>b. PICK seen : seen = HighestId(Source, run.seen, got)
  OBVIOUS
<1>c. PICK rest : rest = After(run.queue, n)
  OBVIOUS
<1>d. PICK buffer : buffer = Transformed(got)
  OBVIOUS
<1>e. PICK first : first = FirstOf(run.queue, n)
  OBVIOUS
<1>1. run # Idle
  BY DEF Idle
<1>2. RunOK(Bulletins, run) /\ Handling /\ Progress /\ World
  BY <1>1 DEF Inv, LossInv
<1>3. /\ run'.step = (IF buffer = <<>> THEN "checkpoint" ELSE "notices") /\ run'.queue = rest
      /\ run'.seen = seen /\ run'.buffer = buffer /\ run'.todo = buffer
      /\ run'.opened = run.opened /\ run'.stage = run.stage /\ run'.mark = run.mark
      /\ run'.late = run.late /\ run'.from = run.from /\ run'.since = run.since
  <2>1. run' = [Persist(buffer) EXCEPT !.queue = rest, !.seen = seen]
    BY <1>b, <1>c, <1>d
  <2> QED BY <1>2, <2>1 DEF RunOK, RunFields, Persist
<1>4. run'.step \in {"checkpoint", "notices"}
  BY <1>3
<1>5. CachedOK'
  BY <1>2 DEF World, CachedOK
<1>6. Inside
  BY <1>1, <1>4 DEF Inside
<1>7. World' /\ Grows /\ SafeOnes(run.late) /\ SafeOnes({})
  BY <1>5, <1>6, InsideKeepsWorld
<1>8. /\ Bounds /\ Places /\ QueueFresh /\ LateOK /\ Source' = source /\ run.buffer = <<>>
      /\ source # "vestnik"
  BY <1>a, <1>2, <1>3 DEF Handling, Source, Places
<1>9. /\ source \in {"vestnik", "crz", "ted", "itms"} /\ source \in run.opened
      /\ (run.stage = 4 <=> source = "itms")
      /\ ("itms" \in run.opened => source = "itms")
  BY <1>1, <1>8, <1>a, Opened
<1>10. Raws(source, run.queue) /\ IsList(run.queue) /\ IsList(got) /\ run.seen \in Int /\ run.seen >= -1
  <2>1. QueueOK(Bulletins, source, run.queue)
    BY <1>2, <1>a DEF RunOK, Source
  <2> QED BY <1>2, <1>8, <1>a, <2>1, RawsOfQueue DEF Raws, RunOK
<1>11. /\ \A raw \in ToSet(run.queue) :
              /\ Suits(Transform(source, raw))
              /\ \E q \in released : q.source = source /\ q.raw = raw
       /\ source = "itms" => /\ \A j, k \in DOMAIN run.queue : j < k => run.queue[j].id <= run.queue[k].id
                             /\ \A a, b \in ToSet(run.queue) : a.id = b.id => a = b
  BY <1>8, <1>a DEF QueueFresh
<1>12. /\ ToSet(run.queue) = ToSet(first) \cup ToSet(rest)
       /\ source = "itms" => /\ \A j, k \in DOMAIN rest : j < k => rest[j].id <= rest[k].id
                             /\ \A a \in ToSet(first), b \in ToSet(rest) : a.id <= b.id
  BY <1>10, <1>11, <1>c, <1>e, PortionTaken
<1>13. \A m : m \in ToSet(buffer) <=>
                 \E g \in ToSet(got) : Transforms(source, g) /\ m = Transform(source, g)
  BY <1>10, <1>a, <1>d, TransformedSet
<1>14. /\ \A g \in ToSet(got) :
              \/ g \in ToSet(first)
              \/ /\ source = "itms" /\ <<"itms", g.id>> \in past'.harmed
                 /\ \E raw \in ToSet(first) : g.id = raw.id
       /\ \A raw \in ToSet(first) :
              \/ raw \in ToSet(got)
              \/ source = "itms" /\ <<"itms", raw.id>> \in past'.harmed
  BY <1>a, <1>e
<1>15. /\ seen \in Int /\ seen >= run.seen
       /\ source # "itms" => seen = run.seen
       /\ seen = run.seen \/ \E raw \in ToSet(first) : seen = raw.id
  <2>1. /\ seen \in Int /\ seen >= run.seen
        /\ seen = run.seen \/ (source = "itms" /\ \E raw \in ToSet(got) : seen = raw.id)
    BY <1>10, <1>a, <1>b, HighestOf
  <2> QED BY <1>14, <2>1
<1>16. \A r \in released : r \in Releases
  BY DEF Inv, WorldOK
<1>17. \A raw \in ToSet(run.queue) : source = "itms" => raw.id \in Int
  BY <1>11, <1>16, ReleaseFacts
<1>18. Bounds'
  <2>1. run.stage < 4 => source # "itms"
    BY <1>2, <1>9 DEF RunOK
  <2>2. db.itmsMin <= seen + 1
    <3>1. db.itmsMin \in Int /\ db.itmsMin <= run.seen + 1
      BY <1>8 DEF Bounds, Inv, DbOK
    <3> QED BY <1>10, <1>15, <3>1
  <2>3. seen = -1 \/ \E q \in released : q.source = "itms" /\ seen <= q.raw.id
    <3>1. CASE seen = run.seen
      BY <1>8, <3>1 DEF Bounds
    <3>2. CASE seen # run.seen
      <4>1. PICK raw \in ToSet(first) : seen = raw.id
        BY <1>15, <3>2
      <4>2. source = "itms"
        BY <1>15, <3>2
      <4>3. PICK q \in released : q.source = source /\ q.raw = raw
        BY <1>11, <1>12, <4>1
      <4> QED BY <1>15, <4>1, <4>2, <4>3
    <3> QED BY <3>1, <3>2
  <2>4. run'.stage < 4 \/ run'.step = "open" => seen = db.itmsMin - 1
    BY <1>3, <1>4, <1>8, <1>15, <2>1 DEF Bounds
  <2> QED BY <1>3, <1>4, <1>8, <2>2, <2>3, <2>4 DEF Bounds
<1>19. Places'
  BY <1>3, <1>4, <1>8 DEF Places
<1>20. ASSUME NEW m, Suits(m) PROVE Suits(m)'
  BY <1>3, <1>7, <1>20, SuitsStay
<1>21. QueueFresh'
  <2>1. ASSUME NEW raw \in ToSet(rest) PROVE Suits(Transform(source, raw))'
    <3>1. Suits(Transform(source, raw))
      BY <1>11, <1>12
    <3> QED BY <1>20, <3>1
  <2>2. \A raw \in ToSet(rest) : \E q \in released : q.source = source /\ q.raw = raw
    BY <1>11, <1>12
  <2>3. source = "itms" => /\ \A j, k \in DOMAIN rest : j < k => rest[j].id <= rest[k].id
                           /\ \A a, b \in ToSet(rest) : a.id = b.id => a = b
    BY <1>11, <1>12
  <2> HIDE DEF Suits
  <2> QED BY <1>3, <1>8, <2>1, <2>2, <2>3 DEF QueueFresh
<1>22. BufferFresh'
  <2> SUFFICES ASSUME NEW g \in ToSet(got), NEW m, m = Transform(source, g)
               PROVE  m.source = source /\ Suits(m)'
    BY <1>3, <1>8, <1>13 DEF BufferFresh
  <2>1. m.source = source
    BY <1>9, KeyOfRecord
  <2>2. CASE g \in ToSet(first)
    <3>1. Suits(m)
      BY <1>11, <1>12, <2>2
    <3> QED BY <1>20, <2>1, <3>1
  <2>3. CASE source = "itms" /\ <<"itms", g.id>> \in past'.harmed
    <3>1. KeyOf(m) = <<"itms", g.id>>
      BY <2>3, KeyOfRecord
    <3>2. \A r : RecordOf(r) = KeyOf(m) => Missed(r)'
      BY <2>3, <3>1 DEF Missed
    <3>3. Suits(m)'
      BY <3>2 DEF Suits, RecordOf, KeyOf
    <3> QED BY <2>1, <3>3
  <2> QED BY <1>14, <2>2, <2>3
<1>23. LateOK'
  <2> SUFFICES ASSUME NEW r \in run.late
               PROVE  /\ r \in released /\ r.source \in run.opened
                      /\ r.day >= db.lastRun \/ r \in past.late
                      /\ r.day >= db.vestnikMark /\ r.day >= run.mark
                      /\ r.source = "itms" /\ r \in Latest' =>
                            \/ Missed(r)'
                            \/ r.raw.id > seen /\ \A raw \in ToSet(rest) : raw.id < r.raw.id
    BY <1>3, <1>8 DEF LateOK
  <2>1. /\ r \in released /\ r.source \in run.opened
        /\ r.day >= db.lastRun \/ r \in past.late
        /\ r.day >= db.vestnikMark /\ r.day >= run.mark
        /\ r.source = "itms" /\ r \in Latest =>
              \/ Missed(r)
              \/ r.raw.id > run.seen /\ \A raw \in ToSet(run.queue) : raw.id < r.raw.id
    BY <1>8 DEF LateOK
  <2>2. r \in Latest' => r \in Latest
    BY <2>1, LatestBefore
  <2>3. Missed(r) => Missed(r)'
    BY <1>7, <1>16, <2>1, MissedStays
  <2>4. r.raw.id > run.seen /\ (\A raw \in ToSet(run.queue) : raw.id < r.raw.id) =>
            r.raw.id > seen /\ \A raw \in ToSet(rest) : raw.id < r.raw.id
    BY <1>12, <1>15
  <2> QED BY <2>1, <2>2, <2>3, <2>4
<1>24. SourcesDone'
  <2> SUFFICES ASSUME NEW r \in released, Counts(r)', r.source \in run.opened \ {source}
               PROVE  Safe(r)' \/ r \in run.late
    BY <1>3, <1>8 DEF SourcesDone
  <2>1. Counts(r)
    BY <1>7, CountsBefore DEF Grows
  <2> QED BY <1>2, <1>7, <1>a, <2>1 DEF Progress, SourcesDone, SafeOnes
<1>25. SourceInHand'
  <2> SUFFICES ASSUME NEW r \in released, Counts(r)', r.source = source
               PROVE  Safe(r)' \/ r \in run.late \/ Notice(r) \in ToSet(buffer) \/ Waits(source, rest, seen, r)
    BY <1>3, <1>8 DEF SourceInHand, Notice, InLine
  <2>1. Counts(r) /\ r \in Releases
    BY <1>7, <1>16, CountsBefore DEF Grows
  <2>2. Safe(r) \/ r \in run.late \/ Waits(source, run.queue, run.seen, r)
    <3>1. run.step \in Working /\ ToSet(run.buffer) = {}
      BY <1>8 DEF Working, ToSet
    <3> QED BY <1>2, <1>a, <2>1, <3>1 DEF Progress, SourceInHand, InLine
  <2>3. CASE Safe(r)
    BY <1>7, <2>1, <2>3 DEF SafeOnes
  <2>4. ASSUME r.raw \in ToSet(first) PROVE Safe(r)' \/ Notice(r) \in ToSet(buffer)
    <3>1. CASE r.raw \in ToSet(got)
      <4>1. Notice(r) = Transform(source, r.raw) /\ Transforms(source, r.raw)
        BY <2>1 DEF Notice, Counts
      <4> QED BY <1>13, <3>1, <4>1
    <3>2. CASE source = "itms" /\ <<"itms", r.raw.id>> \in past'.harmed
      <4>1. RecordOf(r) = <<"itms", r.raw.id>>
        BY <2>1, <3>2, ReleaseFacts
      <4>2. Missed(r)'
        BY <3>2, <4>1 DEF Missed
      <4> QED BY <4>2 DEF Safe, Excused
    <3> QED BY <1>14, <2>4, <3>1, <3>2
  <2>5. CASE Waits(source, run.queue, run.seen, r)
    <3>1. CASE source \in {"crz", "ted"}
      <4>1. r.raw \in ToSet(run.queue)
        BY <2>5, <3>1, WaitsBySource
      <4>2. r.raw \in ToSet(rest) => Waits(source, rest, seen, r)
        BY <3>1, WaitsBySource
      <4> QED BY <1>12, <2>4, <4>1, <4>2
    <3>2. CASE source = "itms"
      <4>1. /\ r.raw.id > run.seen /\ r.raw.id \in Int
            /\ r.raw \in ToSet(run.queue) \/ \A raw \in ToSet(run.queue) : raw.id < r.raw.id
        BY <2>1, <2>5, <3>2, WaitsBySource, ReleaseFacts
      <4>2. Waits(source, rest, seen, r) <=>
                /\ r.raw.id > seen
                /\ r.raw \in ToSet(rest) \/ \A raw \in ToSet(rest) : raw.id < r.raw.id
        BY <3>2, WaitsBySource
      <4>3. CASE \A raw \in ToSet(run.queue) : raw.id < r.raw.id
        <5>1. r.raw.id > seen
          BY <1>12, <1>15, <4>1, <4>3
        <5>2. \A raw \in ToSet(rest) : raw.id < r.raw.id
          BY <1>12, <4>3
        <5> QED BY <4>2, <5>1, <5>2
      <4>4. CASE r.raw \in ToSet(rest) /\ r.raw \notin ToSet(first)
        <5>1. ASSUME NEW raw \in ToSet(first) PROVE raw.id < r.raw.id
          <6>1. raw.id <= r.raw.id /\ raw.id # r.raw.id /\ raw.id \in Int
            BY <1>11, <1>12, <1>17, <3>2, <4>4
          <6> QED BY <4>1, <6>1
        <5>2. r.raw.id > seen
          BY <1>15, <4>1, <5>1
        <5> QED BY <4>2, <4>4, <5>2
      <4> QED BY <1>12, <2>4, <4>1, <4>3, <4>4
    <3> QED BY <1>8, <1>9, <3>1, <3>2
  <2> QED BY <2>2, <2>3, <2>5
<1>26. BufferInHand'
  <2> SUFFICES ASSUME NEW r, Pending(r)' PROVE SoFar(Notice(r))' /\ run'.step = "notices"
    BY DEF BufferInHand
  <2>1. Notice(r) \in ToSet(buffer)
    BY <1>3 DEF Pending, Notice
  <2>2. buffer # <<>>
    BY <2>1 DEF ToSet
  <2>3. run'.step = "notices" /\ Notice(r) \in ToSet(run'.todo)
    BY <1>3, <2>1, <2>2
  <2> QED BY <2>3 DEF SoFar, Notice
<1>27. ChunkStored'
  BY <1>4 DEF ChunkStored
<1> QED BY <1>7, <1>18, <1>19, <1>21, <1>22, <1>23, <1>24, <1>25, <1>26, <1>27
        DEF LossInv, Handling, Progress

LEMMA FetchItemsKeepsLoss ==
    ASSUME Inv, Inv', LossInv, FetchItems
    PROVE  LossInv'
<1>a. PICK n : n = Portion(run.queue)
  OBVIOUS
<1>b. PICK raws : raws = FirstOf(run.queue, n)
  OBVIOUS
<1> DEFINE Take(got) == [Persist(Transformed(got)) EXCEPT !.queue = After(run.queue, n),
                                                          !.seen = HighestId(Source, run.seen, got)]
<1>1. run.step = "fetch" /\ Source # "vestnik" /\ run # Idle
  <2>1. run.step = "fetch" /\ Source # "vestnik"
    BY DEF FetchItems
  <2> QED BY <2>1 DEF Idle
<1>2. RunOK(Bulletins, run) /\ World
  BY <1>1 DEF Inv, LossInv
<1>3. Raws(Source, run.queue)
  <2>1. QueueOK(Bulletins, Source, run.queue)
    BY <1>2 DEF RunOK, Source
  <2> QED BY <1>1, <2>1, RawsOfQueue
<1>4. n \in Nat
  <2>1. n \in 0..Len(run.queue)
    BY <1>2, <1>3, <1>a, PortionOf DEF Raws, RunOK
  <2> QED BY <2>1, <1>3, LengthOfList DEF Raws
<1>5. Raws(Source, raws)
  BY <1>3, <1>4, <1>b, FirstRaws
<1>6. /\ today' = today /\ released' = released /\ cached' = cached /\ db' = db
      /\ \/ run' = Take(raws) /\ past' = past
         \/ Source = "itms" /\ \E k \in DOMAIN raws, had \in HadForms :
               /\ run' = Take([raws EXCEPT ![k] = fetch_procurements(@, had)])
               /\ past' = Faulty([past EXCEPT !.harmed = @ \cup {<<"itms", raws[k].id>>}])
  <2> DEFINE Ids(got) == {raw.id : raw \in {raw \in ToSet(got) : Transforms("itms", raw)}}
             Taken(got) ==
                [Persist(Transformed(got)) EXCEPT
                    !.queue = After(@, n),
                    !.seen = IF Source # "itms" THEN @ ELSE Max({@} \cup Ids(got))]
  <2>1. ASSUME NEW got PROVE Taken(got) = Take(got)
    <3>a. PICK r : r = Persist(Transformed(got))
      OBVIOUS
    <3>1. r.queue = run.queue /\ r.seen = run.seen
      BY <1>2, <3>a DEF Persist, RunOK, RunFields
    <3>2. HighestId(Source, run.seen, got) = IF Source # "itms" THEN r.seen ELSE Max({r.seen} \cup Ids(got))
      BY <3>1 DEF HighestId
    <3>3. [r EXCEPT !.queue = After(@, n),
                    !.seen = IF Source # "itms" THEN @ ELSE Max({@} \cup Ids(got))]
          = [r EXCEPT !.queue = After(run.queue, n), !.seen = HighestId(Source, run.seen, got)]
      BY <3>1, <3>2
    <3> QED BY <3>a, <3>3
  <2>2. /\ UNCHANGED <<today, released, cached, db>>
        /\ \/ run' = Taken(raws) /\ past' = past
           \/ Source = "itms" /\ \E k \in DOMAIN raws, had \in HadForms :
                 /\ run' = Taken([raws EXCEPT ![k] = fetch_procurements(@, had)])
                 /\ past' = Faulty([past EXCEPT !.harmed = @ \cup {<<"itms", raws[k].id>>}])
    BY <1>a, <1>b DEF FetchItems
  <2> HIDE DEF Taken, Take
  <2> QED BY <2>1, <2>2
<1>7. CASE run' = Take(raws) /\ past' = past
  <2>1. PastOK'
    BY <1>2, <1>7 DEF World, PastOK
  <2>2. \A g : g \in ToSet(FirstOf(run.queue, n)) <=> g \in ToSet(raws)
    BY <1>b
  <2> QED BY <1>1, <1>4, <1>5, <1>6, <1>7, <2>1, <2>2, ItemsTaken
<1>8. ASSUME Source = "itms", NEW k \in DOMAIN raws, NEW had,
             run' = Take([raws EXCEPT ![k] = fetch_procurements(@, had)]),
             past' = Faulty([past EXCEPT !.harmed = @ \cup {<<"itms", raws[k].id>>}])
      PROVE  LossInv'
  <2>a. PICK got : got = [raws EXCEPT ![k] = fetch_procurements(@, had)]
    OBVIOUS
  <2>b. PICK part : part = fetch_procurements(raws[k], had)
    OBVIOUS
  <2>c. PICK id : id = raws[k].id
    OBVIOUS
  <2>1. Raws(Source, got)
    BY <1>5, <1>8, <2>a, GotRaws
  <2>2. /\ DOMAIN got = DOMAIN raws
        /\ \A j \in DOMAIN raws : got[j] = IF j = k THEN part ELSE raws[j]
    <3>1. raws = [j \in DOMAIN raws |-> raws[j]]
      BY <1>5, LengthOfList DEF Raws
    <3>2. got = [raws EXCEPT ![k] = part]
      BY <2>a, <2>b
    <3> QED BY <3>1, <3>2
  <2>3. part.id = id
    <3>1. WellFormed("itms", raws[k])
      BY <1>5, <1>8 DEF Raws
    <3> QED BY <3>1, <2>b, <2>c, FetchedId
  <2>4. /\ PastOK' /\ past'.harmed = past.harmed \cup {<<"itms", id>>}
        /\ past'.late = past.late /\ past'.merged = past.merged /\ past'.behind = past.behind
    BY <1>2, <1>8, <2>c DEF World, PastOK, Faulty
  <2>5. ASSUME NEW g \in ToSet(got)
        PROVE  \/ g \in ToSet(raws)
               \/ /\ Source = "itms" /\ <<"itms", g.id>> \in past'.harmed
                  /\ \E raw \in ToSet(raws) : g.id = raw.id
    <3>1. PICK j \in DOMAIN raws : g = got[j]
      BY <2>2, <2>5 DEF ToSet
    <3>2. CASE j = k
      <4>1. g.id = id /\ raws[k] \in ToSet(raws)
        BY <2>2, <2>3, <3>1, <3>2 DEF ToSet
      <4> QED BY <1>8, <2>4, <2>c, <4>1
    <3>3. CASE j # k
      BY <2>2, <3>1, <3>3 DEF ToSet
    <3> QED BY <3>2, <3>3
  <2>6. ASSUME NEW raw \in ToSet(raws)
        PROVE  raw \in ToSet(got) \/ (Source = "itms" /\ <<"itms", raw.id>> \in past'.harmed)
    <3>1. PICK j \in DOMAIN raws : raw = raws[j]
      BY <2>6 DEF ToSet
    <3>2. CASE j = k
      BY <1>8, <2>4, <2>c, <3>1, <3>2
    <3>3. CASE j # k
      <4>1. raw = got[j]
        BY <2>2, <3>1, <3>3
      <4> QED BY <2>2, <4>1 DEF ToSet
    <3> QED BY <3>2, <3>3
  <2>7. past.harmed \subseteq past'.harmed /\ run' = Take(got)
    BY <1>8, <2>4, <2>a
  <2>8. /\ \A g \in ToSet(got) :
              \/ g \in ToSet(FirstOf(run.queue, n))
              \/ /\ Source = "itms" /\ <<"itms", g.id>> \in past'.harmed
                 /\ \E raw \in ToSet(FirstOf(run.queue, n)) : g.id = raw.id
        /\ \A raw \in ToSet(FirstOf(run.queue, n)) :
              \/ raw \in ToSet(got)
              \/ Source = "itms" /\ <<"itms", raw.id>> \in past'.harmed
    BY <1>b, <2>5, <2>6
  <2> QED BY <1>1, <1>4, <1>6, <2>1, <2>4, <2>7, <2>8, ItemsTaken
<1> HIDE DEF Take
<1> QED BY <1>6, <1>7, <1>8

-----------------------------------------------------------------------------
(* A chunk is written *)

Writing == Saving \cup {"graph"}

\* What a step that writes has to keep, for the rest to be kept with it.
LEMMA WritingKeeps ==
    ASSUME Inv, Inv', LossInv, Grows, Holds, PastOK', SafeOnes(run.late),
           run.step \in Writing, run'.step \in Writing \cup {"checkpoint"},
           today' = today, released' = released, cached' = cached, run'.late = run.late,
           ToSet(run'.todo) \subseteq ToSet(run'.buffer),
           RegistryOK', BufferInHand', ChunkStored'
    PROVE  LossInv'
<1>1. run # Idle /\ Handling /\ Progress /\ World
  BY DEF Holds, LossInv
<1>2. run.step \notin {"open", "fetch"} /\ run'.step \notin {"finish", "match", "fetch"} /\ run.step \in Working
  BY DEF Writing, Saving, Working
<1>3. Handling'
  <2>1. Source = "vestnik" => run.queue = <<>>
    BY <1>1, <1>2 DEF Handling, Places
  <2> QED BY <1>1, <1>2, <2>1, HoldsHandling
<1>4. SourcesDone' /\ SourceInHand'
  BY <1>2, HoldsProgress
<1>5. MarksFollowData'
  BY <1>1, MarksStay DEF Holds
<1>6. Calendar' /\ CachedOK'
  BY <1>1 DEF World, Calendar, CachedOK, Holds
<1> QED BY <1>3, <1>4, <1>5, <1>6 DEF LossInv, World, Progress

\* The chunk and what follows it are what is left to write, all of it of the buffer.
LEMMA ChunkFacts ==
    ASSUME Inv, LossInv, run.step \in Saving
    PROVE  /\ RunOK(Bulletins, run) /\ run # Idle /\ AreNotices(Chunk) /\ AreNotices(run.todo)
           /\ ToSet(run.todo) = ToSet(Chunk) \cup ToSet(Rest)
           /\ ToSet(Chunk) \subseteq ToSet(run.buffer) /\ ToSet(Rest) \subseteq ToSet(run.buffer)
           /\ ToSet(run.todo) \subseteq ToSet(run.buffer)
           /\ \A n \in ToSet(ToUpsert(db.registry, Chunk)) : n \in ToSet(Chunk)
<1>1. run # Idle /\ run.step \in RunSteps
  BY DEF Idle, Saving, RunSteps
<1>2. RunOK(Bulletins, run) /\ Places
  BY <1>1 DEF Inv, LossInv, Handling
<1>3. AreNotices(run.todo) /\ AreNotices(Chunk) /\ IsList(run.todo)
  BY <1>2, ChunkOfNotices DEF RunOK, AreNotices
<1>4. ToSet(run.todo) = ToSet(Chunk) \cup ToSet(Rest)
  <2>1. BATCH_SIZE \in Nat
    BY PipelineAssumption
  <2> QED BY <1>3, <2>1, PartsOfList DEF Chunk, Rest
<1>5. ToSet(run.todo) \subseteq ToSet(run.buffer)
  BY <1>2 DEF Places
<1>6. ToSet(deduped(Chunk)) \subseteq ToSet(Chunk)
  BY <1>3, DedupedSet
<1>7. \A n \in ToSet(ToUpsert(db.registry, Chunk)) : n \in ToSet(deduped(Chunk))
  BY <1>3, UpsertedSet
<1> QED BY <1>1, <1>2, <1>3, <1>4, <1>5, <1>6, <1>7

\* Of a record whose latest version is accounted for by nothing, a chunk holds that version alone.
LEMMA LatestInChunk ==
    ASSUME Inv, LossInv, run.step \in Saving,
           NEW r \in released, Counts(r), ~Missed(r), r \notin run.late
    PROVE  /\ \A n \in ToSet(Chunk) : KeyOf(n) = KeyOf(Notice(r)) => n = Notice(r)
           /\ \A n \in ToSet(ToUpsert(db.registry, Chunk)) : KeyOf(n) = KeyOf(Notice(r)) => n = Notice(r)
           /\ Notice(r) \in ToSet(Chunk) =>
                 /\ Notice(r) \in ToSet(deduped(Chunk))
                 /\ \/ unchanged(db.registry, Notice(r))
                    \/ Notice(r) \in ToSet(ToUpsert(db.registry, Chunk))
<1>1. /\ run # Idle /\ AreNotices(Chunk) /\ ToSet(Chunk) \subseteq ToSet(run.buffer)
      /\ \A n \in ToSet(ToUpsert(db.registry, Chunk)) : n \in ToSet(Chunk)
  BY ChunkFacts
<1>2. BufferFresh
  BY <1>1 DEF LossInv, Handling
<1>3. r \in Latest /\ Transforms(r.source, r.raw) /\ KeyOf(Notice(r)) = RecordOf(r)
  BY ReleaseFacts DEF Counts, Inv, WorldOK
<1>4. ASSUME NEW n \in ToSet(Chunk), KeyOf(n) = KeyOf(Notice(r)) PROVE n = Notice(r)
  BY <1>1, <1>2, <1>3, <1>4 DEF BufferFresh, Suits
<1>5. ASSUME Notice(r) \in ToSet(Chunk)
      PROVE  /\ Notice(r) \in ToSet(deduped(Chunk))
             /\ \/ unchanged(db.registry, Notice(r))
                \/ Notice(r) \in ToSet(ToUpsert(db.registry, Chunk))
  <2>1. ToSet(deduped(Chunk)) \subseteq ToSet(Chunk)
    BY <1>1, DedupedSet
  <2>2. PICK m \in ToSet(deduped(Chunk)) : KeyOf(m) = KeyOf(Notice(r))
    BY <1>1, <1>5, DedupedSet
  <2>3. Notice(r) \in ToSet(deduped(Chunk))
    BY <1>4, <2>1, <2>2
  <2> QED BY <1>1, <2>3, UpsertedSet
<1> QED BY <1>1, <1>4, <1>5

\* What SaveNotices does.
LEMMA SaveNoticesStep ==
    ASSUME Inv, LossInv, SaveNotices
    PROVE  \E failed :
             /\ run.step = "notices" /\ run'.step = "registry" /\ run'.failed = failed
             /\ run'.todo = run.todo /\ run'.buffer = run.buffer /\ run'.late = run.late
             /\ Chunk' = Chunk /\ Rest' = Rest /\ Source' = Source
             /\ today' = today /\ released' = released /\ cached' = cached
             /\ db'.store = bulk_write_notices(db.store, db.registry, Chunk, failed, run.id, today)
             /\ db'.registry = db.registry /\ db'.procurers = db.procurers /\ db'.suppliers = db.suppliers
             /\ past'.harmed = past.harmed \cup failed
             /\ past'.late = past.late /\ past'.merged = past.merged /\ past'.behind = past.behind
             /\ Holds /\ Grows /\ PastOK'
<1>1. run.step = "notices" /\ run # Idle /\ run.step \in Saving
  <2>1. run.step = "notices"
    BY DEF SaveNotices
  <2> QED BY <2>1 DEF Idle, Saving
<1>2. RunOK(Bulletins, run) /\ World /\ DbOK(db)
  BY <1>1 DEF Inv, LossInv
<1>3. PICK failed :
         /\ db' = [db EXCEPT !.store = bulk_write_notices(@, db.registry, Chunk, failed, run.id, today)]
         /\ run' = [run EXCEPT !.step = "registry", !.failed = failed]
         /\ past' = IF failed = {} THEN past ELSE Faulty([past EXCEPT !.harmed = @ \cup failed])
         /\ UNCHANGED <<today, released, cached>>
  BY DEF SaveNotices
<1>4. /\ run'.step = "registry" /\ run'.failed = failed
      /\ run'.todo = run.todo /\ run'.queue = run.queue /\ run'.buffer = run.buffer
      /\ run'.stage = run.stage /\ run'.opened = run.opened /\ run'.mark = run.mark
      /\ run'.seen = run.seen /\ run'.from = run.from /\ run'.since = run.since /\ run'.late = run.late
  BY <1>2, <1>3 DEF RunOK, RunFields
<1>a. PICK store : store = bulk_write_notices(db.store, db.registry, Chunk, failed, run.id, today)
  OBVIOUS
<1>5. /\ db'.store = store
      /\ db'.registry = db.registry /\ db'.procurers = db.procurers /\ db'.suppliers = db.suppliers
      /\ db'.lastRun = db.lastRun /\ db'.vestnikMark = db.vestnikMark /\ db'.itmsMin = db.itmsMin
  <2>1. db' = [db EXCEPT !.store = store]
    BY <1>3, <1>a
  <2> QED BY <1>2, <2>1 DEF DbOK, DbFields
<1>6. /\ PastOK' /\ past'.harmed = past.harmed \cup failed
      /\ past'.late = past.late /\ past'.merged = past.merged /\ past'.behind = past.behind
  <2>1. CASE failed = {}
    BY <1>2, <1>3, <2>1 DEF World, PastOK
  <2>2. CASE failed # {}
    BY <1>2, <1>3, <2>2 DEF World, PastOK, Faulty
  <2> QED BY <2>1, <2>2
<1>7. Holds
  <2>1. run' # Idle
    BY <1>4 DEF Idle
  <2> QED BY <1>1, <1>3, <1>4, <1>5, <2>1 DEF Holds
<1>8. Grows
  <2>1. today \in Int /\ db.lastRun \in Int
    BY PipelineAssumption DEF Inv, WorldOK, DbOK
  <2>2. today' = today /\ released' = released /\ cached' = cached
    BY <1>3
  <2>3. past.harmed \subseteq past'.harmed
    BY <1>6
  <2> QED BY <1>5, <1>6, <2>1, <2>2, <2>3 DEF Grows
<1>9. Chunk' = Chunk /\ Rest' = Rest /\ Source' = Source
  BY <1>4 DEF Chunk, Rest, Source
<1> QED BY <1>1, <1>3, <1>4, <1>5, <1>6, <1>7, <1>8, <1>9, <1>a

LEMMA SaveNoticesKeepsLoss ==
    ASSUME Inv, Inv', LossInv, SaveNotices
    PROVE  LossInv'
<1>1. PICK failed :
         /\ run.step = "notices" /\ run'.step = "registry" /\ run'.failed = failed
         /\ run'.todo = run.todo /\ run'.buffer = run.buffer /\ run'.late = run.late
         /\ Chunk' = Chunk /\ Rest' = Rest /\ Source' = Source
         /\ today' = today /\ released' = released /\ cached' = cached
         /\ db'.store = bulk_write_notices(db.store, db.registry, Chunk, failed, run.id, today)
         /\ db'.registry = db.registry /\ db'.procurers = db.procurers /\ db'.suppliers = db.suppliers
         /\ past'.harmed = past.harmed \cup failed
         /\ past'.late = past.late /\ past'.merged = past.merged /\ past'.behind = past.behind
         /\ Holds /\ Grows /\ PastOK'
  BY SaveNoticesStep
<1>2. run.step \in Saving /\ run.step \in Writing /\ run'.step \in Writing /\ run'.step # "checkpoint"
  BY <1>1 DEF Saving, Writing
<1>3. run # Idle /\ AreNotices(Chunk) /\ ToSet(run.todo) = ToSet(Chunk) \cup ToSet(Rest)
      /\ ToSet(run.todo) \subseteq ToSet(run.buffer)
  BY <1>2, ChunkFacts
<1>4. Handling /\ Progress /\ World
  BY <1>3 DEF LossInv
<1> DEFINE writes == ToSet(ToUpsert(db.registry, Chunk))
<1>5. /\ \A n \in writes : KeyOf(n) \notin failed => HashIn(db'.store, compute_notice_hash(n))
      /\ \A hash : /\ HashIn(db.store, hash)
                   /\ \A n \in writes : \/ KeyOf(n) \in failed \/ KeyOf(n) # <<hash[1], hash[2]>>
                                        \/ compute_notice_hash(n) = hash
                   => HashIn(db'.store, hash)
  <2>a. PICK after : after = bulk_write_notices(db.store, db.registry, Chunk, failed, run.id, today)
    OBVIOUS
  <2>1. /\ \A n \in writes : KeyOf(n) \notin failed => HashIn(after, compute_notice_hash(n))
        /\ \A hash : /\ HashIn(db.store, hash)
                     /\ \A n \in writes : \/ KeyOf(n) \in failed \/ KeyOf(n) # <<hash[1], hash[2]>>
                                          \/ compute_notice_hash(n) = hash
                     => HashIn(after, hash)
    BY <1>3, <2>a, NoticesStored
  <2>2. db'.store = after
    BY <1>1, <2>a
  <2> HIDE DEF writes
  <2> QED BY <2>1, <2>2
<1> HIDE DEF writes
<1>6. \A r \in released : r \in Releases
  BY DEF Inv, WorldOK
<1>7. ASSUME NEW r \in released, Counts(r), ~Missed(r), r \notin run.late, Stored(Notice(r))
      PROVE  Stored(Notice(r))'
  <2>1. \A n \in writes : KeyOf(n) = KeyOf(Notice(r)) => n = Notice(r)
    BY <1>2, <1>7, LatestInChunk DEF writes
  <2>a. PICK hash : hash = compute_notice_hash(Notice(r))
    OBVIOUS
  <2>2. <<hash[1], hash[2]>> = KeyOf(Notice(r))
    BY <2>a, HashHasKey
  <2>3. HashIn(db.store, hash)
    BY <1>7, <2>a DEF Stored
  <2>4. \A n \in writes : KeyOf(n) = <<hash[1], hash[2]>> => compute_notice_hash(n) = hash
    BY <2>1, <2>2, <2>a
  <2>5. HashIn(db'.store, hash)
    BY <1>5, <2>3, <2>4
  <2> QED BY <2>5, <2>a DEF Stored, Notice
<1>8. SafeOnes(run.late)
  <2> SUFFICES ASSUME NEW r \in released, Counts(r), Safe(r), r \notin run.late PROVE Safe(r)'
    BY DEF SafeOnes
  <2>1. CASE Missed(r)
    BY <1>1, <1>6, <2>1, MissedStays DEF Safe, Excused
  <2>2. CASE ~Missed(r)
    <3>1. /\ Stored(Notice(r)) => Stored(Notice(r))'
          /\ Named(Notice(r)) => Named(Notice(r))'
          /\ unchanged(db.registry, Notice(r)) => unchanged(db'.registry, Notice(r))
      BY <1>1, <1>7, <2>2 DEF Named, Notice
    <3> QED BY <1>1, <1>6, <3>1, SafeStays
  <2> QED BY <2>1, <2>2
<1>9. ToRegister = {} /\ ToRegister' = Keys(ToUpsert(db.registry, Chunk)) \ failed
  <2>1. run' # Idle
    BY <1>1 DEF Idle
  <2> QED BY <1>1, <2>1 DEF ToRegister
<1>10. \A n \in writes : KeyOf(n) \notin failed => KeyOf(n) \in ToRegister'
  BY <1>9 DEF Keys, writes
<1>11. RegistryOK'
  <2> SUFFICES ASSUME NEW e \in db.registry
               PROVE  /\ <<e.hash[1], e.hash[2]>> = e.key
                      /\ HashIn(db'.store, e.hash) \/ e.key \in past.behind \/ e.key \in ToRegister'
    BY <1>1 DEF RegistryOK
  <2>1. <<e.hash[1], e.hash[2]>> = e.key /\ (HashIn(db.store, e.hash) \/ e.key \in past.behind)
    BY <1>4, <1>9 DEF World, RegistryOK
  <2>2. CASE HashIn(db.store, e.hash) /\ e.key \notin ToRegister'
    <3>1. \A n \in writes : KeyOf(n) \in failed \/ KeyOf(n) # <<e.hash[1], e.hash[2]>>
      BY <1>10, <2>1, <2>2
    <3> QED BY <1>5, <2>1, <2>2, <3>1
  <2> QED BY <2>1, <2>2
<1>12. ChunkStored'
  BY <1>1, <1>5 DEF ChunkStored, Stored, writes
<1>13. BufferInHand'
  <2> SUFFICES ASSUME NEW r \in released, Pending(r)' PROVE SoFar(Notice(r))'
    BY <1>1 DEF BufferInHand
  <2>1. /\ Counts(r) /\ r.source = Source /\ Notice(r) \in ToSet(run.buffer) /\ r \notin run.late
        /\ Missed(r) => Missed(r)'
        /\ ~Missed(r)'
    <3>1. Counts(r)'
      BY DEF Pending
    <3>2. Counts(r)
      BY <1>1, <3>1, CountsBefore DEF Grows
    <3>3. Missed(r) => Missed(r)'
      BY <1>1, <1>6, MissedStays
    <3> QED BY <1>1, <3>2, <3>3 DEF Pending, Notice
  <2>2. SoFar(Notice(r))
    BY <1>4, <2>1 DEF Progress, BufferInHand, Pending
  <2>a. PICK n : n = Notice(r)
    OBVIOUS
  <2>3. Stored(n) => Stored(n)'
    BY <1>7, <2>1, <2>a DEF Notice
  <2>4. Kept(n) => Kept(n)'
    BY <1>1, <2>3 DEF Kept
  <2>5. n \notin ToSet(run.todo) => Kept(n) /\ Named(n)
    BY <1>1, <2>2, <2>a DEF SoFar
  <2>6. Named(n) => Named(n)'
    BY <1>1 DEF Named
  <2>7. n \in ToSet(Chunk) => Kept(n)'
    <3> SUFFICES ASSUME n \in ToSet(Chunk) PROVE Kept(n)'
      OBVIOUS
    <3>1. unchanged(db.registry, n) \/ n \in writes
      BY <1>2, <2>1, <2>a, LatestInChunk DEF writes
    <3>2. CASE unchanged(db.registry, n)
      <4>1. PICK e \in db.registry : e.key = KeyOf(n) /\ e.hash = compute_notice_hash(n)
        BY <3>2 DEF unchanged, registry_entry
      <4>2. Stored(n) \/ KeyOf(n) \in past.behind
        BY <1>4, <1>9, <4>1 DEF World, RegistryOK, Stored
      <4> QED BY <2>4, <3>2, <4>2 DEF Kept
    <3>3. CASE n \in writes /\ KeyOf(n) \in failed
      BY <1>1, <3>3 DEF Kept
    <3>4. CASE n \in writes /\ KeyOf(n) \notin failed
      BY <1>5, <3>4 DEF Kept, Stored
    <3> QED BY <3>1, <3>2, <3>3, <3>4
  <2>8. n \notin ToSet(Rest) => Kept(n)'
    BY <1>3, <2>4, <2>5, <2>7
  <2>9. n \notin ToSet(run.todo) => Named(n)'
    BY <2>5, <2>6
  <2>10. SoFar(n)'
    BY <1>1, <2>8, <2>9 DEF SoFar
  <2> QED BY <2>10, <2>a DEF Notice
<1>14. ToSet(run'.todo) \subseteq ToSet(run'.buffer)
  BY <1>1, <1>3
<1> QED BY <1>1, <1>2, <1>8, <1>11, <1>12, <1>13, <1>14, WritingKeeps

\* What SaveRegistry does.
LEMMA SaveRegistryStep ==
    ASSUME Inv, LossInv, SaveRegistry
    PROVE  \E lost :
             /\ run.step = "registry" /\ run'.step = "entities"
             /\ run'.todo = run.todo /\ run'.buffer = run.buffer /\ run'.late = run.late
             /\ Rest' = Rest /\ Source' = Source
             /\ today' = today /\ released' = released /\ cached' = cached
             /\ db'.registry = bulk_write_registry(db.registry, Chunk, run.failed \cup lost)
             /\ db'.store = db.store /\ db'.procurers = db.procurers /\ db'.suppliers = db.suppliers
             /\ past'.behind = past.behind \cup lost
             /\ past'.late = past.late /\ past'.merged = past.merged /\ past'.harmed = past.harmed
             /\ Holds /\ Grows /\ PastOK'
<1>1. run.step = "registry" /\ run # Idle
  <2>1. run.step = "registry"
    BY DEF SaveRegistry
  <2> QED BY <2>1 DEF Idle
<1>2. RunOK(Bulletins, run) /\ World /\ DbOK(db)
  BY <1>1 DEF Inv, LossInv
<1>3. PICK lost :
         /\ db' = [db EXCEPT !.registry = bulk_write_registry(@, Chunk, run.failed \cup lost)]
         /\ run' = [run EXCEPT !.step = "entities"]
         /\ past' = IF lost = {} THEN past ELSE Faulty([past EXCEPT !.behind = @ \cup lost])
         /\ UNCHANGED <<today, released, cached>>
  BY DEF SaveRegistry
<1>4. /\ run'.step = "entities"
      /\ run'.todo = run.todo /\ run'.queue = run.queue /\ run'.buffer = run.buffer
      /\ run'.stage = run.stage /\ run'.opened = run.opened /\ run'.mark = run.mark
      /\ run'.seen = run.seen /\ run'.from = run.from /\ run'.since = run.since /\ run'.late = run.late
  BY <1>2, <1>3 DEF RunOK, RunFields
<1>a. PICK registry : registry = bulk_write_registry(db.registry, Chunk, run.failed \cup lost)
  OBVIOUS
<1>5. /\ db'.registry = registry
      /\ db'.store = db.store /\ db'.procurers = db.procurers /\ db'.suppliers = db.suppliers
      /\ db'.lastRun = db.lastRun /\ db'.vestnikMark = db.vestnikMark /\ db'.itmsMin = db.itmsMin
  <2>1. db' = [db EXCEPT !.registry = registry]
    BY <1>3, <1>a
  <2> QED BY <1>2, <2>1 DEF DbOK, DbFields
<1>6. /\ PastOK' /\ past'.behind = past.behind \cup lost
      /\ past'.late = past.late /\ past'.merged = past.merged /\ past'.harmed = past.harmed
  <2>1. CASE lost = {}
    BY <1>2, <1>3, <2>1 DEF World, PastOK
  <2>2. CASE lost # {}
    BY <1>2, <1>3, <2>2 DEF World, PastOK, Faulty
  <2> QED BY <2>1, <2>2
<1>7. Holds
  <2>1. run' # Idle
    BY <1>4 DEF Idle
  <2> QED BY <1>1, <1>3, <1>4, <1>5, <2>1 DEF Holds
<1>8. Grows
  <2>1. today \in Int /\ db.lastRun \in Int
    BY PipelineAssumption DEF Inv, WorldOK, DbOK
  <2>2. today' = today /\ released' = released /\ cached' = cached
    BY <1>3
  <2>3. past.behind \subseteq past'.behind
    BY <1>6
  <2> QED BY <1>5, <1>6, <2>1, <2>2, <2>3 DEF Grows
<1>9. Rest' = Rest /\ Source' = Source
  BY <1>4 DEF Rest, Source
<1> QED BY <1>1, <1>3, <1>4, <1>5, <1>6, <1>7, <1>8, <1>9, <1>a

LEMMA SaveRegistryKeepsLoss ==
    ASSUME Inv, Inv', LossInv, SaveRegistry
    PROVE  LossInv'
<1>1. PICK lost :
         /\ run.step = "registry" /\ run'.step = "entities"
         /\ run'.todo = run.todo /\ run'.buffer = run.buffer /\ run'.late = run.late
         /\ Rest' = Rest /\ Source' = Source
         /\ today' = today /\ released' = released /\ cached' = cached
         /\ db'.registry = bulk_write_registry(db.registry, Chunk, run.failed \cup lost)
         /\ db'.store = db.store /\ db'.procurers = db.procurers /\ db'.suppliers = db.suppliers
         /\ past'.behind = past.behind \cup lost
         /\ past'.late = past.late /\ past'.merged = past.merged /\ past'.harmed = past.harmed
         /\ Holds /\ Grows /\ PastOK'
  BY SaveRegistryStep
<1>2. run.step \in Saving /\ run.step \in Writing /\ run'.step \in Writing
  BY <1>1 DEF Saving, Writing
<1>3. run # Idle /\ AreNotices(Chunk) /\ ToSet(run.todo) \subseteq ToSet(run.buffer)
  BY <1>2, ChunkFacts
<1>4. Handling /\ Progress /\ World
  BY <1>3 DEF LossInv
<1>a. PICK failing : failing = run.failed \cup lost
  OBVIOUS
<1> DEFINE writes == ToSet(ToUpsert(db.registry, Chunk))
           entered == {n \in writes : KeyOf(n) \notin failing}
<1>5. /\ \A e \in db'.registry : \/ e \in db.registry /\ \A n \in entered : KeyOf(n) # e.key
                                 \/ \E n \in entered : e = Entry(n)
      /\ \A n : /\ unchanged(db.registry, n)
                /\ \A m \in entered : KeyOf(m) = KeyOf(n) => compute_notice_hash(m) = compute_notice_hash(n)
                => unchanged(db'.registry, n)
  <2>a. PICK after : after = bulk_write_registry(db.registry, Chunk, failing)
    OBVIOUS
  <2>1. /\ \A e \in after : \/ e \in db.registry /\ \A n \in entered : KeyOf(n) # e.key
                            \/ \E n \in entered : e = Entry(n)
        /\ \A n : /\ unchanged(db.registry, n)
                  /\ \A m \in entered : KeyOf(m) = KeyOf(n) => compute_notice_hash(m) = compute_notice_hash(n)
                  => unchanged(after, n)
    BY <1>3, <2>a, NoticesEntered
  <2>2. db'.registry = after
    BY <1>1, <1>a, <2>a
  <2> HIDE DEF entered
  <2> QED BY <2>1, <2>2
<1>b. \A n : n \in entered <=> n \in writes /\ KeyOf(n) \notin run.failed /\ KeyOf(n) \notin lost
  BY <1>a
<1> HIDE DEF entered, writes
<1>6. \A r \in released : r \in Releases
  BY DEF Inv, WorldOK
<1>7. ASSUME NEW r \in released, Counts(r), ~Missed(r), r \notin run.late, unchanged(db.registry, Notice(r))
      PROVE  unchanged(db'.registry, Notice(r))
  <2>1. \A n \in writes : KeyOf(n) = KeyOf(Notice(r)) => n = Notice(r)
    BY <1>2, <1>7, LatestInChunk DEF writes
  <2>2. \A m \in entered : KeyOf(m) = KeyOf(Notice(r)) => compute_notice_hash(m) = compute_notice_hash(Notice(r))
    BY <1>b, <2>1
  <2> QED BY <1>5, <1>7, <2>2
<1>8. SafeOnes(run.late)
  <2> SUFFICES ASSUME NEW r \in released, Counts(r), Safe(r), r \notin run.late PROVE Safe(r)'
    BY DEF SafeOnes
  <2>1. CASE Missed(r)
    BY <1>1, <1>6, <2>1, MissedStays DEF Safe, Excused
  <2>2. CASE ~Missed(r)
    <3>1. /\ Stored(Notice(r)) => Stored(Notice(r))'
          /\ Named(Notice(r)) => Named(Notice(r))'
          /\ unchanged(db.registry, Notice(r)) => unchanged(db'.registry, Notice(r))
      BY <1>1, <1>7, <2>2 DEF Named, Stored, Notice
    <3> QED BY <1>1, <1>6, <3>1, SafeStays
  <2> QED BY <2>1, <2>2
<1>9. ToRegister = Keys(ToUpsert(db.registry, Chunk)) \ run.failed
  BY <1>1, <1>3 DEF ToRegister
<1>10. RegistryOK'
  <2> SUFFICES ASSUME NEW e \in db'.registry
               PROVE  /\ <<e.hash[1], e.hash[2]>> = e.key
                      /\ HashIn(db.store, e.hash) \/ e.key \in past'.behind
    BY <1>1 DEF RegistryOK
  <2>1. CASE e \in db.registry /\ \A n \in entered : KeyOf(n) # e.key
    <3>1. /\ <<e.hash[1], e.hash[2]>> = e.key
          /\ HashIn(db.store, e.hash) \/ e.key \in past.behind \/ e.key \in ToRegister
      BY <1>4, <2>1 DEF World, RegistryOK
    <3>2. ASSUME e.key \in ToRegister PROVE e.key \in lost
      <4>1. PICK n \in writes : e.key = KeyOf(n) /\ KeyOf(n) \notin run.failed
        BY <1>9, <3>2 DEF Keys, writes
      <4> QED BY <1>b, <2>1, <4>1
    <3> QED BY <1>1, <3>1, <3>2
  <2>2. CASE \E n \in entered : e = Entry(n)
    <3>1. PICK n \in entered : e = Entry(n)
      BY <2>2
    <3>2. e.key = KeyOf(n) /\ e.hash = compute_notice_hash(n)
      BY <3>1 DEF Entry
    <3>3. Stored(n)
      BY <1>1, <1>4, <1>b DEF Progress, ChunkStored, writes
    <3> QED BY <3>2, <3>3, HashHasKey DEF Stored
  <2> QED BY <1>5, <2>1, <2>2
<1>11. ChunkStored'
  BY <1>1 DEF ChunkStored
<1>12. BufferInHand'
  <2> SUFFICES ASSUME NEW r \in released, Pending(r)' PROVE SoFar(Notice(r))'
    BY <1>1 DEF BufferInHand
  <2>1. /\ Counts(r) /\ r.source = Source /\ Notice(r) \in ToSet(run.buffer) /\ r \notin run.late
        /\ Missed(r) => Missed(r)'
        /\ ~Missed(r)'
    <3>1. Counts(r)'
      BY DEF Pending
    <3>2. Counts(r)
      BY <1>1, <3>1, CountsBefore DEF Grows
    <3>3. Missed(r) => Missed(r)'
      BY <1>1, <1>6, MissedStays
    <3> QED BY <1>1, <3>2, <3>3 DEF Pending, Notice
  <2>2. SoFar(Notice(r))
    BY <1>4, <2>1 DEF Progress, BufferInHand, Pending
  <2>a. PICK n : n = Notice(r)
    OBVIOUS
  <2>3. unchanged(db.registry, n) => unchanged(db'.registry, n)
    BY <1>7, <2>1, <2>a
  <2>4. Kept(n) => Kept(n)'
    BY <1>1, <2>3 DEF Kept, Stored
  <2>5. Named(n) => Named(n)'
    BY <1>1 DEF Named
  <2>6. (n \notin ToSet(Rest) => Kept(n)) /\ (n \notin ToSet(run.todo) => Named(n))
    BY <1>1, <2>2, <2>a DEF SoFar
  <2>7. SoFar(n)'
    BY <1>1, <2>4, <2>5, <2>6 DEF SoFar
  <2> QED BY <2>7, <2>a DEF Notice
<1>13. ToSet(run'.todo) \subseteq ToSet(run'.buffer)
  BY <1>1, <1>3
<1> QED BY <1>1, <1>2, <1>8, <1>10, <1>11, <1>12, <1>13, WritingKeeps

\* What SaveEntities does.
LEMMA SaveEntitiesStep ==
    ASSUME Inv, LossInv, SaveEntities
    PROVE  /\ run.step = "entities" /\ run'.step = (IF Len(run.todo) > BATCH_SIZE THEN "notices" ELSE "graph")
           /\ run'.todo = Rest /\ run'.buffer = run.buffer /\ run'.late = run.late
           /\ Source' = Source
           /\ today' = today /\ released' = released /\ cached' = cached /\ past' = past
           /\ db'.procurers = bulk_write_entities(db.procurers, ProcurersOf(deduped(Chunk)))
           /\ db'.suppliers = bulk_write_entities(db.suppliers, SuppliersOf(deduped(Chunk)))
           /\ db'.registry = db.registry /\ db'.store = db.store
           /\ Holds /\ Grows /\ PastOK'
<1>1. run.step = "entities" /\ run # Idle
  <2>1. run.step = "entities"
    BY DEF SaveEntities
  <2> QED BY <2>1 DEF Idle
<1>2. RunOK(Bulletins, run) /\ World /\ DbOK(db)
  BY <1>1 DEF Inv, LossInv
<1>a. PICK procurers : procurers = bulk_write_entities(db.procurers, ProcurersOf(deduped(Chunk)))
  OBVIOUS
<1>b. PICK suppliers : suppliers = bulk_write_entities(db.suppliers, SuppliersOf(deduped(Chunk)))
  OBVIOUS
<1>c. PICK rest : rest = Rest
  OBVIOUS
<1>3. /\ db' = [db EXCEPT !.procurers = procurers, !.suppliers = suppliers]
      /\ run' = [run EXCEPT !.todo = rest, !.failed = {},
                            !.step = IF Len(run.todo) > BATCH_SIZE THEN "notices" ELSE "graph"]
      /\ UNCHANGED <<today, released, cached, past>>
  BY <1>a, <1>b, <1>c DEF SaveEntities, Rest
<1>4. /\ run'.step = (IF Len(run.todo) > BATCH_SIZE THEN "notices" ELSE "graph")
      /\ run'.todo = rest /\ run'.queue = run.queue /\ run'.buffer = run.buffer
      /\ run'.stage = run.stage /\ run'.opened = run.opened /\ run'.mark = run.mark
      /\ run'.seen = run.seen /\ run'.from = run.from /\ run'.since = run.since /\ run'.late = run.late
  BY <1>2, <1>3 DEF RunOK, RunFields
<1>5. /\ db'.procurers = procurers /\ db'.suppliers = suppliers
      /\ db'.store = db.store /\ db'.registry = db.registry
      /\ db'.lastRun = db.lastRun /\ db'.vestnikMark = db.vestnikMark /\ db'.itmsMin = db.itmsMin
  BY <1>2, <1>3 DEF DbOK, DbFields
<1>6. Holds
  <2>1. run' # Idle /\ run'.step # "open"
    BY <1>4 DEF Idle
  <2> QED BY <1>1, <1>3, <1>4, <1>5, <2>1 DEF Holds
<1>7. Grows
  <2>1. today \in Int /\ db.lastRun \in Int
    BY PipelineAssumption DEF Inv, WorldOK, DbOK
  <2> QED BY <1>3, <1>5, <2>1 DEF Grows
<1>8. PastOK' /\ Source' = Source
  BY <1>2, <1>3, <1>4 DEF World, PastOK, Source
<1> QED BY <1>1, <1>3, <1>4, <1>5, <1>6, <1>7, <1>8, <1>a, <1>b, <1>c

LEMMA SaveEntitiesKeepsLoss ==
    ASSUME Inv, Inv', LossInv, SaveEntities
    PROVE  LossInv'
<1>1. /\ run.step = "entities" /\ run'.step = (IF Len(run.todo) > BATCH_SIZE THEN "notices" ELSE "graph")
      /\ run'.todo = Rest /\ run'.buffer = run.buffer /\ run'.late = run.late
      /\ Source' = Source
      /\ today' = today /\ released' = released /\ cached' = cached /\ past' = past
      /\ db'.procurers = bulk_write_entities(db.procurers, ProcurersOf(deduped(Chunk)))
      /\ db'.suppliers = bulk_write_entities(db.suppliers, SuppliersOf(deduped(Chunk)))
      /\ db'.registry = db.registry /\ db'.store = db.store
      /\ Holds /\ Grows /\ PastOK'
  BY SaveEntitiesStep
<1>2. run.step \in Saving /\ run.step \in Writing /\ run'.step \in Writing /\ run'.step \in {"notices", "graph"}
  BY <1>1 DEF Saving, Writing
<1>3. /\ run # Idle /\ AreNotices(Chunk) /\ AreNotices(run.todo)
      /\ ToSet(run.todo) = ToSet(Chunk) \cup ToSet(Rest)
      /\ ToSet(Rest) \subseteq ToSet(run.buffer)
  BY <1>2, ChunkFacts
<1>4. Handling /\ Progress /\ World
  BY <1>3 DEF LossInv
<1>5. AreNotices(deduped(Chunk))
  BY <1>3, DedupedList
<1>6. /\ \A org : Has(db.procurers, org) => Has(db'.procurers, org)
      /\ \A org : Has(db.suppliers, org) => Has(db'.suppliers, org)
      /\ \A n \in ToSet(deduped(Chunk)) : n.procurer # None => Has(db'.procurers, n.procurer)
      /\ \A n \in ToSet(deduped(Chunk)) : \A a \in ToSet(n.awards) : Has(db'.suppliers, a.supplier)
  <2>a. PICK procurers : procurers = ProcurersOf(deduped(Chunk))
    OBVIOUS
  <2>b. PICK suppliers : suppliers = SuppliersOf(deduped(Chunk))
    OBVIOUS
  <2>1. Orgs(procurers) /\ Orgs(suppliers)
    BY <1>5, <2>a, <2>b, ProcurersList, SuppliersList
  <2>c. PICK p : p = bulk_write_entities(db.procurers, procurers)
    OBVIOUS
  <2>d. PICK s : s = bulk_write_entities(db.suppliers, suppliers)
    OBVIOUS
  <2>2. /\ \A org : Has(db.procurers, org) => Has(p, org)
        /\ \A org \in ToSet(procurers) : Has(p, org)
    BY <2>1, <2>c, OrgsNamed
  <2>3. /\ \A org : Has(db.suppliers, org) => Has(s, org)
        /\ \A org \in ToSet(suppliers) : Has(s, org)
    BY <2>1, <2>d, OrgsNamed
  <2>4. \A n \in ToSet(deduped(Chunk)) : n.procurer # None => n.procurer \in ToSet(procurers)
    BY <1>5, <2>a, ProcurersSet
  <2>5. \A n \in ToSet(deduped(Chunk)) : \A a \in ToSet(n.awards) : a.supplier \in ToSet(suppliers)
    BY <1>5, <2>b, SuppliersSet
  <2>6. db'.procurers = p /\ db'.suppliers = s
    BY <1>1, <2>a, <2>b, <2>c, <2>d
  <2> QED BY <2>2, <2>3, <2>4, <2>5, <2>6
<1>7. \A r \in released : r \in Releases
  BY DEF Inv, WorldOK
<1>8. \A n : Named(n) => Named(n)'
  BY <1>6 DEF Named
<1>9. SafeOnes(run.late)
  <2> SUFFICES ASSUME NEW r \in released, Counts(r), Safe(r) PROVE Safe(r)'
    BY DEF SafeOnes
  <2>1. /\ Stored(Notice(r)) => Stored(Notice(r))'
        /\ Named(Notice(r)) => Named(Notice(r))'
        /\ unchanged(db.registry, Notice(r)) => unchanged(db'.registry, Notice(r))
    <3>a. PICK n : n = Notice(r)
      OBVIOUS
    <3>1. Named(n) => Named(n)'
      BY <1>8
    <3> QED BY <1>1, <3>1, <3>a DEF Stored, Notice
  <2> QED BY <1>1, <1>7, <2>1, SafeStays
<1>10. RegistryOK'
  <2>1. ToRegister = {}
    BY <1>1 DEF ToRegister
  <2> QED BY <1>1, <1>4, <2>1 DEF World, RegistryOK
<1>11. ChunkStored'
  BY <1>2 DEF ChunkStored
<1>12. BufferInHand'
  <2> SUFFICES ASSUME NEW r \in released, Pending(r)' PROVE SoFar(Notice(r))'
    BY <1>1, <1>2 DEF BufferInHand
  <2>1. /\ Counts(r) /\ r.source = Source /\ Notice(r) \in ToSet(run.buffer) /\ r \notin run.late
        /\ Missed(r) => Missed(r)'
        /\ ~Missed(r)'
    <3>1. Counts(r)'
      BY DEF Pending
    <3>2. Counts(r)
      BY <1>1, <3>1, CountsBefore DEF Grows
    <3>3. Missed(r) => Missed(r)'
      BY <1>1, <1>7, MissedStays
    <3> QED BY <1>1, <3>2, <3>3 DEF Pending, Notice
  <2>2. SoFar(Notice(r))
    BY <1>4, <2>1 DEF Progress, BufferInHand, Pending
  <2>a. PICK n : n = Notice(r)
    OBVIOUS
  <2>3. Kept(n) => Kept(n)'
    BY <1>1 DEF Kept, Stored
  <2>4. (n \notin ToSet(Rest) => Kept(n)) /\ (n \notin ToSet(run.todo) => Named(n))
    BY <1>1, <2>2, <2>a DEF SoFar
  <2>5. n \in ToSet(Chunk) => Named(n)'
    <3>1. n \in ToSet(Chunk) => n \in ToSet(deduped(Chunk))
      BY <1>2, <2>1, <2>a, LatestInChunk
    <3> QED BY <1>6, <3>1 DEF Named
  <2>6. n \notin ToSet(Rest) => Kept(n)' /\ Named(n)'
    BY <1>3, <1>8, <2>3, <2>4, <2>5
  <2>7. run'.step = "graph" => n \notin ToSet(Rest)
    <3> SUFFICES ASSUME run'.step = "graph" PROVE ToSet(Rest) = {}
      OBVIOUS
    <3>1. BATCH_SIZE \in Nat /\ Len(run.todo) \in Nat
      BY <1>3, LengthOfList, PipelineAssumption DEF AreNotices
    <3>2. Len(run.todo) <= BATCH_SIZE
      BY <1>1, <3>1
    <3>3. Rest = <<>>
      BY <1>3, <3>1, <3>2, RestOfNotices DEF Rest
    <3> QED BY <3>3 DEF ToSet
  <2>8. SoFar(n)'
    BY <1>1, <1>2, <2>6, <2>7 DEF SoFar
  <2> QED BY <2>8, <2>a DEF Notice
<1>13. ToSet(run'.todo) \subseteq ToSet(run'.buffer)
  BY <1>1, <1>3
<1> QED BY <1>1, <1>2, <1>9, <1>10, <1>11, <1>12, <1>13, WritingKeeps

LEMMA MergeGraphStep ==
    ASSUME Inv, LossInv, MergeGraph
    PROVE  \E failed :
             /\ run.step = "graph" /\ run'.step = "checkpoint"
             /\ run'.todo = run.todo /\ run.todo = <<>> /\ run'.buffer = run.buffer /\ run'.late = run.late
             /\ Source' = Source
             /\ today' = today /\ released' = released /\ cached' = cached /\ db' = db
             /\ past'.harmed = past.harmed \cup failed
             /\ past'.merged = past.merged \cup {n \in ToSet(run.buffer) : KeyOf(n) \notin failed}
             /\ past'.late = past.late /\ past'.behind = past.behind
             /\ Holds /\ Grows /\ StoresStay /\ PastOK'
<1>1. run.step = "graph" /\ run # Idle
  <2>1. run.step = "graph"
    BY DEF MergeGraph
  <2> QED BY <2>1 DEF Idle
<1>2. RunOK(Bulletins, run) /\ World /\ DbOK(db)
  BY <1>1 DEF Inv, LossInv
<1>3. PICK failed :
         /\ run' = [run EXCEPT !.step = "checkpoint"]
         /\ past' = LET whole == {n \in ToSet(run.buffer) : KeyOf(n) \notin failed}
                        ghost == [past EXCEPT !.merged = @ \cup whole, !.harmed = @ \cup failed]
                    IN IF failed = {} THEN ghost ELSE Faulty(ghost)
         /\ UNCHANGED <<today, released, cached, db>>
  BY DEF MergeGraph
<1>4. /\ run'.step = "checkpoint"
      /\ run'.todo = run.todo /\ run'.queue = run.queue /\ run'.buffer = run.buffer
      /\ run'.stage = run.stage /\ run'.opened = run.opened /\ run'.mark = run.mark
      /\ run'.seen = run.seen /\ run'.from = run.from /\ run'.since = run.since /\ run'.late = run.late
  BY <1>2, <1>3 DEF RunOK, RunFields
<1>5. /\ PastOK' /\ past'.harmed = past.harmed \cup failed
      /\ past'.merged = past.merged \cup {n \in ToSet(run.buffer) : KeyOf(n) \notin failed}
      /\ past'.late = past.late /\ past'.behind = past.behind
  <2>a. PICK whole : whole = {n \in ToSet(run.buffer) : KeyOf(n) \notin failed}
    OBVIOUS
  <2>b. PICK ghost : ghost = [past EXCEPT !.merged = @ \cup whole, !.harmed = @ \cup failed]
    OBVIOUS
  <2>1. /\ DOMAIN ghost = {"runs", "faults", "late", "harmed", "merged", "behind"}
        /\ ghost.harmed = past.harmed \cup failed /\ ghost.merged = past.merged \cup whole
        /\ ghost.late = past.late /\ ghost.behind = past.behind
    BY <1>2, <2>b DEF World, PastOK
  <2>2. past' = IF failed = {} THEN ghost ELSE Faulty(ghost)
    BY <1>3, <2>a, <2>b
  <2>3. CASE failed = {}
    BY <2>1, <2>2, <2>3, <2>a DEF PastOK
  <2>4. CASE failed # {}
    BY <2>1, <2>2, <2>4, <2>a DEF PastOK, Faulty
  <2> QED BY <2>3, <2>4
<1>6. Holds
  <2>1. run' # Idle
    BY <1>4 DEF Idle
  <2> QED BY <1>1, <1>3, <1>4, <2>1 DEF Holds
<1>7. Grows
  <2>1. today \in Int /\ db.lastRun \in Int
    BY PipelineAssumption DEF Inv, WorldOK, DbOK
  <2>2. today' = today /\ released' = released /\ cached' = cached /\ db' = db
    BY <1>3
  <2>3. past.harmed \subseteq past'.harmed /\ past.merged \subseteq past'.merged
    BY <1>5
  <2> QED BY <1>5, <2>1, <2>2, <2>3 DEF Grows
<1>8. Source' = Source /\ StoresStay /\ run.todo = <<>>
  BY <1>1, <1>2, <1>3, <1>4 DEF Source, StoresStay, RunOK, Saving
<1> QED BY <1>1, <1>3, <1>4, <1>5, <1>6, <1>7, <1>8

LEMMA MergeGraphKeepsLoss ==
    ASSUME Inv, Inv', LossInv, MergeGraph
    PROVE  LossInv'
<1>1. PICK failed :
         /\ run.step = "graph" /\ run'.step = "checkpoint"
         /\ run'.todo = run.todo /\ run.todo = <<>> /\ run'.buffer = run.buffer /\ run'.late = run.late
         /\ Source' = Source
         /\ today' = today /\ released' = released /\ cached' = cached /\ db' = db
         /\ past'.harmed = past.harmed \cup failed
         /\ past'.merged = past.merged \cup {n \in ToSet(run.buffer) : KeyOf(n) \notin failed}
         /\ past'.late = past.late /\ past'.behind = past.behind
         /\ Holds /\ Grows /\ StoresStay /\ PastOK'
  BY MergeGraphStep
<1>2. run.step \in Writing
  BY <1>1 DEF Writing
<1>3. Handling /\ Progress /\ World
  BY <1>1 DEF LossInv, Holds
<1>4. SafeOnes(run.late)
  BY <1>1, SafeOnesWhileStoresStay
<1>5. RegistryOK' /\ ChunkStored'
  <2>1. ToRegister = {}
    BY <1>1 DEF ToRegister
  <2> QED BY <1>1, <1>3, <2>1 DEF World, RegistryOK, ChunkStored
<1>6. BufferInHand'
  <2> SUFFICES ASSUME NEW r \in released, Pending(r)' PROVE Safe(r)'
    BY <1>1 DEF BufferInHand, SoFar
  <2>1. /\ Counts(r) /\ r.source = Source /\ Notice(r) \in ToSet(run.buffer) /\ r \notin run.late
        /\ Missed(r) => Missed(r)'
        /\ ~Missed(r)' /\ r \in Releases
    <3>1. Counts(r)'
      BY DEF Pending
    <3>2. Counts(r)
      BY <1>1, <3>1, CountsBefore DEF Grows
    <3>3. r \in Releases
      BY DEF Inv, WorldOK
    <3>4. Missed(r) => Missed(r)'
      BY <1>1, <3>3, MissedStays
    <3> QED BY <1>1, <3>2, <3>3, <3>4 DEF Pending, Notice
  <2>2. SoFar(Notice(r))
    BY <1>3, <2>1 DEF Progress, BufferInHand, Pending
  <2>a. PICK n : n = Notice(r)
    OBVIOUS
  <2>3. Kept(n) /\ Named(n) /\ KeyOf(n) = RecordOf(r)
    BY <1>1, <2>1, <2>2, <2>a, ReleaseFacts DEF SoFar
  <2>4. KeyOf(n) \notin past'.harmed
    BY <2>1, <2>3 DEF Missed
  <2>5. n \in past'.merged
    BY <1>1, <2>1, <2>4, <2>a
  <2>6. KeyOf(n) \notin past.harmed
    BY <1>1, <2>4
  <2>7. CASE Stored(n)
    <3>1. Loaded(r)'
      BY <1>1, <2>3, <2>5, <2>7, <2>a DEF Loaded, Stored, Named, Notice, HashIn, Has
    <3> QED BY <3>1 DEF Safe
  <2>8. CASE KeyOf(n) \in past.behind /\ unchanged(db.registry, n)
    BY <1>1, <2>3, <2>8, <2>a DEF Safe, Excused, Notice
  <2> QED BY <2>3, <2>6, <2>7, <2>8 DEF Kept
<1>7. ToSet(run'.todo) \subseteq ToSet(run'.buffer)
  BY <1>1 DEF ToSet
<1> QED BY <1>1, <1>2, <1>4, <1>5, <1>6, <1>7, WritingKeeps

-----------------------------------------------------------------------------
(* A run ends *)

LEMMA AbortKeepsLoss ==
    ASSUME Inv, Inv', LossInv, Abort
    PROVE  LossInv'
<1>a. PICK behind : behind = (IF run.step = "registry" THEN past.behind \cup Keys(Chunk) ELSE past.behind)
  OBVIOUS
<1>1. /\ today' = today /\ released' = released /\ cached' = cached /\ db' = db
      /\ run # Idle /\ run' = Idle /\ past' = Faulty([past EXCEPT !.behind = behind])
  BY <1>a DEF Abort
<1>2. PastOK' /\ past'.harmed = past.harmed /\ past'.late = past.late
      /\ past'.merged = past.merged /\ past'.behind = behind
  BY <1>1 DEF LossInv, World, PastOK, Faulty
<1>3. past.behind \subseteq past'.behind
  BY <1>2, <1>a
<1>4. Grows /\ StoresStay
  <2>1. today \in Int /\ db.lastRun \in Int
    BY PipelineAssumption DEF Inv, WorldOK, DbOK
  <2> QED BY <1>1, <1>2, <1>3, <2>1 DEF Grows, StoresStay
<1>5. SafeOnes(run.late)
  BY <1>4, SafeOnesWhileStoresStay
<1>6. MarksFollowData'
  BY <1>1, <1>4, <1>5, MarksStay
<1>7. Calendar' /\ CachedOK'
  BY <1>1 DEF LossInv, World, Calendar, CachedOK
<1>8. RegistryOK'
  <2>1. ToRegister \subseteq past'.behind
    <3>1. CASE run.step = "registry"
      <4>1. run.step \in Saving
        BY <3>1 DEF Saving
      <4>2. \A n \in ToSet(ToUpsert(db.registry, Chunk)) : n \in ToSet(Chunk)
        BY <4>1, ChunkFacts
      <4>3. ToRegister \subseteq Keys(Chunk)
        BY <1>1, <3>1, <4>2 DEF ToRegister, Keys
      <4> QED BY <1>2, <1>a, <3>1, <4>3
    <3>2. CASE run.step # "registry"
      BY <3>2 DEF ToRegister
    <3> QED BY <3>1, <3>2
  <2> QED BY <1>1, <1>3, <2>1 DEF LossInv, World, RegistryOK
<1> QED BY <1>1, <1>2, <1>6, <1>7, <1>8 DEF LossInv, World

LEMMA MatchPassStep ==
    ASSUME Inv, LossInv, MatchPass
    PROVE  /\ run.step = "match" /\ run # Idle
           /\ today' = today /\ released' = released /\ cached' = cached /\ past' = past
           /\ \A n : Stored(n)' <=> Stored(n)
           /\ \A hash : HashIn(db'.store, hash) <=> HashIn(db.store, hash)
           /\ db'.registry = db.registry /\ db'.procurers = db.procurers /\ db'.suppliers = db.suppliers
           /\ db'.lastRun = db.lastRun /\ db'.vestnikMark = db.vestnikMark /\ db'.itmsMin = db.itmsMin
           /\ run' # Idle => /\ Holds /\ run'.step = "match" /\ run'.todo = run.todo
                             /\ run.todo = <<>> /\ run'.late = run.late
<1>1. RunOK(Bulletins, run) /\ run.step = "match"
  BY InProgress DEF MatchPass, RunSteps
<1>2. run # Idle
  BY <1>1 DEF Idle
<1>3. PICK groups : db' = [db EXCEPT !.store = persist_match_groups(@, groups)]
  BY DEF MatchPass
<1>4. /\ UNCHANGED <<today, released, cached, past>>
      /\ run' = [run EXCEPT !.pass = @ + 1] \/ run' = Idle
  BY DEF MatchPass
<1>5. PICK store : store = persist_match_groups(db.store, groups)
  OBVIOUS
<1>6. db' = [db EXCEPT !.store = store] /\ DOMAIN db = DbFields
  BY <1>3, <1>5 DEF Inv, DbOK
<1>7. /\ db'.store = store /\ db'.registry = db.registry
      /\ db'.procurers = db.procurers /\ db'.suppliers = db.suppliers
      /\ db'.lastRun = db.lastRun /\ db'.vestnikMark = db.vestnikMark /\ db'.itmsMin = db.itmsMin
  BY <1>6 DEF DbFields
<1>8. \A hash : HashIn(store, hash) <=> HashIn(db.store, hash)
  <2>1. IsStore(db.store)
    BY DEF Inv, DbOK
  <2> QED BY <1>5, <2>1, GroupsKeepHashes
<1>9. \A n : Stored(n)' <=> Stored(n)
  BY <1>7, <1>8 DEF Stored
<1>10. ASSUME run' # Idle
       PROVE  /\ Holds /\ run'.step = "match" /\ run'.todo = run.todo
              /\ run.todo = <<>> /\ run'.late = run.late
  <2>1. run' = [run EXCEPT !.pass = @ + 1]
    BY <1>4, <1>10
  <2>2. /\ run'.step = run.step /\ run'.todo = run.todo /\ run'.queue = run.queue /\ run'.buffer = run.buffer
        /\ run'.stage = run.stage /\ run'.opened = run.opened /\ run'.mark = run.mark
        /\ run'.seen = run.seen /\ run'.from = run.from /\ run'.since = run.since /\ run'.late = run.late
    BY <1>1, <2>1 DEF RunOK, RunFields
  <2>3. run.todo = <<>>
    BY <1>1 DEF RunOK, Saving
  <2> QED BY <1>1, <1>2, <1>4, <1>7, <1>10, <2>2, <2>3 DEF Holds
<1> QED BY <1>1, <1>2, <1>4, <1>7, <1>8, <1>9, <1>10

LEMMA MatchPassKeepsLoss ==
    ASSUME Inv, Inv', LossInv, MatchPass
    PROVE  LossInv'
<1>1. /\ run.step = "match" /\ run # Idle
      /\ today' = today /\ released' = released /\ cached' = cached /\ past' = past
      /\ \A n : Stored(n)' <=> Stored(n)
      /\ \A hash : HashIn(db'.store, hash) <=> HashIn(db.store, hash)
      /\ db'.registry = db.registry /\ db'.procurers = db.procurers /\ db'.suppliers = db.suppliers
      /\ db'.lastRun = db.lastRun /\ db'.vestnikMark = db.vestnikMark /\ db'.itmsMin = db.itmsMin
      /\ run' # Idle => /\ Holds /\ run'.step = "match" /\ run'.todo = run.todo
                        /\ run.todo = <<>> /\ run'.late = run.late
  BY MatchPassStep
<1>2. Handling /\ Progress /\ World
  BY <1>1 DEF LossInv
<1>3. Grows
  <2>1. today \in Int /\ db.lastRun \in Int
    BY PipelineAssumption DEF Inv, WorldOK, DbOK
  <2> QED BY <1>1, <2>1 DEF Grows
<1>4. SafeOnes(run.late)
  <2> SUFFICES ASSUME NEW r \in released, Safe(r) PROVE Safe(r)'
    BY DEF SafeOnes
  <2>1. /\ Stored(Notice(r)) => Stored(Notice(r))'
        /\ Named(Notice(r)) => Named(Notice(r))'
        /\ unchanged(db.registry, Notice(r)) => unchanged(db'.registry, Notice(r))
    BY <1>1 DEF Named, Notice, Stored
  <2>2. r \in Releases
    BY DEF Inv, WorldOK
  <2> QED BY <1>3, <2>1, <2>2, SafeStays
<1>5. MarksFollowData'
  BY <1>1, <1>3, <1>4, MarksStay
<1>6. Calendar' /\ CachedOK' /\ PastOK'
  BY <1>1, <1>2 DEF World, Calendar, CachedOK, PastOK
<1>7. RegistryOK'
  <2>1. ToRegister = {}
    BY <1>1 DEF ToRegister
  <2> QED BY <1>1, <1>2, <2>1 DEF World, RegistryOK
<1>8. ASSUME run' # Idle PROVE Handling' /\ Progress'
  <2>1. /\ Holds /\ run'.step = "match" /\ run'.todo = <<>> /\ run'.late = run.late
        /\ run.queue = <<>> /\ run.buffer = <<>> /\ run'.buffer = <<>>
    BY <1>1, <1>2, <1>8 DEF Handling, Places, Holds
  <2>2. ToSet(<<>>) = {}
    BY DEF ToSet
  <2>3. Handling'
    BY <1>1, <1>2, <1>3, <2>1, <2>2, HoldsHandling
  <2>4. SourcesDone' /\ SourceInHand'
    <3>1. run'.step \notin Working
      BY <2>1 DEF Working
    <3> QED BY <1>3, <1>4, <2>1, <3>1, HoldsProgress
  <2>5. BufferInHand' /\ ChunkStored'
    BY <2>1, <2>2 DEF BufferInHand, Pending, ChunkStored
  <2> QED BY <2>3, <2>4, <2>5 DEF Progress
<1> QED BY <1>5, <1>6, <1>7, <1>8 DEF LossInv, World

LEMMA FinishStep ==
    ASSUME Inv, LossInv, Finish
    PROVE  /\ run.step = "finish" /\ run # Idle /\ run.queue = <<>> /\ run.buffer = <<>> /\ run.stage = 4
           /\ today' = today /\ released' = released /\ cached' = cached
           /\ StoresStay /\ Grows /\ PastOK'
           /\ db'.lastRun = today /\ db'.vestnikMark = db.vestnikMark /\ db'.itmsMin = db.itmsMin
           /\ past'.late = past.late \cup run.late /\ past'.behind = past.behind
           /\ run' # Idle =>
                 /\ run'.step = "match" /\ run'.todo = <<>> /\ run'.queue = <<>> /\ run'.buffer = <<>>
                 /\ run'.stage = 4 /\ run'.opened = run.opened /\ run'.mark = run.mark
                 /\ run'.seen = run.seen /\ run'.from = run.from /\ run'.since = run.since
                 /\ run'.late = run.late
<1>1. RunOK(Bulletins, run) /\ run.step = "finish"
  BY InProgress DEF Finish, RunSteps
<1>2. run # Idle
  BY <1>1 DEF Idle
<1>3. World /\ Places
  BY <1>2 DEF LossInv, Handling
<1>4. /\ UNCHANGED <<today, released, cached>>
      /\ db' = [db EXCEPT !.lastRun = today]
      /\ past' = [past EXCEPT !.late = @ \cup run.late]
      /\ run' = [run EXCEPT !.step = "match"] \/ run' = Idle
  BY DEF Finish
<1>5. StoresStay /\ db'.lastRun = today /\ db'.vestnikMark = db.vestnikMark /\ db'.itmsMin = db.itmsMin
  BY <1>4 DEF Inv, DbOK, DbFields, StoresStay
<1>6. /\ PastOK' /\ past'.late = past.late \cup run.late /\ past'.behind = past.behind
      /\ past'.harmed = past.harmed /\ past'.merged = past.merged
  BY <1>3, <1>4 DEF World, PastOK
<1>7. Grows
  <2>1. today \in Int /\ db.lastRun \in Int /\ db.lastRun <= today
    BY <1>3, PipelineAssumption DEF Inv, WorldOK, DbOK, World, Calendar
  <2>2. past.late \subseteq past'.late
    BY <1>6
  <2> QED BY <1>4, <1>5, <1>6, <2>1, <2>2 DEF Grows
<1>8. run.queue = <<>> /\ run.buffer = <<>> /\ run.stage = 4 /\ run.todo = <<>>
  BY <1>1, <1>3 DEF Places, RunOK, Saving
<1>9. ASSUME run' # Idle
      PROVE  /\ run'.step = "match" /\ run'.todo = run.todo /\ run'.queue = run.queue /\ run'.buffer = run.buffer
             /\ run'.stage = run.stage /\ run'.opened = run.opened /\ run'.mark = run.mark
             /\ run'.seen = run.seen /\ run'.from = run.from /\ run'.since = run.since
             /\ run'.late = run.late
  <2>1. run' = [run EXCEPT !.step = "match"]
    BY <1>4, <1>9
  <2> QED BY <1>1, <2>1 DEF RunOK, RunFields
<1> QED BY <1>1, <1>2, <1>4, <1>5, <1>6, <1>7, <1>8, <1>9

LEMMA FinishKeepsLoss ==
    ASSUME Inv, Inv', LossInv, Finish
    PROVE  LossInv'
<1>1. /\ run.step = "finish" /\ run # Idle /\ run.queue = <<>> /\ run.buffer = <<>> /\ run.stage = 4
      /\ today' = today /\ released' = released /\ cached' = cached
      /\ StoresStay /\ Grows /\ PastOK'
      /\ db'.lastRun = today /\ db'.vestnikMark = db.vestnikMark /\ db'.itmsMin = db.itmsMin
      /\ past'.late = past.late \cup run.late /\ past'.behind = past.behind
      /\ run' # Idle =>
            /\ run'.step = "match" /\ run'.todo = <<>> /\ run'.queue = <<>> /\ run'.buffer = <<>>
            /\ run'.stage = 4 /\ run'.opened = run.opened /\ run'.mark = run.mark
            /\ run'.seen = run.seen /\ run'.from = run.from /\ run'.since = run.since
            /\ run'.late = run.late
  BY FinishStep
<1>2. Handling /\ Progress /\ World
  BY <1>1 DEF LossInv
<1>3. Places /\ Bounds /\ LateOK
  BY <1>2 DEF Handling
<1>4. Source = "itms" /\ {"vestnik", "crz", "ted"} \subseteq run.opened
  BY <1>1, <1>3, Opened
<1>5. \A S : SafeOnes(S)
  BY <1>1, SafeOnesWhileStoresStay
<1>6. today \in Int /\ db.lastRun \in Int /\ db.vestnikMark \in Int /\ db.lastRun <= today /\ db.vestnikMark <= today
  BY <1>2, PipelineAssumption DEF Inv, WorldOK, DbOK, World, Calendar
<1>7. \A r \in released : Counts(r)' => Counts(r)
  BY <1>1, CountsBefore DEF Grows
<1>8. MarksFollowData'
  <2> SUFFICES ASSUME NEW r \in released, Counts(r)', Passed(r)' PROVE Safe(r)'
    BY <1>1 DEF MarksFollowData
  <2>a. PICK modified : modified = Modified(r.url)'
    OBVIOUS
  <2>1. /\ Counts(r) /\ r \in Releases /\ r.day \in Int /\ r.day <= today
        /\ r.source \in {"vestnik", "crz", "ted", "itms"}
    BY <1>2, <1>7, ReleaseFacts DEF Inv, WorldOK, World, Calendar
  <2>2. Beyond(db', modified, r)
    BY <2>a DEF Passed
  <2>3. CASE r.source = "itms"
    <3>1. Passed(r)
      BY <1>1, <2>2, <2>3, BeyondBySource DEF Passed
    <3>2. Safe(r)
      BY <1>2, <2>1, <3>1 DEF World, MarksFollowData
    <3>3. SafeOnes({})
      BY <1>5
    <3> QED BY <2>1, <3>2, <3>3 DEF SafeOnes
  <2>4. CASE r.source # "itms" /\ r \notin run.late
    <3>1. Safe(r)
      BY <1>2, <1>4, <2>1, <2>4 DEF Progress, SourcesDone
    <3>2. SafeOnes({})
      BY <1>5
    <3> QED BY <2>1, <3>1, <3>2 DEF SafeOnes
  <2>5. CASE r.source # "itms" /\ r \in run.late
    <3>1. r \in past'.late
      BY <1>1, <2>5
    <3>2. CASE r.day < today
      BY <1>1, <3>1, <3>2 DEF Safe, Excused, Missed
    <3>3. CASE r.day = today
      <4>1. r.day <= modified /\ modified \in Int
        <5>1. modified = Modified(r.url)
          BY <1>1, <2>a DEF Modified
        <5> QED BY <5>1, ModifiedIsLatest DEF Inv, WorldOK
      <4>2. CASE r.source = "vestnik"
        BY <1>1, <1>6, <2>2, <3>3, <4>1, <4>2, BeyondBySource
      <4>3. CASE r.source \in {"crz", "ted"}
        BY <1>1, <1>6, <2>2, <3>3, <4>3, BeyondBySource
      <4> QED BY <2>1, <2>5, <4>2, <4>3
    <3> QED BY <1>6, <2>1, <3>2, <3>3
  <2> QED BY <2>3, <2>4, <2>5
<1>9. Calendar' /\ CachedOK'
  BY <1>1, <1>2, <1>6 DEF World, Calendar, CachedOK
<1>10. RegistryOK'
  <2>1. ToRegister = {} /\ ToRegister' = {}
    BY <1>1 DEF ToRegister
  <2> QED BY <1>1, <1>2, <2>1 DEF World, RegistryOK, StoresStay
<1>11. ASSUME run' # Idle PROVE Handling' /\ Progress'
  <2>1. /\ run'.step = "match" /\ run'.todo = <<>> /\ run'.queue = <<>> /\ run'.buffer = <<>>
        /\ run'.stage = 4 /\ run'.opened = run.opened /\ run'.mark = run.mark
        /\ run'.seen = run.seen /\ run'.from = run.from /\ run'.since = run.since
        /\ run'.late = run.late
    BY <1>1, <1>11
  <2>2. ToSet(<<>>) = {} /\ DOMAIN <<>> = {}
    BY DEF ToSet
  <2>3. Source' = "itms"
    BY <2>1 DEF Source, Stages
  <2>4. Bounds'
    <3>1. run.from \in Int
      BY <1>3 DEF Bounds
    <3>2. run.from = 1 \/ run.from <= db'.lastRun \/ run.from <= today - RECENT_DAYS
      BY <1>1, <1>3, <1>6, <3>1 DEF Bounds
    <3> QED BY <1>1, <1>3, <2>1, <3>2 DEF Bounds
  <2>5. Places'
    <3>1. run.opened = {Stages[k] : k \in 1..4}
      BY <1>1, <1>3 DEF Places
    <3> QED BY <2>1, <2>2, <2>3, <3>1 DEF Places
  <2>6. QueueFresh' /\ BufferFresh'
    BY <2>1, <2>2, <2>3 DEF QueueFresh, BufferFresh
  <2>7. LateOK'
    <3> SUFFICES ASSUME NEW r \in run.late
                 PROVE  /\ r \in released /\ r.source \in run.opened
                        /\ r \in past'.late
                        /\ r.day >= db.vestnikMark /\ r.day >= run.mark
                        /\ r.source = "itms" /\ r \in Latest' => Missed(r)' \/ r.raw.id > run.seen
      BY <1>1, <2>1, <2>2, <2>3 DEF LateOK
    <3>1. r \in released /\ r \in Releases
      BY <1>3 DEF LateOK, Inv, WorldOK
    <3>2. (r \in Latest' => r \in Latest) /\ (Missed(r) => Missed(r)')
      BY <1>1, <3>1, LatestBefore, MissedStays DEF Grows
    <3>3. r \in past'.late
      BY <1>1
    <3> QED BY <1>3, <3>1, <3>2, <3>3 DEF LateOK
  <2>8. SourcesDone'
    <3> SUFFICES ASSUME NEW r \in released, Counts(r)', r.source \in run.opened \ {"itms"}
                 PROVE  Safe(r)' \/ r \in run.late
      BY <1>1, <2>1, <2>3 DEF SourcesDone
    <3>1. Counts(r)
      BY <1>7
    <3>2. Safe(r) \/ r \in run.late
      BY <1>2, <1>4, <3>1 DEF Progress, SourcesDone
    <3>3. SafeOnes({})
      BY <1>5
    <3> QED BY <3>1, <3>2, <3>3 DEF SafeOnes
  <2>9. SourceInHand' /\ BufferInHand' /\ ChunkStored'
    BY <2>1, <2>2 DEF SourceInHand, Working, BufferInHand, Pending, ChunkStored
  <2> QED BY <2>4, <2>5, <2>6, <2>7, <2>8, <2>9 DEF Handling, Progress
<1> QED BY <1>1, <1>8, <1>9, <1>10, <1>11 DEF LossInv, World

-----------------------------------------------------------------------------
(* A checkpoint is saved *)

LEMMA SaveCheckpointStep ==
    ASSUME Inv, LossInv, SaveCheckpoint
    PROVE  /\ run.step = "checkpoint" /\ run # Idle /\ run' # Idle /\ run.stage \in 1..4
           /\ today' = today /\ released' = released /\ cached' = cached /\ past' = past
           /\ StoresStay /\ Grows /\ db'.lastRun = db.lastRun
           /\ db'.vestnikMark = (IF Source = "vestnik" /\ run.mark # 0 THEN run.mark ELSE db.vestnikMark)
           /\ db'.itmsMin = (IF Source = "itms" /\ run.buffer # <<>> THEN run.seen + 1 ELSE db.itmsMin)
           /\ run'.step = (IF run.queue # <<>> THEN "fetch" ELSE IF run.stage < 4 THEN "open" ELSE "finish")
           /\ run'.stage = (IF run.queue = <<>> /\ run.stage < 4 THEN run.stage + 1 ELSE run.stage)
           /\ run'.todo = <<>> /\ run'.queue = run.queue /\ run'.buffer = <<>>
           /\ run'.opened = run.opened /\ run'.mark = run.mark
           /\ run'.seen = run.seen /\ run'.from = run.from /\ run'.since = run.since
           /\ run'.late = run.late
<1>1. RunOK(Bulletins, run) /\ run.step = "checkpoint"
  BY InProgress DEF SaveCheckpoint, RunSteps
<1>2. run # Idle /\ run.stage \in 1..4
  BY <1>1 DEF Idle, RunOK
<1>a. PICK source : source = Source
  OBVIOUS
<1>3. /\ UNCHANGED <<today, released, cached, past>>
      /\ db' = CASE source = "vestnik" /\ run.mark # 0 -> [db EXCEPT !.vestnikMark = run.mark]
                 [] source = "itms" /\ run.buffer # <<>> -> [db EXCEPT !.itmsMin = run.seen + 1]
                 [] OTHER -> db
      /\ run' = MoveOn
  BY <1>a DEF SaveCheckpoint
<1>4. DOMAIN db = DbFields
  BY DEF Inv, DbOK
<1>5. /\ StoresStay /\ db'.lastRun = db.lastRun
      /\ db'.vestnikMark = (IF source = "vestnik" /\ run.mark # 0 THEN run.mark ELSE db.vestnikMark)
      /\ db'.itmsMin = (IF source = "itms" /\ run.buffer # <<>> THEN run.seen + 1 ELSE db.itmsMin)
  <2>1. CASE source = "vestnik" /\ run.mark # 0
    <3>1. db' = [db EXCEPT !.vestnikMark = run.mark]
      BY <1>3, <2>1
    <3> QED BY <1>4, <2>1, <3>1 DEF DbFields, StoresStay
  <2>2. CASE source = "itms" /\ run.buffer # <<>>
    <3>1. db' = [db EXCEPT !.itmsMin = run.seen + 1]
      BY <1>3, <2>2
    <3> QED BY <1>4, <2>2, <3>1 DEF DbFields, StoresStay
  <2>3. CASE ~(source = "vestnik" /\ run.mark # 0) /\ ~(source = "itms" /\ run.buffer # <<>>)
    <3>1. db' = db
      BY <1>3, <2>3
    <3> QED BY <2>3, <3>1 DEF StoresStay
  <2> QED BY <2>1, <2>2, <2>3
<1>6. Grows
  <2>1. today \in Int /\ db.lastRun \in Int
    BY PipelineAssumption DEF Inv, WorldOK, DbOK
  <2> QED BY <1>3, <1>5, <2>1 DEF Grows
<1>7. /\ run'.step = (IF run.queue # <<>> THEN "fetch" ELSE IF run.stage < 4 THEN "open" ELSE "finish")
      /\ run'.stage = (IF run.queue = <<>> /\ run.stage < 4 THEN run.stage + 1 ELSE run.stage)
      /\ run'.todo = run.todo /\ run'.queue = run.queue /\ run'.buffer = <<>>
      /\ run'.opened = run.opened /\ run'.mark = run.mark
      /\ run'.seen = run.seen /\ run'.from = run.from /\ run'.since = run.since
      /\ run'.late = run.late
  <2>1. Len(Stages) = 4
    BY DEF Stages
  <2> QED BY <1>1, <1>3, <2>1 DEF MoveOn, RunOK, RunFields
<1>8. run.todo = <<>>
  BY <1>1 DEF RunOK, Saving
<1>9. run' # Idle
  BY <1>7 DEF Idle
<1> QED BY <1>1, <1>2, <1>3, <1>5, <1>6, <1>7, <1>8, <1>9, <1>a

LEMMA SaveCheckpointKeepsLoss ==
    ASSUME Inv, Inv', LossInv, SaveCheckpoint
    PROVE  LossInv'
<1>1. /\ run.step = "checkpoint" /\ run # Idle /\ run' # Idle /\ run.stage \in 1..4
      /\ today' = today /\ released' = released /\ cached' = cached /\ past' = past
      /\ StoresStay /\ Grows /\ db'.lastRun = db.lastRun
      /\ db'.vestnikMark = (IF Source = "vestnik" /\ run.mark # 0 THEN run.mark ELSE db.vestnikMark)
      /\ db'.itmsMin = (IF Source = "itms" /\ run.buffer # <<>> THEN run.seen + 1 ELSE db.itmsMin)
      /\ run'.step = (IF run.queue # <<>> THEN "fetch" ELSE IF run.stage < 4 THEN "open" ELSE "finish")
      /\ run'.stage = (IF run.queue = <<>> /\ run.stage < 4 THEN run.stage + 1 ELSE run.stage)
      /\ run'.todo = <<>> /\ run'.queue = run.queue /\ run'.buffer = <<>>
      /\ run'.opened = run.opened /\ run'.mark = run.mark
      /\ run'.seen = run.seen /\ run'.from = run.from /\ run'.since = run.since
      /\ run'.late = run.late
  BY SaveCheckpointStep
<1>2. Handling /\ Progress /\ World
  BY <1>1 DEF LossInv
<1>3. Places /\ Bounds /\ LateOK
  BY <1>2 DEF Handling
<1>a. PICK source : source = Source
  OBVIOUS
<1>4. /\ source \in {"vestnik", "crz", "ted", "itms"} /\ source = Stages[run.stage] /\ source \in run.opened
      /\ (run.stage = 4 <=> source = "itms")
      /\ source = "vestnik" => run.queue = <<>>
      /\ run.opened = {Stages[k] : k \in 1..run.stage}
  <2>1. source = "vestnik" => run.queue = <<>>
    BY <1>1, <1>3, <1>a DEF Places
  <2>2. run.opened = {Stages[k] : k \in 1..run.stage}
    BY <1>1, <1>3 DEF Places
  <2> QED BY <1>1, <1>3, <1>a, <2>1, <2>2, Opened
<1>5. \A S : SafeOnes(S)
  BY <1>1, SafeOnesWhileStoresStay
<1>6. /\ today \in Int /\ db.vestnikMark \in Int /\ run.mark \in Int /\ run.seen \in Int /\ run.seen >= -1
      /\ db.itmsMin \in Nat /\ released \subseteq Releases
  BY <1>1, PipelineAssumption DEF Inv, WorldOK, DbOK, RunOK
<1>7. \A r \in released : Counts(r)' => Counts(r)
  BY <1>1, CountsBefore DEF Grows
<1>8. ToSet(<<>>) = {} /\ DOMAIN <<>> = {}
  BY DEF ToSet
\* The buffer is written: what is left of the source is late or waits.
<1>9. ASSUME NEW r \in released, Counts(r), r.source = source
      PROVE  Safe(r) \/ r \in run.late \/ Waits(source, run.queue, run.seen, r)
  <2>1. Safe(r) \/ r \in run.late \/ Notice(r) \in ToSet(run.buffer) \/ Waits(source, run.queue, run.seen, r)
    <3>1. run.step \in Working
      BY <1>1 DEF Working
    <3> QED BY <1>2, <1>9, <1>a, <3>1 DEF Progress, SourceInHand, InLine
  <2>2. ASSUME Notice(r) \in ToSet(run.buffer), r \notin run.late, ~Missed(r) PROVE Safe(r)
    BY <1>1, <1>2, <1>9, <1>a, <2>2 DEF Progress, BufferInHand, Pending
  <2>3. Missed(r) => Safe(r)
    BY DEF Safe, Excused
  <2> QED BY <2>1, <2>2, <2>3
<1>10. Calendar'
  <2>1. db'.vestnikMark <= today
    BY <1>1, <1>2, <1>3 DEF World, Calendar, Bounds
  <2>2. db'.itmsMin = 0 \/ \E q \in released : q.source = "itms" /\ db'.itmsMin <= q.raw.id + 1
    <3>1. CASE source = "itms" /\ run.buffer # <<>>
      <4>1. db'.itmsMin = run.seen + 1
        BY <1>1, <1>a, <3>1
      <4>2. CASE run.seen = -1
        BY <4>1, <4>2
      <4>3. CASE \E q \in released : q.source = "itms" /\ run.seen <= q.raw.id
        <5>1. PICK q \in released : q.source = "itms" /\ run.seen <= q.raw.id
          BY <4>3
        <5>2. q.raw.id \in Int
          BY <1>6, <5>1, ReleaseFacts
        <5> QED BY <1>6, <4>1, <5>1, <5>2
      <4> QED BY <1>3, <4>2, <4>3 DEF Bounds
    <3>2. CASE ~(source = "itms" /\ run.buffer # <<>>)
      BY <1>1, <1>2, <1>a, <3>2 DEF World, Calendar
    <3> QED BY <3>1, <3>2
  <2> QED BY <1>1, <1>2, <2>1, <2>2 DEF World, Calendar
<1>11. MarksFollowData'
  <2> SUFFICES ASSUME NEW r \in released, Counts(r)', Passed(r)' PROVE Safe(r)
    <3>1. SafeOnes({})
      BY <1>5
    <3>2. \A r \in released : Counts(r)' => Counts(r)
      BY <1>7
    <3> QED BY <1>1, <3>1, <3>2 DEF MarksFollowData, SafeOnes
  <2>a. PICK modified : modified = Modified(r.url)'
    OBVIOUS
  <2>1. /\ Counts(r) /\ r \in Releases /\ r.day \in Int
        /\ r.source \in {"vestnik", "crz", "ted", "itms"}
    BY <1>6, <1>7, ReleaseFacts
  <2>2. modified = Modified(r.url) /\ r.day <= modified /\ modified \in Int
    <3>1. modified = Modified(r.url)
      BY <1>1, <2>a DEF Modified
    <3> QED BY <1>6, <3>1, ModifiedIsLatest
  <2>3. Beyond(db', modified, r)
    BY <2>a DEF Passed
  <2>4. Passed(r) => Safe(r)
    BY <1>2, <2>1 DEF World, MarksFollowData
  <2>5. CASE r.source = "vestnik" /\ source = "vestnik" /\ run.mark # 0
    <3>1. modified < run.mark
      BY <1>1, <1>a, <2>3, <2>5, BeyondBySource
    <3>2. r \notin run.late
      <4>1. r \in run.late => r.day >= run.mark
        BY <1>3 DEF LateOK
      <4> QED BY <1>6, <2>1, <2>2, <3>1, <4>1
    <3>3. ~Waits(source, run.queue, run.seen, r)
      BY <1>4, <1>8, <2>5, WaitsBySource
    <3> QED BY <1>9, <2>1, <2>5, <3>2, <3>3
  <2>6. CASE r.source = "itms" /\ source = "itms" /\ run.buffer # <<>>
    <3>1. r.raw.id < run.seen + 1 /\ r.raw.id \in Int
      BY <1>1, <1>a, <2>1, <2>3, <2>6, BeyondBySource, ReleaseFacts
    <3>2. r \in run.late => Missed(r)
      BY <1>3, <1>6, <2>1, <2>6, <3>1 DEF LateOK, Counts
    <3>3. ~Waits(source, run.queue, run.seen, r)
      BY <1>6, <2>6, <3>1, WaitsBySource
    <3> QED BY <1>9, <2>1, <2>6, <3>2, <3>3 DEF Safe, Excused
  <2>7. CASE /\ ~(r.source = "vestnik" /\ source = "vestnik" /\ run.mark # 0)
             /\ ~(r.source = "itms" /\ source = "itms" /\ run.buffer # <<>>)
    <3>1. CASE r.source = "vestnik"
      <4>1. db'.vestnikMark = db.vestnikMark
        BY <1>1, <1>a, <2>7, <3>1
      <4> QED BY <1>1, <2>2, <2>3, <2>4, <3>1, <4>1, BeyondBySource DEF Passed
    <3>2. CASE r.source = "itms"
      <4>1. db'.itmsMin = db.itmsMin
        BY <1>1, <1>a, <2>7, <3>2
      <4> QED BY <2>3, <2>4, <3>2, <4>1, BeyondBySource DEF Passed
    <3>3. CASE r.source \in {"crz", "ted"}
      BY <1>1, <2>3, <2>4, <3>3, BeyondBySource DEF Passed
    <3> QED BY <2>1, <3>1, <3>2, <3>3
  <2> QED BY <2>5, <2>6, <2>7
<1>12. CachedOK' /\ PastOK'
  BY <1>1, <1>2 DEF World, CachedOK, PastOK
<1>13. RegistryOK'
  <2>1. run'.step # "registry"
    BY <1>1
  <2>2. ToRegister = {} /\ ToRegister' = {}
    BY <1>1, <2>1 DEF ToRegister
  <2> QED BY <1>1, <1>2, <2>2 DEF World, RegistryOK, StoresStay
<1>14. /\ run.queue # <<>> \/ run.stage = 4 => Source' = source
       /\ ~(run.queue # <<>> \/ run.stage = 4) =>
             run'.step = "open" /\ run'.stage = run.stage + 1 /\ run.queue = <<>> /\ run.stage < 4
  <2>1. run.queue # <<>> \/ run.stage = 4 => run'.stage = run.stage
    BY <1>1
  <2> QED BY <1>1, <1>4, <2>1 DEF Source
<1>15. Bounds'
  <2>1. run'.step = "open" => run'.stage = run.stage + 1 /\ run.stage < 4
    BY <1>1
  <2>2. run'.step = "open" /\ run'.stage = 1 => FALSE
    BY <1>1, <2>1
  <2>3. run'.stage < 4 \/ run'.step = "open" => run.stage < 4
    BY <1>1
  <2>4. run.stage < 4 => run.seen = db'.itmsMin - 1
    BY <1>1, <1>3, <1>4, <1>a DEF Bounds
  <2>5. db'.itmsMin <= run.seen + 1
    BY <1>1, <1>3, <1>6 DEF Bounds
  <2> QED BY <1>1, <1>3, <2>2, <2>3, <2>4, <2>5 DEF Bounds
<1>16. Places'
  <2>1. run'.opened = {Stages[k] : k \in 1..(IF run'.step = "open" THEN run'.stage - 1 ELSE run'.stage)}
    <3>1. run.stage = (IF run'.step = "open" THEN run'.stage - 1 ELSE run'.stage)
      BY <1>1
    <3> QED BY <1>1, <1>4, <3>1
  <2>2. run'.step # "fetch" => run'.queue = <<>>
    BY <1>1
  <2>3. run'.step \in {"open", "finish", "match"} => run'.step # "fetch"
    OBVIOUS
  <2>4. run'.step \in {"finish", "match"} => run'.stage = 4
    BY <1>1
  <2> QED BY <1>1, <1>8, <2>1, <2>2, <2>3, <2>4 DEF Places
<1>17. QueueFresh'
  <2>1. CASE run.queue = <<>>
    BY <1>1, <1>8, <2>1 DEF QueueFresh
  <2>2. CASE run.queue # <<>>
    <3>1. Source' = source /\ source # "vestnik" /\ QueueFresh
      BY <1>2, <1>4, <1>14, <2>2 DEF Handling
    <3>2. ASSUME NEW raw \in ToSet(run.queue)
          PROVE  Suits(Transform(source, raw))' /\ \E q \in released : q.source = source /\ q.raw = raw
      <4>1. PICK n : n = Transform(source, raw)
        OBVIOUS
      <4>2. Suits(n) /\ \E q \in released : q.source = source /\ q.raw = raw
        BY <1>a, <3>1, <3>2, <4>1 DEF QueueFresh
      <4>3. Suits(n)'
        <5>1. run.late \subseteq run'.late /\ \A r \in released' \ released : r.source = n.source => r \in run'.late
          BY <1>1
        <5> QED BY <1>1, <4>2, <5>1, SuitsStay
      <4> QED BY <4>1, <4>2, <4>3
    <3>3. source = "itms" => /\ \A j, k \in DOMAIN run.queue : j < k => run.queue[j].id <= run.queue[k].id
                             /\ \A a, b \in ToSet(run.queue) : a.id = b.id => a = b
      BY <1>a, <3>1 DEF QueueFresh
    <3> HIDE DEF Suits
    <3> QED BY <1>1, <3>1, <3>2, <3>3 DEF QueueFresh
  <2> QED BY <2>1, <2>2
<1>18. BufferFresh'
  BY <1>1, <1>8 DEF BufferFresh
<1>19. LateOK'
  <2> SUFFICES ASSUME NEW r \in run.late
               PROVE  /\ r \in released /\ r.source \in run.opened
                      /\ r.day >= db.lastRun \/ r \in past.late
                      /\ r.day >= db'.vestnikMark /\ r.day >= run.mark
                      /\ Source' = "vestnik" => \A b \in ToSet(run.queue) : b.modified <= r.day
                      /\ r.source = "itms" /\ r \in Latest' =>
                            \/ Missed(r)'
                            \/ r.raw.id > run.seen /\ \A raw \in ToSet(run.queue) : raw.id < r.raw.id
    BY <1>1 DEF LateOK
  <2>1. r \in released /\ r \in Releases
    BY <1>3, <1>6 DEF LateOK
  <2>2. (r \in Latest' => r \in Latest) /\ (Missed(r) => Missed(r)')
    BY <1>1, <2>1, LatestBefore, MissedStays DEF Grows
  <2>3. r.day >= db'.vestnikMark /\ r.day >= run.mark
    BY <1>1, <1>3 DEF LateOK
  <2>4. Source' = "vestnik" => \A b \in ToSet(run.queue) : b.modified <= r.day
    <3>1. run.queue # <<>> => Source' = source /\ source # "vestnik"
      BY <1>4, <1>14
    <3>2. run.queue = <<>> => ToSet(run.queue) = {}
      BY <1>8
    <3> QED BY <3>1, <3>2
  <2> QED BY <1>3, <2>1, <2>2, <2>3, <2>4 DEF LateOK
<1>20. SourcesDone'
  <2> SUFFICES ASSUME NEW r \in released, Counts(r)', r.source \in run.opened \ {Source'}
               PROVE  Safe(r) \/ r \in run.late
    <3>1. SafeOnes(run.late)
      BY <1>5
    <3> QED BY <1>1, <1>7, <3>1 DEF SourcesDone, SafeOnes
  <2>1. Counts(r)
    BY <1>7
  <2>2. CASE r.source # source
    BY <1>2, <1>a, <2>1, <2>2 DEF Progress, SourcesDone
  <2>3. CASE r.source = source
    <3>1. run.queue = <<>> /\ run.stage < 4
      BY <1>14, <2>3
    <3>2. source \in {"vestnik", "crz", "ted"} /\ ToSet(run.queue) = {}
      BY <1>1, <1>4, <1>8, <3>1
    <3>3. ~Waits(source, run.queue, run.seen, r)
      BY <3>2, WaitsBySource
    <3> QED BY <1>9, <2>1, <2>3, <3>3
  <2> QED BY <2>2, <2>3
<1>21. SourceInHand'
  <2> SUFFICES ASSUME run'.step \in Working, NEW r \in released, Counts(r)', r.source = Source'
               PROVE  Safe(r)' \/ r \in run.late \/ InLine(r)'
    BY <1>1 DEF SourceInHand
  <2>1. run.queue # <<>>
    BY <1>1 DEF Working
  <2>2. Source' = source
    BY <1>14, <2>1
  <2>3. Counts(r)
    BY <1>7
  <2>4. Safe(r) \/ r \in run.late \/ Waits(source, run.queue, run.seen, r)
    BY <1>9, <2>2, <2>3
  <2>5. Waits(source, run.queue, run.seen, r) => InLine(r)'
    BY <1>1, <2>2 DEF InLine
  <2>6. SafeOnes({})
    BY <1>5
  <2> QED BY <2>3, <2>4, <2>5, <2>6 DEF SafeOnes
<1>22. BufferInHand' /\ ChunkStored'
  <2>1. run'.step # "registry"
    BY <1>1
  <2> QED BY <1>1, <1>8, <2>1 DEF BufferInHand, Pending, ChunkStored
<1> QED BY <1>10, <1>11, <1>12, <1>13, <1>15, <1>16, <1>17, <1>18, <1>19, <1>20, <1>21, <1>22
        DEF LossInv, World, Handling, Progress

-----------------------------------------------------------------------------
(* Nothing is lost unexplained *)

LEMMA LossInit == Init /\ Inv => LossInv
<1> SUFFICES ASSUME Init, Inv PROVE LossInv
  OBVIOUS
<1>1. /\ today = StartDay /\ released = {r \in Releases : r.day < StartDay}
      /\ cached = [url \in {} |-> <<>>] /\ run = Idle
      /\ db.registry = {} /\ db.lastRun = 0 /\ db.vestnikMark = 0 /\ db.itmsMin = 0
      /\ DOMAIN past = {"runs", "faults", "late", "harmed", "merged", "behind"}
  BY DEF Init
<1>2. StartDay \in Nat
  BY PipelineAssumption
<1>3. \A r \in Releases : r.day \in Int
  BY ReleaseFacts
<1>4. Calendar
  <2>1. \A q \in released, r \in Releases \ released : q.day # r.day
    BY <1>1, <1>2, <1>3
  <2>2. \A r \in released : r.day <= today
    BY <1>1, <1>2, <1>3
  <2>3. \A r \in Releases : r.day < today => r \in released
    BY <1>1
  <2> QED BY <1>1, <1>2, <2>1, <2>2, <2>3 DEF Calendar
<1>5. CachedOK
  BY <1>1 DEF CachedOK
<1>6. RegistryOK
  BY <1>1 DEF RegistryOK
<1>7. MarksFollowData
  <2> SUFFICES ASSUME NEW r \in released, Passed(r) PROVE FALSE
    BY DEF MarksFollowData
  <2>1. r \in Releases /\ r.day \in Int /\ r.day >= 1 /\ r.source \in {"vestnik", "crz", "ted", "itms"}
    BY <1>1, ReleaseFacts
  <2>2. r.day <= Modified(r.url) /\ Modified(r.url) \in Int
    BY <2>1, ModifiedIsLatest DEF Inv, WorldOK
  <2>3. CASE r.source = "vestnik"
    BY <1>1, <2>1, <2>2, <2>3, BeyondBySource DEF Passed
  <2>4. CASE r.source \in {"crz", "ted"}
    BY <1>1, <2>1, <2>4, BeyondBySource DEF Passed
  <2>5. CASE r.source = "itms"
    <3>1. r.raw.id \in Nat
      BY <2>1, <2>5, ReleaseFacts
    <3> QED BY <1>1, <2>5, <3>1, BeyondBySource DEF Passed
  <2> QED BY <2>1, <2>3, <2>4, <2>5
<1> QED BY <1>1, <1>4, <1>5, <1>6, <1>7 DEF LossInv, World, PastOK

LEMMA LossNext == Inv /\ Inv' /\ LossInv /\ [Next]_vars => LossInv'
<1> SUFFICES ASSUME Inv, Inv', LossInv, [Next]_vars PROVE LossInv'
  OBVIOUS
<1>a. Calendar
  BY DEF LossInv, World
<1>1. ASSUME NEW r \in Releases, Release(r) PROVE LossInv'
  <2>1. Arrives({r}) /\ Calendar'
    BY <1>a, <1>1, ReleaseArrives
  <2> QED BY <2>1, ArrivalKeeps
<1>2. ASSUME NextDay PROVE LossInv'
  <2>1. Arrives({r \in Releases : r.day = today + 1}) /\ Calendar'
    BY <1>a, <1>2, NextDayArrives
  <2>2. PICK R : R = {r \in Releases : r.day = today + 1}
    OBVIOUS
  <2>3. Arrives(R)
    BY <2>1, <2>2
  <2> QED BY <2>1, <2>3, ArrivalKeeps
<1>3. ASSUME NEW mode \in {"recent", "historical"}, Start(mode) PROVE LossInv'
  BY <1>3, StartKeepsLoss
<1>4. CASE OpenSource
  BY <1>4, OpenSourceKeepsLoss
<1>5. CASE FetchBulletin
  BY <1>5, FetchBulletinKeepsLoss
<1>6. CASE FetchedBulletins
  BY <1>6, FetchedBulletinsKeepLoss
<1>7. CASE FetchItems
  BY <1>7, FetchItemsKeepsLoss
<1>8. CASE SaveNotices
  BY <1>8, SaveNoticesKeepsLoss
<1>9. CASE SaveRegistry
  BY <1>9, SaveRegistryKeepsLoss
<1>10. CASE SaveEntities
  BY <1>10, SaveEntitiesKeepsLoss
<1>11. CASE MergeGraph
  BY <1>11, MergeGraphKeepsLoss
<1>12. CASE SaveCheckpoint
  BY <1>12, SaveCheckpointKeepsLoss
<1>13. CASE Finish
  BY <1>13, FinishKeepsLoss
<1>14. CASE MatchPass
  BY <1>14, MatchPassKeepsLoss
<1>15. CASE Abort
  BY <1>15, AbortKeepsLoss
<1>16. CASE UNCHANGED vars
  <2>1. /\ today' = today /\ released' = released /\ cached' = cached
        /\ db' = db /\ run' = run /\ past' = past
    BY <1>16 DEF vars
  <2>2. Source' = Source /\ Chunk' = Chunk /\ Rest' = Rest /\ Latest' = Latest /\ ToRegister' = ToRegister
    BY <2>1 DEF Source, Chunk, Rest, Latest, Revised, ToRegister
  <2>3. \A r : /\ Missed(r)' <=> Missed(r)
               /\ Counts(r)' <=> Counts(r)
               /\ Safe(r)' <=> Safe(r)
               /\ Passed(r)' <=> Passed(r)
               /\ InLine(r)' <=> InLine(r)
               /\ Pending(r)' <=> Pending(r)
    BY <2>1, <2>2 DEF Missed, Counts, Safe, Loaded, Excused, Passed, Modified, InLine, Pending, Notice
  <2>4. \A n : (SoFar(n)' <=> SoFar(n)) /\ (Stored(n)' <=> Stored(n)) /\ (Suits(n)' <=> Suits(n))
    BY <2>1, <2>2, <2>3 DEF SoFar, Kept, Named, Stored, Suits, Notice
  <2>5. World'
    BY <2>1, <2>2, <2>3 DEF LossInv, World, Calendar, CachedOK, RegistryOK, MarksFollowData, PastOK
  <2>6. ASSUME run # Idle PROVE Handling' /\ Progress'
    <3>1. Handling /\ Progress
      BY <2>6 DEF LossInv
    <3>2. Bounds' /\ Places'
      BY <2>1, <2>2, <3>1 DEF Handling, Bounds, Places
    <3>3. QueueFresh' /\ BufferFresh' /\ LateOK'
      BY <2>1, <2>2, <2>3, <2>4, <3>1 DEF Handling, QueueFresh, BufferFresh, LateOK
    <3>4. SourcesDone' /\ SourceInHand' /\ BufferInHand' /\ ChunkStored'
      BY <2>1, <2>2, <2>3, <2>4, <3>1
         DEF Progress, SourcesDone, SourceInHand, BufferInHand, ChunkStored, Notice
    <3> QED BY <3>2, <3>3, <3>4 DEF Handling, Progress
  <2> QED BY <2>1, <2>5, <2>6 DEF LossInv
<1> QED BY <1>1, <1>2, <1>3, <1>4, <1>5, <1>6, <1>7, <1>8, <1>9, <1>10, <1>11, <1>12,
           <1>13, <1>14, <1>15, <1>16 DEF Next

\* What the next run is not given is behind the marks, or out of reach.
LEMMA LossInvExplains ==
    ASSUME Inv, LossInv
    PROVE  LossExplained
<1> SUFFICES ASSUME run = Idle
             PROVE  /\ \A r \in Latest : Transforms(r.source, r.raw) /\ ~Offered(r) => Loaded(r) \/ Excused(r)
                    /\ \A e \in db.registry :
                          \/ \E d \in db.store : compute_notice_hash(d) = e.hash
                          \/ e.key \in past.behind
  BY DEF LossExplained
<1>1. MarksFollowData /\ RegistryOK
  BY DEF LossInv, World
<1>2. ASSUME NEW r \in Latest, Transforms(r.source, r.raw), ~Offered(r) PROVE Safe(r)
  <2>1. /\ r \in released /\ r \in Releases /\ Counts(r) /\ r.day \in Int
        /\ r.source \in {"vestnik", "crz", "ted", "itms"}
    BY <1>2, ReleaseFacts DEF Latest, Counts, Inv, WorldOK
  <2>2. Passed(r) => Safe(r)
    BY <1>1, <2>1 DEF MarksFollowData
  <2>3. r.day < today - RECENT_DAYS => Safe(r)
    BY DEF Safe, Excused, Missed
  <2>4. /\ today \in Int /\ RECENT_DAYS \in Int /\ db.lastRun \in Int /\ db.vestnikMark \in Int
        /\ db.itmsMin \in Int
    BY PipelineAssumption DEF Inv, WorldOK, DbOK
  <2>a. PICK from : from = FromDate("recent")
    OBVIOUS
  <2>5. from = db.lastRun \/ from = today - RECENT_DAYS
    BY <2>a DEF FromDate, Larger
  <2>6. CASE r.source = "vestnik"
    <3>a. PICK modified : modified = Modified(r.url)
      OBVIOUS
    <3>1. r.day <= modified /\ modified \in Int
      BY <2>1, <3>a, ModifiedIsLatest DEF Inv, WorldOK
    <3>2. ~(modified >= (IF db.vestnikMark # 0 THEN db.vestnikMark ELSE from))
      BY <1>2, <2>6, <2>a, <3>a DEF Offered
    <3>3. Passed(r) <=> modified < (IF db.vestnikMark # 0 THEN db.vestnikMark ELSE db.lastRun)
      BY <2>6, <3>a, BeyondBySource DEF Passed
    <3> QED BY <2>1, <2>2, <2>3, <2>4, <2>5, <3>1, <3>2, <3>3
  <2>7. CASE r.source \in {"crz", "ted"}
    <3>1. ~(r.day >= from)
      BY <1>2, <2>7, <2>a DEF Offered
    <3>2. Passed(r) <=> r.day < db.lastRun
      BY <2>7, BeyondBySource DEF Passed
    <3> QED BY <2>1, <2>2, <2>3, <2>4, <2>5, <3>1, <3>2
  <2>8. CASE r.source = "itms"
    <3>1. ~(r.raw.id >= db.itmsMin)
      BY <1>2, <2>8 DEF Offered
    <3>2. Passed(r) <=> r.raw.id < db.itmsMin
      BY <2>8, BeyondBySource DEF Passed
    <3>3. r.raw.id \in Int
      BY <2>1, <2>8, ReleaseFacts
    <3> QED BY <2>2, <2>4, <3>1, <3>2, <3>3
  <2> QED BY <2>1, <2>6, <2>7, <2>8
<1>3. ToRegister = {}
  BY DEF ToRegister
<1> QED BY <1>1, <1>2, <1>3 DEF Safe, RegistryOK, HashIn

-----------------------------------------------------------------------------
(* The theorems *)

\* However days pass, sources publish and runs start, fail and are killed, the
\* collections keep one document a notice, one registry entry a notice and one
\* entity an organisation, the marks stay days and ids, and a run in progress is
\* at one of its steps, with no more to save than its buffer holds.
THEOREM TypeCorrect == Spec => []TypeOK
<1>1. Inv => TypeOK
  <2> SUFFICES ASSUME Inv PROVE TypeOK
    OBVIOUS
  <2>1. DbOK(db) /\ WorldOK
    BY DEF Inv
  <2>2. /\ today \in StartDay..EndDay /\ released \subseteq Releases
        /\ {db.lastRun, db.vestnikMark} \subseteq 0..EndDay /\ db.itmsMin \in Nat
    BY <2>1 DEF WorldOK, DbOK
  <2>3. /\ \A d, e \in db.store : KeyOf(d) = KeyOf(e) => d = e
        /\ \A d, e \in db.registry : d.key = e.key => d = e
        /\ \A entities \in {db.procurers, db.suppliers} : \A a, b \in entities :
              SameEntity(a, b) => a = b
    BY <2>1 DEF DbOK, IsStore, IsRegistry, IsEntities
  <2>4. ASSUME run # Idle
        PROVE  /\ run.stage \in DOMAIN Stages /\ Len(run.todo) <= Len(run.buffer)
               /\ run.step \in {"open", "fetch", "notices", "registry", "entities",
                                "graph", "checkpoint", "finish", "match"}
    <3>1. RunOK(Bulletins, run)
      BY <2>4 DEF Inv
    <3>2. DOMAIN Stages = 1..4
      BY DEF Stages
    <3> QED BY <3>1, <3>2 DEF RunOK, RunSteps, Saving
  <2> QED BY <2>2, <2>3, <2>4 DEF TypeOK
<1> QED BY <1>1, Invariant, PTL

\* Whatever organisations the notices of a chunk name, how often and in whatever
\* order, and whatever entities are stored, one operation for each of them (the
\* last occurrence, the sources of all) leaves the collections as an operation
\* for each occurrence would (_collapse_entity_ops).
THEOREM CollapsedIsSequential == Spec => []CollapseIsSequential
<1>1. Inv => CollapseIsSequential
  <2> SUFFICES ASSUME Inv, run # Idle, run.step = "entities" PROVE CollapseIsSequential
    BY DEF CollapseIsSequential
  <2>1. RunOK(Bulletins, run)
    BY DEF Inv
  <2>2. AreNotices(deduped(Chunk))
    BY <2>1, ChunkOfNotices, DedupedList DEF RunOK
  <2> QED BY <2>2, ProcurersList, SuppliersList, CollapseSound DEF CollapseIsSequential
<1> QED BY <1>1, Invariant, PTL

\* Between runs, whatever the next recent run would not ask for is in both stores with
\* its organisations, or has a cause: wherever runs were cut short, whatever failed in
\* them and whenever sources published, the marks in pipeline_state (last_run,
\* the latest modification of a Vestnik dataset, the next ITMS id) are never ahead of
\* the data; and what the registry calls known is stored, but for the notices
\* written when their hash was not.
THEOREM NothingLostUnexplained == Spec => []LossExplained
<1>1. Init => Inv /\ LossInv
  BY InvInit, LossInit
<1>2. Inv /\ LossInv /\ [Next]_vars => Inv' /\ LossInv'
  BY InvNext, LossNext
<1>3. Inv /\ LossInv => LossExplained
  BY LossInvExplains
<1> QED BY <1>1, <1>2, <1>3, PTL DEF Spec

=============================================================================
