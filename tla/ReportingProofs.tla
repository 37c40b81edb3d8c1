-------------------------- MODULE ReportingProofs --------------------------
(***************************************************************************)
(* Proofs about what the read side says (module Reporting): the bursts of    *)
(* awards that a risk profile reports, for whatever documents are stored,    *)
(* every company, every window and every count that makes a cluster; and     *)
(* what the graph of the legacy pipeline (module LegacyPipeline) answers,    *)
(* which is what the stored notices say.                                     *)
(***************************************************************************)
EXTENDS Reporting, LegacyPipelineProofs

-----------------------------------------------------------------------------
(* Two pointers: the longest window *)

Bursts == INSTANCE Folding WITH
    Op <- LAMBDA records, at, right :
              LET left == WindowStart(records, at.left, right)
              IN [left |-> left,
                  best |-> IF right - left + 1 > Len(at.best)
                             THEN SubSeq(records, left, right) ELSE at.best],
    Good <- LAMBDA records, at : TRUE

InOrder(records) ==
    /\ IsList(records)
    /\ \A k \in DOMAIN records : records[k].date \in Int
    /\ \A j, k \in DOMAIN records : j < k => records[j].date <= records[k].date
Within(records, a, b) == records[b].date - records[a].date <= AWARD_CLUSTER_WINDOW_DAYS

\* The left pointer stops at the first award that shares a window with the right one.
LEMMA WindowStarts ==
    ASSUME NEW records, InOrder(records), NEW right \in DOMAIN records, NEW left \in 1..right
    PROVE  LET k == WindowStart(records, left, right)
           IN /\ k \in left..right /\ Within(records, k, right)
              /\ \A j \in left..(k - 1) : ~Within(records, j, right)
<1>1. /\ Len(records) \in Nat /\ right \in 1..Len(records) /\ DOMAIN records = 1..Len(records)
      /\ AWARD_CLUSTER_WINDOW_DAYS \in Nat
      /\ \A k \in 1..right : k \in DOMAIN records /\ records[k].date \in Int
  BY LengthOfList, ScoringAssumption DEF InOrder
<1> DEFINE S == {k \in left..right : Within(records, k, right)}
<1>2. right \in S /\ S \subseteq Nat
  BY <1>1 DEF Within
<1>3. PICK k \in S : \A j \in S : k <= j
  <2> HIDE DEF S
  <2> QED BY <1>2, Writes!HasSmallest
<1> DEFINE Starts(i) == /\ i \in left..right
                        /\ records[right].date - records[i].date <= AWARD_CLUSTER_WINDOW_DAYS
                        /\ \A j \in left..(i - 1) :
                              records[right].date - records[j].date > AWARD_CLUSTER_WINDOW_DAYS
<1>4. Starts(k)
  <2>1. k \in left..right /\ Within(records, k, right)
    BY <1>3
  <2>2. ASSUME NEW j \in left..(k - 1)
        PROVE  records[right].date - records[j].date > AWARD_CLUSTER_WINDOW_DAYS
    <3>1. j \in left..right /\ ~(k <= j) /\ j \in 1..right
      BY <1>1, <2>1
    <3>2. j \notin S
      BY <1>3, <3>1
    <3>3. records[right].date \in Int /\ records[j].date \in Int
      BY <1>1, <3>1
    <3> QED BY <1>1, <3>1, <3>2, <3>3 DEF Within
  <2> QED BY <2>1, <2>2 DEF Within
<1>5. WindowStart(records, left, right) = (CHOOSE i : Starts(i))
  BY DEF WindowStart
<1>6. Starts(CHOOSE i : Starts(i))
  <2> HIDE DEF Starts
  <2> QED BY <1>4
<1> DEFINE w == WindowStart(records, left, right)
<1>7. Starts(w)
  BY <1>5, <1>6
<1> HIDE DEF w
<1>8. ASSUME NEW j \in left..(w - 1) PROVE ~Within(records, j, right)
  <2>1. j \in 1..right
    BY <1>1, <1>7
  <2>2. records[right].date \in Int /\ records[j].date \in Int
    BY <1>1, <2>1
  <2> QED BY <1>1, <1>7, <2>2 DEF Within
<1> QED BY <1>7, <1>8 DEF w, Within

\* A window of the records, and none is longer.
IsBurst(records, n, best) ==
    /\ \/ n = 0 /\ best = <<>>
       \/ \E a, b \in 1..n : a <= b /\ Within(records, a, b) /\ best = SubSeq(records, a, b)
    /\ \A a, b \in 1..n : a <= b /\ Within(records, a, b) => b - a + 1 <= Len(best)

LEMMA WindowOfRecords ==
    ASSUME NEW records, IsList(records), NEW a \in DOMAIN records, NEW b \in DOMAIN records, a <= b
    PROVE  /\ SubSeq(records, a, b) \in Seq(ToSet(records))
           /\ Len(SubSeq(records, a, b)) = b - a + 1
           /\ \A i \in 1..(b - a + 1) : SubSeq(records, a, b)[i] = records[a + i - 1]
<1>1. records \in Seq(ToSet(records)) /\ DOMAIN records = 1..Len(records) /\ Len(records) \in Nat
  BY LengthOfList DEF IsList
<1>2. a \in 1..(Len(records) + 1) /\ b \in (a - 1)..Len(records) /\ b >= a
  BY <1>1
<1> QED BY <1>1, <1>2, SubSeqProperties

LEMMA LongestBurstFound ==
    ASSUME NEW records, InOrder(records)
    PROVE  IsBurst(records, Len(records), LongestBurst(records))
<1> DEFINE n == Len(records)
           idx == [k \in DOMAIN records |-> k]
           base == [left |-> 1, best |-> <<>>]
<1>1. n \in Nat /\ DOMAIN records = 1..n /\ IsList(records) /\ AWARD_CLUSTER_WINDOW_DAYS \in Nat
      /\ \A k \in 1..n : records[k].date \in Int
  BY LengthOfList, ScoringAssumption DEF InOrder
<1> HIDE DEF n
<1>2. idx \in Seq(1..n) /\ Len(idx) = n /\ \A k \in 1..n : idx[k] = k
  BY <1>1
<1>3. LongestBurst(records) = Bursts!Fold(records, base, idx).best
  BY DEF LongestBurst, FoldLeft, MapThenFoldSet, Max,
         Bursts!Fold, Bursts!MapThenFoldSet, Bursts!Greatest
<1> HIDE DEF idx, base
<1>4. PICK f : Bursts!Steps(records, base, idx, f) /\ Bursts!Fold(records, base, idx) = f[n]
  BY <1>2, Bursts!FoldGoesThrough
<1> DEFINE Reached(k) == /\ f[k].left \in 1..(k + 1)
                         /\ \A j \in 1..(f[k].left - 1) : ~Within(records, j, k)
                         /\ IsBurst(records, k, f[k].best)
           K == {k \in 0..n : Reached(k)}
<1>5. 0 \in K
  <2>1. f[0] = base /\ Len(<<>>) = 0
    BY <1>4 DEF Bursts!Steps
  <2>2. f[0].left = 1 /\ f[0].best = <<>>
    BY <2>1 DEF base
  <2>3. IsBurst(records, 0, <<>>)
    BY DEF IsBurst
  <2>4. f[0].left \in 1..(0 + 1) /\ 1..(f[0].left - 1) = {}
    BY <2>2
  <2> QED BY <1>1, <2>2, <2>3, <2>4
<1>6. ASSUME NEW k \in 1..n, k - 1 \in K PROVE k \in K
  <2> DEFINE left == WindowStart(records, f[k - 1].left, k)
             old == f[k - 1].best
  <2>1. Reached(k - 1)
    BY <1>6
  <2>2. f[k - 1].left \in 1..k
    BY <1>1, <2>1
  <2>3. /\ left \in f[k - 1].left..k /\ Within(records, left, k)
        /\ \A j \in f[k - 1].left..(left - 1) : ~Within(records, j, k)
    BY <1>1, <2>2, WindowStarts
  <2>4. f[k] = [left |-> left,
                best |-> IF k - left + 1 > Len(old) THEN SubSeq(records, left, k) ELSE old]
    BY <1>2, <1>4 DEF Bursts!Steps
  <2> HIDE DEF left, old
  <2>5. left \in 1..k /\ left \in DOMAIN records /\ k \in DOMAIN records
    BY <1>1, <2>2, <2>3
  <2>6. ASSUME NEW j \in 1..(left - 1) PROVE ~Within(records, j, k)
    <3>1. CASE j >= f[k - 1].left
      <4>1. j \in f[k - 1].left..(left - 1)
        BY <2>2, <2>5, <3>1
      <4> QED BY <2>3, <4>1
    <3>2. CASE ~(j >= f[k - 1].left)
      <4>1. j \in 1..(f[k - 1].left - 1) /\ k - 1 \in 1..n /\ j \in 1..n
        BY <1>1, <2>2, <2>5, <3>2
      <4>2. ~Within(records, j, k - 1)
        BY <2>1, <4>1
      <4>3. records[k - 1].date <= records[k].date
        BY <1>1, <4>1 DEF InOrder
      <4>4. records[k - 1].date \in Int /\ records[k].date \in Int /\ records[j].date \in Int
        BY <1>1, <4>1
      <4> QED BY <1>1, <4>2, <4>3, <4>4 DEF Within
    <3> QED BY <3>1, <3>2
  <2>7. Len(SubSeq(records, left, k)) = k - left + 1
    BY <1>1, <2>5, WindowOfRecords
  <2>8. IsBurst(records, k - 1, old)
    BY <2>1 DEF old
  <2>9. Len(old) \in Nat
    <3>1. CASE old = <<>>
      BY <3>1
    <3>2. ASSUME NEW a \in 1..(k - 1), NEW b \in 1..(k - 1), a <= b, old = SubSeq(records, a, b)
          PROVE  Len(old) \in Nat
      <4>1. a \in DOMAIN records /\ b \in DOMAIN records
        BY <1>1
      <4> QED BY <1>1, <3>2, <4>1, WindowOfRecords
    <3> QED BY <2>8, <3>1, <3>2 DEF IsBurst
  <2>10. Len(f[k].best) >= Len(old) /\ Len(f[k].best) >= k - left + 1 /\ Len(f[k].best) \in Nat
    BY <2>4, <2>5, <2>7, <2>9
  <2>11. ASSUME NEW a \in 1..k, NEW b \in 1..k, a <= b, Within(records, a, b)
         PROVE  b - a + 1 <= Len(f[k].best)
    <3>1. CASE b = k
      <4>1. ~(a \in 1..(left - 1))
        BY <2>6, <2>11, <3>1
      <4> QED BY <2>5, <2>10, <3>1, <4>1
    <3>2. CASE b # k
      <4>1. a \in 1..(k - 1) /\ b \in 1..(k - 1)
        BY <2>11, <3>2
      <4>2. b - a + 1 <= Len(old)
        BY <2>8, <2>11, <4>1 DEF IsBurst
      <4> QED BY <2>9, <2>10, <4>1, <4>2
    <3> QED BY <3>1, <3>2
  <2>12. \E a, b \in 1..k : a <= b /\ Within(records, a, b) /\ f[k].best = SubSeq(records, a, b)
    <3>1. CASE k - left + 1 > Len(old)
      <4>1. f[k].best = SubSeq(records, left, k) /\ k \in 1..k /\ left <= k
        BY <2>4, <2>5, <3>1
      <4> QED BY <2>3, <2>5, <4>1
    <3>2. CASE ~(k - left + 1 > Len(old))
      <4>1. f[k].best = old
        BY <2>4, <3>2
      <4>2. old # <<>>
        BY <2>5, <2>9, <3>2
      <4>3. PICK a \in 1..(k - 1), b \in 1..(k - 1) :
               a <= b /\ Within(records, a, b) /\ old = SubSeq(records, a, b)
        BY <2>8, <4>2 DEF IsBurst
      <4>4. a \in 1..k /\ b \in 1..k
        OBVIOUS
      <4> QED BY <4>1, <4>3, <4>4
    <3> QED BY <3>1, <3>2
  <2>13. IsBurst(records, k, f[k].best)
    BY <2>11, <2>12 DEF IsBurst
  <2>14. f[k].left = left /\ left \in 1..(k + 1) /\ k \in 0..n
    BY <2>4, <2>5
  <2> QED BY <2>6, <2>13, <2>14
<1>7. n \in K
  <2>1. Bursts!Hereditary(K, n)
    <3> HIDE DEF K
    <3> QED BY <1>5, <1>6 DEF Bursts!Hereditary
  <2> HIDE DEF K
  <2> QED BY <1>1, <2>1, Bursts!BoundedInduction
<1> QED BY <1>3, <1>4, <1>7 DEF n

-----------------------------------------------------------------------------
(* The burst is as dense as the awards ever are *)

\* The awards in the window that ends with one of them.
Near(S, r) == {q \in S : q.date \in (r.date - AWARD_CLUSTER_WINDOW_DAYS)..r.date}

\* Each award is listed once.
ListsAll(records, S) ==
    /\ InOrder(records) /\ ToSet(records) = S
    /\ \A j, k \in DOMAIN records : records[j] = records[k] => j = k

LEMMA NearIsNoLonger ==
    ASSUME NEW S, NEW records, ListsAll(records, S),
           NEW best, IsBurst(records, Len(records), best), NEW r \in S
    PROVE  /\ IsFiniteSet(Near(S, r)) /\ Cardinality(Near(S, r)) \in Nat
           /\ Cardinality(Near(S, r)) <= Len(best)
<1> DEFINE n == Len(records)
           P == {k \in 1..n : records[k] \in Near(S, r)}
<1>1. n \in Nat /\ DOMAIN records = 1..n /\ AWARD_CLUSTER_WINDOW_DAYS \in Nat
      /\ S = {records[k] : k \in 1..n} /\ \A k \in 1..n : records[k].date \in Int
  BY LengthOfList, ScoringAssumption DEF ListsAll, InOrder, ToSet
<1> HIDE DEF n
<1>2. r \in Near(S, r) /\ r.date \in Int
  BY <1>1 DEF Near
<1>3. PICK m \in 1..n : records[m] = r
  BY <1>1
<1>4. m \in P /\ P \subseteq 1..n /\ P \subseteq Nat
  BY <1>1, <1>2, <1>3
<1>5. PICK a \in P : \A k \in P : a <= k
  <2> HIDE DEF P
  <2> QED BY <1>4, Writes!HasSmallest
<1>6. PICK b \in P : \A k \in P : k <= b
  <2> HIDE DEF P
  <2> QED BY <1>1, <1>4, Writes!HasGreatest
<1>7. a \in 1..n /\ b \in 1..n /\ a <= b /\ Within(records, a, b)
  <2>1. a \in 1..n /\ b \in 1..n /\ a <= b
    BY <1>4, <1>5, <1>6
  <2>2. records[a].date \in Int /\ records[b].date \in Int
        /\ records[a].date >= r.date - AWARD_CLUSTER_WINDOW_DAYS /\ records[b].date <= r.date
    BY <1>1, <1>2, <1>5, <1>6, <2>1 DEF Near
  <2> QED BY <1>1, <1>2, <2>1, <2>2 DEF Within
<1>8. b - a + 1 <= Len(best)
  BY <1>7 DEF IsBurst, n
<1>9. P \subseteq a..b
  BY <1>4, <1>5, <1>6, <1>7
<1>10. IsFiniteSet(a..b) /\ Cardinality(a..b) = b - a + 1
  BY <1>7, FS_Interval
<1>11. IsFiniteSet(P) /\ Cardinality(P) <= b - a + 1
  <2> HIDE DEF P
  <2> QED BY <1>9, <1>10, FS_Subset
<1> DEFINE f == [k \in P |-> records[k]]
<1>12. f \in Surjection(P, Near(S, r))
  <2>1. f \in [P -> Near(S, r)]
    OBVIOUS
  <2>2. ASSUME NEW q \in Near(S, r) PROVE \E k \in P : f[k] = q
    <3>1. q \in S
      BY DEF Near
    <3>2. PICK k \in 1..n : records[k] = q
      BY <1>1, <3>1
    <3> QED BY <3>2
  <2> HIDE DEF f, P
  <2> QED BY <2>1, <2>2 DEF Surjection
<1> HIDE DEF P, f
<1>13. IsFiniteSet(Near(S, r)) /\ Cardinality(Near(S, r)) <= Cardinality(P)
  BY <1>11, <1>12, FS_Surjection
<1>14. Cardinality(Near(S, r)) \in Nat /\ Cardinality(P) \in Nat
  BY <1>11, <1>13, FS_CardinalityType
<1>15. Len(best) \in Int
  <2>1. CASE best = <<>>
    BY <2>1
  <2>2. ASSUME NEW i \in 1..n, NEW j \in 1..n, i <= j, best = SubSeq(records, i, j)
        PROVE  Len(best) \in Int
    <3>1. Len(best) = j - i + 1
      BY <1>1, <2>2, WindowOfRecords DEF ListsAll, InOrder
    <3> QED BY <3>1
  <2> QED BY <2>1, <2>2 DEF IsBurst, n
<1> QED BY <1>7, <1>8, <1>11, <1>13, <1>14, <1>15

LEMMA BurstIsNear ==
    ASSUME NEW S, NEW records, ListsAll(records, S),
           NEW a \in DOMAIN records, NEW b \in DOMAIN records, a <= b, Within(records, a, b),
           IsBurst(records, Len(records), SubSeq(records, a, b))
    PROVE  /\ records[b] \in S
           /\ Cardinality(Near(S, records[b])) = Len(SubSeq(records, a, b))
<1> DEFINE r == records[b]
           best == SubSeq(records, a, b)
           f == [k \in a..b |-> records[k]]
<1>1. /\ DOMAIN records = 1..Len(records) /\ Len(records) \in Nat
      /\ \A k \in 1..Len(records) : records[k].date \in Int /\ records[k] \in S
      /\ AWARD_CLUSTER_WINDOW_DAYS \in Nat
  BY LengthOfList, ScoringAssumption DEF ListsAll, InOrder, ToSet
<1>2. a \in Int /\ b \in Int /\ a..b \subseteq 1..Len(records) /\ b \in 1..Len(records)
  BY <1>1
<1>3. r \in S
  BY <1>1, <1>2
<1>4. Len(best) = b - a + 1
  BY WindowOfRecords DEF ListsAll, InOrder
<1>5. ASSUME NEW k \in a..b PROVE records[k] \in Near(S, r)
  <2>1. k \in DOMAIN records /\ (a = k \/ a < k) /\ (k = b \/ k < b)
    BY <1>1, <1>2
  <2>2. records[a].date <= records[k].date /\ records[k].date <= records[b].date
    <3>1. /\ records[k].date \in Int /\ records[a].date \in Int /\ records[b].date \in Int
      BY <1>1, <2>1
    <3>2. \A i, j \in DOMAIN records : i < j => records[i].date <= records[j].date
      BY DEF ListsAll, InOrder
    <3> QED BY <2>1, <3>1, <3>2
  <2>3. /\ records[k].date \in Int /\ records[a].date \in Int /\ records[b].date \in Int
        /\ records[k] \in S
    BY <1>1, <2>1
  <2>4. records[k].date \in (records[b].date - AWARD_CLUSTER_WINDOW_DAYS)..records[b].date
    BY <1>1, <2>2, <2>3 DEF Within
  <2> QED BY <2>3, <2>4 DEF Near
<1>6. f \in Injection(a..b, Near(S, r))
  <2>1. f \in [a..b -> Near(S, r)]
    <3> HIDE DEF r
    <3> QED BY <1>5
  <2>2. ASSUME NEW j \in a..b, NEW k \in a..b, f[j] = f[k] PROVE j = k
    <3>1. records[j] = records[k]
      BY <2>2
    <3>2. j \in DOMAIN records /\ k \in DOMAIN records
      BY <1>1, <1>2
    <3> QED BY <3>1, <3>2 DEF ListsAll
  <2> HIDE DEF f, r
  <2> QED BY <2>1, <2>2 DEF Injection, IsInjective
<1> HIDE DEF f
<1>7. /\ IsFiniteSet(Near(S, r)) /\ Cardinality(Near(S, r)) \in Nat
      /\ Cardinality(Near(S, r)) <= Len(best)
  <2> HIDE DEF r, best
  <2> QED BY <1>3, NearIsNoLonger DEF best
<1>8. Cardinality(a..b) = b - a + 1
  BY <1>2, FS_Interval
<1>9. Cardinality(a..b) <= Cardinality(Near(S, r))
  <2> HIDE DEF r
  <2> QED BY <1>6, <1>7, FS_Injection
<1> HIDE DEF r, best
<1>10. Cardinality(Near(S, r)) = Len(best)
  BY <1>2, <1>4, <1>7, <1>8, <1>9
<1> QED BY <1>3, <1>10 DEF r, best

\* The awards of a series, in the order of their dates.
Dated(S) == IsFiniteSet(S) /\ \A r \in S : r.date \in Int

LEMMA SeriesListed ==
    ASSUME NEW S, Dated(S), NEW A, S \subseteq A
    PROVE  ListsAll(ByRank(S, [r \in A |-> r.date]), S)
<1> DEFINE rank == [r \in A |-> r.date]
           records == ByRank(S, rank)
<1>1. \A r \in S : rank[r] = r.date /\ r.date \in Int
  BY DEF Dated
<1> HIDE DEF rank
<1>2. records \in Seq(S) /\ ToSet(records) = S /\ Len(records) = Cardinality(S)
      /\ Sorted(records, rank)
  BY <1>1, RankedOver DEF Dated
<1> HIDE DEF records
<1>3. /\ IsList(records) /\ DOMAIN records = 1..Len(records) /\ Len(records) \in Nat
      /\ records = [k \in 1..Len(records) |-> records[k]]
  BY <1>2, LengthOfList DEF IsList
<1>4. \A k \in DOMAIN records : records[k] \in S
  BY <1>2 DEF ToSet
<1>5. InOrder(records)
  BY <1>1, <1>2, <1>3, <1>4 DEF InOrder, Sorted
<1>6. records \in Surjection(1..Len(records), S)
  <2> DEFINE n == Len(records)
  <2>1. \A k \in 1..n : records[k] \in S
    BY <1>3, <1>4
  <2>2. \A r \in S : \E k \in 1..n : records[k] = r
    <3>1. \A r \in ToSet(records) : \E k \in DOMAIN records : records[k] = r
      BY DEF ToSet
    <3> QED BY <1>2, <1>3, <3>1
  <2> HIDE DEF n
  <2>3. records \in [1..n -> S]
    BY <1>3, <2>1 DEF n
  <2> QED BY <2>2, <2>3 DEF Surjection, n
<1>7. IsFiniteSet(1..Len(records)) /\ Cardinality(1..Len(records)) = Len(records)
  BY <1>3, FS_Interval
<1>8. records \in Injection(1..Len(records), S)
  BY <1>2, <1>6, <1>7, FS_SurjSameCardinalityImpliesInj
<1>9. \A j, k \in DOMAIN records : records[j] = records[k] => j = k
  BY <1>3, <1>8 DEF Injection, IsInjective
<1> QED BY <1>2, <1>5, <1>9 DEF ListsAll, records, rank

\* The longest burst of a series: awards of it, and as many as any window holds.
LEMMA BurstOfSeries ==
    ASSUME NEW S, Dated(S), NEW A, S \subseteq A
    PROVE  LET burst == LongestBurst(ByRank(S, [r \in A |-> r.date]))
           IN Len(burst) \in Nat /\ Len(burst) = MaxBurst(S) /\ ToSet(burst) \subseteq S
<1> DEFINE records == ByRank(S, [r \in A |-> r.date])
           burst == LongestBurst(records)
           n == Len(records)
           T == {Cardinality(Near(S, r)) : r \in S} \cup {0}
<1>1. ListsAll(records, S)
  BY SeriesListed
<1> HIDE DEF records
<1>2. IsBurst(records, n, burst)
  BY <1>1, LongestBurstFound DEF ListsAll
<1> HIDE DEF burst
<1>3. DOMAIN records = 1..n /\ n \in Nat /\ ToSet(records) = S
  BY <1>1, LengthOfList DEF ListsAll, InOrder
<1>4. \A r \in S : Cardinality(Near(S, r)) \in Nat /\ Cardinality(Near(S, r)) <= Len(burst)
  BY <1>1, <1>2, NearIsNoLonger
<1>5. /\ Len(burst) \in Nat /\ ToSet(burst) \subseteq S
      /\ Len(burst) = 0 \/ \E r \in S : Cardinality(Near(S, r)) = Len(burst)
  <2>1. CASE burst = <<>>
    BY <2>1 DEF ToSet
  <2>2. ASSUME NEW a \in 1..n, NEW b \in 1..n, a <= b, Within(records, a, b),
               burst = SubSeq(records, a, b)
        PROVE  /\ Len(burst) \in Nat /\ ToSet(burst) \subseteq S
               /\ \E r \in S : Cardinality(Near(S, r)) = Len(burst)
    <3>1. /\ records[b] \in S /\ Cardinality(Near(S, records[b])) = Len(burst)
      BY <1>1, <1>2, <1>3, <2>2, BurstIsNear
    <3>2. burst \in Seq(S)
      BY <1>1, <1>3, <2>2, WindowOfRecords DEF ListsAll, InOrder
    <3>3. Len(burst) \in Nat /\ ToSet(burst) \subseteq S
      BY <3>2 DEF ToSet
    <3> QED BY <3>1, <3>3
  <2> QED BY <1>2, <2>1, <2>2 DEF IsBurst
<1>6. T \subseteq Nat /\ Len(burst) \in T /\ \A x \in T : Len(burst) >= x
  BY <1>4, <1>5
<1> HIDE DEF T
<1>7. Max(T) = Len(burst)
  <2> DEFINE Top(x) == x \in T /\ \A y \in T : x >= y
  <2>1. Top(Len(burst))
    BY <1>6
  <2>2. Max(T) = CHOOSE x : Top(x)
    BY DEF Max
  <2>3. Top(CHOOSE x : Top(x))
    <3> HIDE DEF Top
    <3> QED BY <2>1
  <2>4. Top(Max(T))
    BY <2>2, <2>3
  <2>5. Max(T) >= Len(burst) /\ Len(burst) >= Max(T) /\ Max(T) \in Nat /\ Len(burst) \in Nat
    BY <1>6, <2>4
  <2> QED BY <2>5
<1>8. MaxBurst(S) = Max(T)
  BY DEF MaxBurst, T, Near
<1> QED BY <1>5, <1>7, <1>8 DEF burst, records

-----------------------------------------------------------------------------
(* The flag *)

LEMMA Quotient ==
    ASSUME NEW a \in Nat, NEW b \in Nat \ {0}
    PROVE  /\ a \div b \in Nat /\ b * (a \div b) <= a /\ a < b * ((a \div b) + 1)
OBVIOUS

Points(x) == x \in Nat /\ x <= 1000

\* A burst scores 60 points and more from the count of a cluster on.
LEMMA DensityOfBurst ==
    ASSUME NEW n \in Nat
    PROVE  LET density == Capped(Ratio(600, n, AWARD_CLUSTER_COUNT))
           IN Points(density) /\ (density >= 600 <=> n >= AWARD_CLUSTER_COUNT)
<1> DEFINE c == AWARD_CLUSTER_COUNT
           a == 1200 * n + c
           q == a \div (2 * c)
<1>1. c \in Nat \ {0} /\ c < 1200 /\ a \in Nat /\ 2 * c \in Nat \ {0}
  BY ScoringAssumption
<1>2. Ratio(600, n, c) = q
  BY <1>1 DEF Ratio
<1>3. q \in Nat /\ (2 * c) * q <= a /\ a < (2 * c) * (q + 1)
  <2> HIDE DEF a, c
  <2> QED BY <1>1, Quotient
<1>4. q >= 600 <=> n >= c
  <2>1. CASE n >= c
    <3>1. (2 * c) * 600 <= a
      BY <1>1, <2>1
    <3>2. ASSUME q < 600 PROVE FALSE
      <4>1. q + 1 <= 600 /\ q + 1 \in Nat /\ 2 * c \in Nat
        BY <1>1, <1>3, <3>2
      <4>2. (2 * c) * (q + 1) <= (2 * c) * 600
        <5> HIDE DEF q, c
        <5> QED BY <4>1
      <4> HIDE DEF q
      <4> QED BY <1>1, <1>3, <3>1, <4>1, <4>2
    <3> QED BY <1>3, <2>1, <3>2
  <2>2. CASE n < c
    <3>1. a < (2 * c) * 600
      BY <1>1, <2>2
    <3>2. ASSUME q >= 600 PROVE FALSE
      <4>1. (2 * c) * 600 <= (2 * c) * q
        <5> HIDE DEF q, c
        <5> QED BY <1>1, <1>3, <3>2
      <4> HIDE DEF q
      <4> QED BY <1>1, <1>3, <3>1, <4>1
    <3> QED BY <1>1, <1>3, <2>2, <3>2
  <2> QED BY <1>1, <2>1, <2>2
<1> HIDE DEF q
<1> QED BY <1>2, <1>3, <1>4 DEF Capped, Points

\* What triggers is a burst of one division, and scores above what does not.
FlagOf(flag, burst) ==
    /\ flag.evidence.burst = burst /\ Points(flag.score) /\ flag.triggered \in BOOLEAN
    /\ flag.triggered <=> flag.score >= 600
    /\ flag.triggered => /\ Len(burst) >= AWARD_CLUSTER_COUNT
                         /\ Cardinality(flag.evidence.divisions) = 1

LEMMA FlagOfBurst ==
    ASSUME NEW burst, Len(burst) \in Nat, NEW divisions
    PROVE  FlagOf(BurstFlag(burst, divisions, Capped(Ratio(600, Len(burst), AWARD_CLUSTER_COUNT))),
                  burst)
<1> DEFINE density == Capped(Ratio(600, Len(burst), AWARD_CLUSTER_COUNT))
           flag == BurstFlag(burst, divisions, density)
           half == Ratio(1, density, 2)
<1>1. Points(density) /\ (density >= 600 <=> Len(burst) >= AWARD_CLUSTER_COUNT)
  BY DensityOfBurst
<1> HIDE DEF density
<1>2. half \in Nat /\ half < 600
  BY <1>1 DEF Ratio, Points
<1> HIDE DEF half
<1>3. AWARD_CLUSTER_COUNT \in Nat
  BY ScoringAssumption
<1>4. flag.evidence.burst = burst /\ flag.evidence.divisions = divisions
  <2>1. flag.evidence = [burst |-> burst, divisions |-> divisions]
    BY DEF BurstFlag, Flag
  <2> HIDE DEF flag
  <2> QED BY <2>1
<1>5. FlagOf(flag, burst)
  <2>1. CASE Len(burst) < AWARD_CLUSTER_COUNT
    <3>1. flag.triggered = FALSE /\ flag.score = density
      BY <2>1 DEF BurstFlag, Flag
    <3> HIDE DEF flag
    <3>2. ~(flag.score >= 600) /\ Points(flag.score)
      BY <1>1, <1>3, <2>1, <3>1 DEF Points
    <3> QED BY <1>4, <3>1, <3>2, Zenon DEF FlagOf
  <2>2. CASE ~(Len(burst) < AWARD_CLUSTER_COUNT) /\ Cardinality(divisions) # 1
    <3>1. flag.triggered = FALSE /\ flag.score = half
      BY <2>2 DEF BurstFlag, Flag, half
    <3> HIDE DEF flag
    <3>2. ~(flag.score >= 600) /\ Points(flag.score)
      BY <1>2, <3>1 DEF Points
    <3> QED BY <1>4, <3>1, <3>2, Zenon DEF FlagOf
  <2>3. CASE ~(Len(burst) < AWARD_CLUSTER_COUNT) /\ Cardinality(divisions) = 1
    <3>1. flag.triggered = TRUE /\ flag.score = density
      BY <2>3 DEF BurstFlag, Flag
    <3> HIDE DEF flag
    <3>2. flag.score >= 600 /\ Points(flag.score) /\ Len(burst) >= AWARD_CLUSTER_COUNT
      BY <1>1, <1>3, <2>3, <3>1 DEF Points
    <3>3. Cardinality(flag.evidence.divisions) = 1
      BY <1>4, <2>3
    <3> QED BY <1>4, <3>1, <3>2, <3>3, Zenon DEF FlagOf
  <2> HIDE DEF flag
  <2> QED BY <2>1, <2>2, <2>3
<1> QED BY <1>5 DEF density

LEMMA FlagOfSeries ==
    ASSUME NEW S, Dated(S), \A r \in S : r.date # 0
    PROVE  LET flag == award_clustering(S)
           IN FlagOf(flag, flag.evidence.burst) /\ Len(flag.evidence.burst) = MaxBurst(S)
              /\ ToSet(flag.evidence.burst) \subseteq S
<1> DEFINE burst == LongestBurst(ByRank(S, [a \in S |-> a.date]))
           density == Capped(Ratio(600, Len(burst), AWARD_CLUSTER_COUNT))
<1>1. {a \in S : a.date # 0} = S
  OBVIOUS
<1>2. award_clustering(S) = BurstFlag(burst, DivisionsOf(burst), density)
  BY <1>1 DEF award_clustering
<1>3. Len(burst) \in Nat /\ Len(burst) = MaxBurst(S) /\ ToSet(burst) \subseteq S
  BY BurstOfSeries
<1> HIDE DEF burst
<1>4. FlagOf(award_clustering(S), burst)
  BY <1>2, <1>3, FlagOfBurst
<1>5. award_clustering(S).evidence.burst = burst
  BY <1>4 DEF FlagOf
<1> QED BY <1>3, <1>4, <1>5

\* Of flags, one that no other exceeds.
LEMMA HighestOfFlags ==
    ASSUME NEW flags, flags # {}, \A f \in flags : Points(f.score)
    PROVE  Highest(flags) \in flags /\ \A f \in flags : Highest(flags).score >= f.score
<1> DEFINE T == {f.score + 1 : f \in flags}
<1>1. T \subseteq Nat \ {0} /\ (\A u \in T : u <= 1001) /\ T # {}
  <2>1. \A f \in flags : f.score + 1 \in Nat \ {0} /\ f.score + 1 <= 1001
    BY DEF Points
  <2> QED BY <2>1
<1>2. PICK t \in T : \A u \in T : u <= t
  <2> HIDE DEF T
  <2>1. PICK n \in Nat : n = 1001
    OBVIOUS
  <2>2. T \subseteq 1..n
    BY <1>1, <2>1
  <2> QED BY <1>1, <2>2, Writes!HasGreatest
<1>3. PICK f \in flags : t = f.score + 1
  OBVIOUS
<1> DEFINE Top(h) == h \in flags /\ \A g \in flags : h.score >= g.score
<1>4. Top(f)
  <2>1. ASSUME NEW g \in flags PROVE f.score >= g.score
    <3>1. g.score + 1 \in T
      OBVIOUS
    <3>2. g.score + 1 <= f.score + 1
      BY <1>2, <1>3, <3>1
    <3>3. g.score \in Int /\ f.score \in Int
      BY <1>3 DEF Points
    <3> QED BY <3>2, <3>3
  <2> QED BY <2>1
<1>5. Highest(flags) = CHOOSE h : Top(h)
  BY DEF Highest
<1>6. Top(CHOOSE h : Top(h))
  <2> HIDE DEF Top
  <2> QED BY <1>4
<1> HIDE DEF Top
<1> QED BY <1>5, <1>6 DEF Top

\* The timeline of finitely many documents.
LEMMA TimelineDated ==
    ASSUME NEW ico, IsFiniteSet(Docs), \A n \in Docs : Date(n) \in Int /\ IsList(n.awards)
    PROVE  Dated(award_timeline(Docs, ico))
<1> DEFINE Row(n, counterparty, line) ==
              [key |-> KeyOf(n), line |-> line, counterparty |-> counterparty, date |-> Date(n),
               value |-> Value(n), cpv_code |-> n.cpv_code, procedure_type |-> n.procedure_type]
           P == _dashboard_match(Docs, ico, "procurer")
           Q == _dashboard_match(Docs, ico, "supplier")
           WonIn(n) == {Row(n, n.awards[k].supplier.ico, k) : k \in DOMAIN n.awards}
           Won == {WonIn(n) : n \in P}
           Sold == {Row(n, ProcurerIco(n), 0) : n \in Q}
<1>1. award_timeline(Docs, ico) = (UNION Won) \cup Sold
  BY DEF award_timeline
<1>2. P \subseteq Docs /\ Q \subseteq Docs
  BY DEF _dashboard_match, Wins, Issues
<1> HIDE DEF P, Q
<1>3. IsFiniteSet(P) /\ IsFiniteSet(Q)
  BY <1>2, FS_Subset
<1>4. \A n \in Docs : \A counterparty, line : Row(n, counterparty, line).date \in Int
  OBVIOUS
<1>5. ASSUME NEW n \in P
      PROVE  IsFiniteSet(WonIn(n)) /\ \A r \in WonIn(n) : r.date \in Int
  <2>1. IsFiniteSet(DOMAIN n.awards)
    <3>1. DOMAIN n.awards = 1..Len(n.awards) /\ Len(n.awards) \in Nat
      BY <1>2, LengthOfList
    <3> QED BY <3>1, FS_Interval
  <2> DEFINE f == [k \in DOMAIN n.awards |-> Row(n, n.awards[k].supplier.ico, k)]
  <2>2. f = [k \in DOMAIN n.awards |-> f[k]] /\ WonIn(n) = {f[k] : k \in DOMAIN n.awards}
    OBVIOUS
  <2>3. \A r \in WonIn(n) : r.date \in Int
    BY <1>2
  <2> HIDE DEF f, WonIn
  <2> QED BY <2>1, <2>2, <2>3, FiniteImage
<1>6. IsFiniteSet(Won)
  <2> DEFINE f == [n \in P |-> WonIn(n)]
  <2> HIDE DEF WonIn
  <2>1. f = [n \in P |-> f[n]] /\ Won = {f[n] : n \in P}
    OBVIOUS
  <2> HIDE DEF f, Won
  <2> QED BY <1>3, <2>1, FiniteImage
<1>7. IsFiniteSet(UNION Won) /\ \A r \in UNION Won : r.date \in Int
  <2> HIDE DEF WonIn
  <2>1. \A T \in Won : IsFiniteSet(T) /\ \A r \in T : r.date \in Int
    BY <1>5
  <2> HIDE DEF Won
  <2> QED BY <1>6, <2>1, FS_UNION
<1>8. IsFiniteSet(Sold) /\ \A r \in Sold : r.date \in Int
  <2> DEFINE f == [n \in Q |-> Row(n, ProcurerIco(n), 0)]
  <2>1. f = [n \in Q |-> f[n]] /\ Sold = {f[n] : n \in Q}
    OBVIOUS
  <2>2. \A r \in Sold : r.date \in Int
    BY <1>2
  <2> HIDE DEF f, Sold
  <2> QED BY <1>3, <2>1, <2>2, FiniteImage
<1> HIDE DEF Won, Sold
<1>9. IsFiniteSet((UNION Won) \cup Sold)
  BY <1>7, <1>8, FS_Union
<1> QED BY <1>1, <1>7, <1>8, <1>9 DEF Dated

\* Whatever finitely many documents the store holds, each with a date and a list of
\* awards, and whichever company is asked about: the density that the profile reports
\* is the most awards of any one counterparty within any window (_longest_burst slides
\* one window along), none of them a call-off of a framework; a burst that triggers
\* is one of a single division; and a counterparty whose awards trigger is not hidden
\* behind one whose awards do not (_worst_award_cluster).
THEOREM WorstBurstReported ==
    ASSUME NEW ico, IsFiniteSet(Docs), \A n \in Docs : Date(n) \in Int /\ IsList(n.awards)
    PROVE  ClusteringSound(_worst_award_cluster(award_timeline(Docs, ico)), ico)
<1> DEFINE timeline == award_timeline(Docs, ico)
           others == {r.counterparty : r \in timeline} \ {None}
           flags == {award_clustering(SeriesOf(timeline, other)) : other \in others}
                    \cup {award_clustering({})}
           worst == Highest(flags)
           Sound(flag, S) == /\ FlagOf(flag, flag.evidence.burst)
                             /\ Len(flag.evidence.burst) = MaxBurst(S)
                             /\ ToSet(flag.evidence.burst) \subseteq S
<1>1. _worst_award_cluster(timeline) = worst
  BY DEF _worst_award_cluster
<1>2. SeriesHad(ico) = {SeriesOf(timeline, other) : other \in others}
  BY DEF SeriesHad
<1>3. Dated(timeline)
  BY TimelineDated
<1> HIDE DEF timeline
<1>4. ASSUME NEW S \in SeriesHad(ico)
      PROVE  /\ Sound(award_clustering(S), S)
             /\ \A r \in S : r.procedure_type \notin FrameworkMarkers
  <2>1. PICK other \in others : S = SeriesOf(timeline, other)
    BY <1>2
  <2>2. /\ S \subseteq timeline
        /\ \A r \in S : r.date # 0 /\ r.procedure_type \notin FrameworkMarkers
    BY <2>1 DEF SeriesOf, is_framework_or_dns
  <2>3. IsFiniteSet(S)
    BY <1>3, <2>2, FS_Subset DEF Dated
  <2>4. Dated(S)
    BY <1>3, <2>2, <2>3 DEF Dated
  <2> QED BY <2>2, <2>4, FlagOfSeries
<1>5. Sound(award_clustering({}), {}) /\ MaxBurst({}) = 0
  <2>1. Dated({})
    BY FS_EmptySet DEF Dated
  <2>2. Sound(award_clustering({}), {})
    BY <2>1, FlagOfSeries
  <2>3. MaxBurst({}) = Max({0})
    BY DEF MaxBurst
  <2>4. Max({0}) = 0
    BY DEF Max
  <2> QED BY <2>2, <2>3, <2>4
<1>6. /\ flags # {}
      /\ \A f \in flags : \/ \E S \in SeriesHad(ico) : f = award_clustering(S)
                          \/ f = award_clustering({})
      /\ \A S \in SeriesHad(ico) : award_clustering(S) \in flags
  BY <1>2
<1> HIDE DEF others, flags
<1>7. \A f \in flags : Points(f.score)
  <2>1. \A f \in flags : FlagOf(f, f.evidence.burst)
    BY <1>4, <1>5, <1>6
  <2> QED BY <2>1 DEF FlagOf
<1>8. worst \in flags /\ \A f \in flags : worst.score >= f.score
  BY <1>6, <1>7, HighestOfFlags
<1> HIDE DEF worst
<1>9. FlagOf(worst, worst.evidence.burst)
  BY <1>4, <1>5, <1>6, <1>8
<1>10. /\ Len(worst.evidence.burst) \in {MaxBurst(S) : S \in SeriesHad(ico)} \cup {0}
       /\ \A r \in ToSet(worst.evidence.burst) : r.procedure_type \notin FrameworkMarkers
  <2>1. CASE worst = award_clustering({})
    BY <1>5, <2>1
  <2>2. ASSUME NEW S \in SeriesHad(ico), worst = award_clustering(S)
        PROVE  /\ Len(worst.evidence.burst) \in {MaxBurst(Z) : Z \in SeriesHad(ico)} \cup {0}
               /\ \A r \in ToSet(worst.evidence.burst) : r.procedure_type \notin FrameworkMarkers
    BY <1>4, <2>2
  <2> QED BY <1>6, <1>8, <2>1, <2>2
<1>11. ASSUME NEW S \in SeriesHad(ico), award_clustering(S).triggered PROVE worst.triggered
  <2>1. award_clustering(S).score >= 600 /\ Points(award_clustering(S).score)
        /\ award_clustering(S) \in flags
    BY <1>4, <1>6, <1>11 DEF FlagOf
  <2>2. worst.score >= award_clustering(S).score /\ Points(worst.score)
    BY <1>7, <1>8, <2>1
  <2>3. worst.score >= 600
    BY <2>1, <2>2 DEF Points
  <2> QED BY <1>9, <2>3 DEF FlagOf
<1> QED BY <1>1, <1>9, <1>10, <1>11 DEF ClusteringSound, FlagOf, timeline

-----------------------------------------------------------------------------
(* What the graph answers. The totals of a set first: a sum over a set takes its    *)
(* elements in the order that CHOOSE has, and lines and edges that pair off have    *)
(* different orders; the sum does not depend on it.                                 *)

EdgeSums == INSTANCE Folding WITH
    Op <- LAMBDA c, total, e : Known(e.value) + total, Good <- LAMBDA c, total : TRUE
LineSums == INSTANCE Folding WITH
    Op <- LAMBDA c, total, line : Known(line[1].awards[line[2]].value) + total,
    Good <- LAMBDA c, total : TRUE

Size(S) == [T \in SUBSET S |-> Cardinality(T)]

LEMMA FiniteSized ==
    ASSUME NEW S, IsFiniteSet(S)
    PROVE  /\ EdgeSums!Sizes(S, Cardinality(S), Size(S))
           /\ LineSums!Sizes(S, Cardinality(S), Size(S))
<1> DEFINE N == Cardinality(S)
<1>1. ASSUME NEW T \in SUBSET S
      PROVE  /\ Size(S)[T] \in 0..N /\ (Size(S)[T] = 0 <=> T = {})
             /\ \A x \in T : Size(S)[T \ {x}] = Size(S)[T] - 1
  <2>1. IsFiniteSet(T) /\ Cardinality(T) \in Nat /\ Cardinality(T) <= N /\ N \in Nat
    BY FS_Subset, FS_CardinalityType
  <2>2. \A x \in T : Cardinality(T \ {x}) = Cardinality(T) - 1
    BY <2>1, FS_RemoveElement
  <2>3. Cardinality(T) = 0 <=> T = {}
    BY <2>1, FS_EmptySet
  <2>4. Size(S)[T] = Cardinality(T) /\ \A x \in T : Size(S)[T \ {x}] = Cardinality(T \ {x})
    BY DEF Size
  <2>5. \A c : c = Cardinality(T) => c \in 0..N
    <3> HIDE DEF N
    <3> QED BY <2>1
  <2>6. ASSUME NEW x \in T PROVE Size(S)[T \ {x}] = Size(S)[T] - 1
    <3>1. Size(S)[T \ {x}] = Cardinality(T) - 1
      BY <2>2, <2>4
    <3> QED BY <2>4, <3>1
  <2>7. Size(S)[T] \in 0..N /\ (Size(S)[T] = 0 <=> T = {})
    BY <2>3, <2>4, <2>5
  <2> QED BY <2>6, <2>7
<1>2. N \in Nat
  BY FS_CardinalityType
<1>3. Size(S) \in [SUBSET S -> 0..N]
  <2> HIDE DEF N
  <2> QED BY <1>1 DEF Size
<1> HIDE DEF N
<1>4. EdgeSums!Sizes(S, N, Size(S)) /\ LineSums!Sizes(S, N, Size(S))
  BY <1>1, <1>2, <1>3 DEF EdgeSums!Sizes, LineSums!Sizes
<1> QED BY <1>4 DEF N

\* The total of every part of a set, an element at a time in the order that CHOOSE has.
Totals(worth, S, h) ==
    \A T \in SUBSET S : h[T] = IF T = {} THEN 0 ELSE LET x == CHOOSE x \in T : TRUE
                                                     IN worth[x] + h[T \ {x}]

AnyOrder(worth, S, h) ==
    \A A \in SUBSET S : h[A] \in Int /\ \A x \in A : h[A] = worth[x] + h[A \ {x}]

\* Any other order gives the same total.
LEMMA TotalsInAnyOrder ==
    ASSUME NEW S, IsFiniteSet(S), NEW worth \in [S -> Int], NEW h, Totals(worth, S, h)
    PROVE  AnyOrder(worth, S, h)
<1> DEFINE Adds(T) == h[T] \in Int /\ \A x \in T : h[T] = worth[x] + h[T \ {x}]
           F == {T \in SUBSET S : \A U \in SUBSET T : Adds(U)}
<1>1. ASSUME NEW T \in SUBSET S, \A U \in SUBSET T : U # T => Adds(U)
      PROVE  Adds(T)
  <2>1. CASE T = {}
    <3>1. h[T] = 0
      BY <2>1 DEF Totals
    <3> QED BY <2>1, <3>1
  <2>2. CASE T # {}
    <3>1. PICK y \in T : h[T] = worth[y] + h[T \ {y}]
      <4>1. (CHOOSE x \in T : TRUE) \in T
        BY <2>2
      <4> QED BY <2>2, <4>1 DEF Totals
    <3>2. \A x \in T : worth[x] \in Int /\ T \ {x} \in SUBSET T /\ T \ {x} # T
      OBVIOUS
    <3>3. ASSUME NEW x \in T, x # y PROVE h[T] = worth[x] + h[T \ {x}]
      <4> DEFINE R == T \ {x, y}
      <4>1. /\ (T \ {y}) \ {x} = R /\ (T \ {x}) \ {y} = R /\ x \in T \ {y} /\ y \in T \ {x}
            /\ R \in SUBSET T /\ R # T
        BY <3>3
      <4>2. Adds(T \ {y}) /\ Adds(T \ {x}) /\ Adds(R)
        BY <1>1, <3>2, <4>1
      <4>3. h[T \ {y}] = worth[x] + h[R] /\ h[T \ {x}] = worth[y] + h[R] /\ h[R] \in Int
        BY <4>1, <4>2
      <4> QED BY <3>1, <3>2, <4>3
    <3>4. h[T] \in Int
      BY <1>1, <3>1, <3>2
    <3> QED BY <3>1, <3>3, <3>4
  <2> QED BY <2>1, <2>2
<1>2. ASSUME NEW T \in SUBSET S, \A x \in T : T \ {x} \in F PROVE T \in F
  <2>1. ASSUME NEW U \in SUBSET T, U # T PROVE Adds(U)
    <3>1. PICK x \in T : U \in SUBSET (T \ {x})
      BY <2>1
    <3>2. T \ {x} \in F
      BY <1>2
    <3> HIDE DEF Adds
    <3> QED BY <3>1, <3>2
  <2>2. Adds(T)
    <3> HIDE DEF Adds
    <3> QED BY <1>1, <2>1
  <2> HIDE DEF Adds
  <2> QED BY <2>1, <2>2
<1>3. SUBSET S \subseteq F
  <2>1. EdgeSums!Sizes(S, Cardinality(S), Size(S))
    BY FiniteSized
  <2>2. EdgeSums!Builds(S, F)
    <3> HIDE DEF F
    <3> QED BY <1>2 DEF EdgeSums!Builds
  <2> HIDE DEF F
  <2> QED BY <2>1, <2>2, EdgeSums!SubsetInduction
<1> QED BY <1>3 DEF AnyOrder

\* Sets whose members go together one by one, each with the other's worth, total the same.
Pairs(S, T, g) == T = {g[x] : x \in S} /\ \A x, y \in S : g[x] = g[y] => x = y

LEMMA SameTotal ==
    ASSUME NEW S, IsFiniteSet(S), NEW worth \in [S -> Int], NEW h, Totals(worth, S, h),
           NEW T, IsFiniteSet(T), NEW value \in [T -> Int], NEW i, Totals(value, T, i),
           NEW g, Pairs(S, T, g), \A x \in S : value[g[x]] = worth[x]
    PROVE  h[S] = i[T]
<1> DEFINE To(A) == {g[x] : x \in A}
           F == {A \in SUBSET S : h[A] = i[To(A)]}
<1>1. ASSUME NEW A \in SUBSET S, \A x \in A : A \ {x} \in F PROVE A \in F
  <2>0. To(A) \in SUBSET T
    BY DEF Pairs
  <2>1. CASE A = {}
    <3>1. To(A) = {}
      BY <2>1
    <3>2. h[A] = 0 /\ i[To(A)] = 0
      BY <2>0, <2>1, <3>1 DEF Totals
    <3> QED BY <3>2
  <2>2. CASE A # {}
    <3>1. PICK x : x \in A
      BY <2>2
    <3>2. To(A) \ {g[x]} = To(A \ {x}) /\ g[x] \in To(A)
      BY <3>1 DEF Pairs
    <3>3. h[A] = worth[x] + h[A \ {x}]
      BY <3>1, TotalsInAnyOrder DEF AnyOrder
    <3>4. i[To(A)] = value[g[x]] + i[To(A) \ {g[x]}]
      <4>1. AnyOrder(value, T, i)
        BY TotalsInAnyOrder
      <4> HIDE DEF To
      <4> QED BY <2>0, <3>2, <4>1 DEF AnyOrder
    <3>5. h[A \ {x}] = i[To(A \ {x})] /\ value[g[x]] = worth[x]
      BY <1>1, <3>1
    <3> HIDE DEF To
    <3> QED BY <3>2, <3>3, <3>4, <3>5
  <2> QED BY <2>1, <2>2
<1>2. SUBSET S \subseteq F
  <2>1. EdgeSums!Sizes(S, Cardinality(S), Size(S))
    BY FiniteSized
  <2>2. EdgeSums!Builds(S, F)
    <3> HIDE DEF F
    <3> QED BY <1>1 DEF EdgeSums!Builds
  <2> HIDE DEF F
  <2> QED BY <2>1, <2>2, EdgeSums!SubsetInduction
<1>3. S \in F /\ To(S) = T
  <2>1. To(S) = T
    BY DEF Pairs
  <2> HIDE DEF F
  <2> QED BY <1>2, <2>1
<1> QED BY <1>3

LEMMA SameCount ==
    ASSUME NEW S, IsFiniteSet(S), NEW T, NEW g, Pairs(S, T, g)
    PROVE  IsFiniteSet(T) /\ Cardinality(T) = Cardinality(S)
<1> DEFINE f == [x \in S |-> g[x]]
<1>1. f \in Bijection(S, T)
  BY DEF Pairs, Bijection, Injection, Surjection, IsInjective
<1> QED BY <1>1, FS_Bijection DEF ExistsBijection

Worth(line) == Known(line[1].awards[line[2]].value)
EdgeWorth(e) == Known(e.value)

LEMMA SameSums ==
    ASSUME NEW S, IsFiniteSet(S), NEW U, NEW g, Pairs(S, U, g),
           \A line \in S : Worth(line) \in Int /\ EdgeWorth(g[line]) = Worth(line)
    PROVE  EdgeTally(U) = [count |-> Cardinality(S), total |-> MapThenSumSet(Worth, S)]
<1>1. IsFiniteSet(U) /\ Cardinality(U) = Cardinality(S)
  BY SameCount
<1>2. PICK h : LineSums!SetSteps(0, 0, S, h) /\ LineSums!SetFold(0, 0, S) = h[S]
  BY FiniteSized, LineSums!SetFoldGoesThrough
<1>3. PICK i : EdgeSums!SetSteps(0, 0, U, i) /\ EdgeSums!SetFold(0, 0, U) = i[U]
  BY <1>1, FiniteSized, EdgeSums!SetFoldGoesThrough
<1> DEFINE worth == [line \in S |-> Worth(line)]
           value == [e \in U |-> EdgeWorth(e)]
<1>4. worth \in [S -> Int] /\ value \in [U -> Int] /\ \A x \in S : value[g[x]] = worth[x]
  BY DEF Pairs
<1>5. Totals(worth, S, h)
  <2>1. ASSUME NEW A \in SUBSET S, A # {} PROVE LET x == CHOOSE x \in A : TRUE
                                                IN h[A] = worth[x] + h[A \ {x}]
    BY <1>2, <2>1 DEF LineSums!SetSteps, LineSums!First, Worth
  <2>2. ASSUME NEW A \in SUBSET S, A = {} PROVE h[A] = 0
    BY <1>2, <2>2 DEF LineSums!SetSteps
  <2> HIDE DEF worth
  <2> QED BY <2>1, <2>2 DEF Totals
<1>6. Totals(value, U, i)
  <2>1. ASSUME NEW A \in SUBSET U, A # {} PROVE LET x == CHOOSE x \in A : TRUE
                                                IN i[A] = value[x] + i[A \ {x}]
    BY <1>3, <2>1 DEF EdgeSums!SetSteps, EdgeSums!First, EdgeWorth
  <2>2. ASSUME NEW A \in SUBSET U, A = {} PROVE i[A] = 0
    BY <1>3, <2>2 DEF EdgeSums!SetSteps
  <2> HIDE DEF value
  <2> QED BY <2>1, <2>2 DEF Totals
<1>7. h[S] = i[U]
  <2> HIDE DEF worth, value
  <2> QED BY <1>1, <1>4, <1>5, <1>6, SameTotal
<1>8. MapThenSumSet(Worth, S) = LineSums!SetFold(0, 0, S)
  BY DEF MapThenSumSet, MapThenFoldSet, LineSums!SetFold, LineSums!MapThenFoldSet, Worth
<1>9. MapThenSumSet(LAMBDA e : Known(e.value), U) = EdgeSums!SetFold(0, 0, U)
  BY DEF MapThenSumSet, MapThenFoldSet, EdgeSums!SetFold, EdgeSums!MapThenFoldSet
<1> QED BY <1>1, <1>2, <1>3, <1>7, <1>8, <1>9 DEF EdgeTally

-----------------------------------------------------------------------------
(* The graph: one node an ico, one notice a key, one edge a notice and a supplier; *)
(* what it holds of a notice comes of the versions that were merged.               *)

NodesOK(nodes) ==
    /\ \A v \in nodes : DOMAIN v = {"ico", "name_slug"}
    /\ \A u, v \in nodes : u.ico # None /\ u.ico = v.ico => u = v
ShapeOK(g) ==
    /\ DOMAIN g = {"procurers", "suppliers", "notices", "issued", "awarded"}
    /\ NodesOK(g.procurers) /\ NodesOK(g.suppliers)
    /\ \A v \in g.notices : DOMAIN v = {"key", "day", "cpv_code", "final_value"}
    /\ \A u, v \in g.notices : u.key = v.key => u = v
    /\ \A i \in g.issued : i = <<i[1], i[2]>> /\ i[1] \in g.procurers
    /\ \A e \in g.awarded : e.supplier \in g.suppliers
    /\ \A e, f \in g.awarded : e.key = f.key /\ e.supplier = f.supplier => e = f

\* Notice by notice: what the graph took from one, and what it shows of one.
IssuedBy(i, n) ==
    /\ i[2] = KeyOf(n) /\ n.procurer # None
    /\ n.procurer.ico # None => i[1].ico = n.procurer.ico
AwardedBy(e, n) ==
    /\ e.key = KeyOf(n)
    /\ \E k \in DOMAIN n.awards :
          /\ e.value = n.awards[k].value
          /\ n.awards[k].supplier.ico # None => e.supplier.ico = n.awards[k].supplier.ico
TakenFrom(v, n) == v.key = KeyOf(n) /\ v.day = n.publication_date /\ v.cpv_code = n.cpv_code

\* W are the notices merged whole, H the keys of those that an error cut short.
SourcedOK(g, W, H) ==
    /\ \A i \in g.issued : i[2] \notin H => \E n \in W : IssuedBy(i, n)
    /\ \A e \in g.awarded : e.key \notin H => \E n \in W : AwardedBy(e, n)
    /\ \A v \in g.notices : v.key \notin H => \E n \in W : TakenFrom(v, n)
SoundGraph(g, W, H) == ShapeOK(g) /\ SourcedOK(g, W, H)

ShowsNode(g, n) == \E v \in g.notices : v.key = KeyOf(n)
ShowsBuyer(g, n) ==
    n.procurer # None /\ n.procurer.ico # None =>
        \E i \in g.issued : i[2] = KeyOf(n) /\ i[1].ico = n.procurer.ico
ShowsAward(g, n, k) ==
    n.awards[k].supplier.ico # None =>
        \E e \in g.awarded : e.key = KeyOf(n) /\ e.supplier.ico = n.awards[k].supplier.ico
Shows(g, n) == ShowsNode(g, n) /\ ShowsBuyer(g, n) /\ \A k \in DOMAIN n.awards : ShowsAward(g, n, k)

\* Nothing in a graph is taken out of it.
Extends(h, g) ==
    /\ \A v \in g.notices : \E w \in h.notices : w.key = v.key
    /\ g.issued \subseteq h.issued /\ g.awarded \subseteq h.awarded

LEMMA ShowsStay ==
    ASSUME NEW g, NEW h, Extends(h, g)
    PROVE  /\ \A n : ShowsNode(g, n) => ShowsNode(h, n)
           /\ \A n : ShowsBuyer(g, n) => ShowsBuyer(h, n)
           /\ \A n, k : ShowsAward(g, n, k) => ShowsAward(h, n, k)
           /\ \A n : Shows(g, n) => Shows(h, n)
<1>1. ASSUME NEW n, ShowsNode(g, n) PROVE ShowsNode(h, n)
  <2>1. PICK v \in g.notices : v.key = KeyOf(n)
    BY <1>1 DEF ShowsNode
  <2>2. PICK w \in h.notices : w.key = v.key
    BY DEF Extends
  <2> QED BY <2>1, <2>2 DEF ShowsNode
<1>2. ASSUME NEW n, ShowsBuyer(g, n) PROVE ShowsBuyer(h, n)
  BY <1>2 DEF ShowsBuyer, Extends
<1>3. ASSUME NEW n, NEW k, ShowsAward(g, n, k) PROVE ShowsAward(h, n, k)
  BY <1>3 DEF ShowsAward, Extends
<1>4. ASSUME NEW n, Shows(g, n) PROVE Shows(h, n)
  BY <1>1, <1>2, <1>3, <1>4 DEF Shows
<1> QED BY <1>1, <1>2, <1>3, <1>4

LEMMA ExtendsOn ==
    ASSUME NEW g, NEW h, NEW i, Extends(h, g), Extends(i, h)
    PROVE  Extends(i, g)
<1>1. ASSUME NEW v \in g.notices PROVE \E w \in i.notices : w.key = v.key
  <2>1. PICK u \in h.notices : u.key = v.key
    BY DEF Extends
  <2>2. PICK w \in i.notices : w.key = u.key
    BY DEF Extends
  <2> QED BY <2>1, <2>2
<1> QED BY <1>1 DEF Extends

LEMMA NodeMerged ==
    ASSUME NEW nodes, NodesOK(nodes), NEW org, NEW m, m = merge_node(nodes, org)
    PROVE  /\ NodesOK(m) /\ nodes \subseteq m
           /\ MATCH(m, org) # {} /\ MATCH(m, org) \subseteq m
           /\ org.ico # None => \A v \in MATCH(m, org) : v.ico = org.ico
<1>1. MATCH(m, org) \subseteq m /\ (org.ico # None => \A v \in MATCH(m, org) : v.ico = org.ico)
  BY DEF MATCH
<1>2. CASE MATCH(nodes, org) # {}
  BY <1>1, <1>2 DEF merge_node
<1>3. CASE MATCH(nodes, org) = {}
  <2>1. m = nodes \cup {Node(org)}
    BY <1>3 DEF merge_node
  <2>2. /\ DOMAIN Node(org) = {"ico", "name_slug"}
        /\ Node(org).ico = org.ico /\ Node(org).name_slug = org.name_slug
    BY DEF Node
  <2>3. org.ico # None => \A v \in nodes : v.ico # org.ico
    BY <1>3 DEF MATCH
  <2>4. NodesOK(m)
    BY <2>1, <2>2, <2>3 DEF NodesOK
  <2>5. Node(org) \in MATCH(m, org)
    BY <2>1, <2>2 DEF MATCH
  <2> QED BY <1>1, <2>1, <2>4, <2>5
<1> QED BY <1>2, <1>3

LEMMA NoticeNodeMerged ==
    ASSUME NEW g, NEW W, NEW H, SoundGraph(g, W, H), NEW n, n \in W \/ KeyOf(n) \in H,
           NEW h, h = merge_notice_node(g, n)
    PROVE  SoundGraph(h, W, H) /\ Extends(h, g) /\ ShowsNode(h, n)
<1> DEFINE found == {v \in g.notices : v.key = KeyOf(n)}
           fresh == [key |-> KeyOf(n), day |-> n.publication_date, cpv_code |-> n.cpv_code,
                     final_value |-> n.final_value]
           old == CHOOSE v \in found : TRUE
           new == IF found = {} THEN fresh ELSE [old EXCEPT !.final_value = n.final_value]
<1>1. /\ DOMAIN h = DOMAIN g /\ h.notices = (g.notices \ found) \cup {new}
      /\ h.procurers = g.procurers /\ h.suppliers = g.suppliers
      /\ h.issued = g.issued /\ h.awarded = g.awarded
  <2> HIDE DEF found, new
  <2>1. h = [g EXCEPT !.notices = (@ \ found) \cup {new}]
    BY DEF merge_notice_node, found, new
  <2> QED BY <2>1 DEF SoundGraph, ShapeOK
<1>2. /\ DOMAIN new = {"key", "day", "cpv_code", "final_value"} /\ new.key = KeyOf(n)
      /\ new.key \notin H => \E m \in W : TakenFrom(new, m)
  <2>1. CASE found = {}
    <3>1. new = fresh
      BY <2>1
    <3>2. /\ DOMAIN fresh = {"key", "day", "cpv_code", "final_value"} /\ fresh.key = KeyOf(n)
          /\ TakenFrom(fresh, n)
      BY DEF TakenFrom
    <3> HIDE DEF new, fresh
    <3> QED BY <3>1, <3>2
  <2>2. CASE found # {}
    <3>1. old \in g.notices /\ old.key = KeyOf(n)
      BY <2>2
    <3>2. DOMAIN old = {"key", "day", "cpv_code", "final_value"}
      BY <3>1 DEF SoundGraph, ShapeOK
    <3> HIDE DEF old, found
    <3>3. new = [old EXCEPT !.final_value = n.final_value]
      BY <2>2
    <3> HIDE DEF new
    <3>4. /\ DOMAIN new = DOMAIN old
          /\ new.key = old.key /\ new.day = old.day /\ new.cpv_code = old.cpv_code
      BY <3>2, <3>3
    <3>5. ASSUME new.key \notin H PROVE \E m \in W : TakenFrom(new, m)
      <4>1. PICK m \in W : TakenFrom(old, m)
        BY <3>1, <3>4, <3>5 DEF SoundGraph, SourcedOK
      <4> QED BY <3>4, <4>1 DEF TakenFrom
    <3> QED BY <3>1, <3>2, <3>4, <3>5
  <2> QED BY <2>1, <2>2
<1>3. \A v \in g.notices \ found : v \in g.notices /\ v.key # KeyOf(n)
  OBVIOUS
<1>4. \A v \in g.notices : v \in found => v.key = KeyOf(n)
  OBVIOUS
<1> HIDE DEF found, new
<1>5. ShapeOK(h)
  BY <1>1, <1>2, <1>3 DEF SoundGraph, ShapeOK
<1>6. SourcedOK(h, W, H)
  BY <1>1, <1>2, <1>3 DEF SoundGraph, SourcedOK
<1>7. Extends(h, g)
  BY <1>1, <1>2, <1>4 DEF Extends
<1>8. ShowsNode(h, n)
  BY <1>1, <1>2 DEF ShowsNode
<1> QED BY <1>5, <1>6, <1>7, <1>8 DEF SoundGraph

LEMMA ProcurerMerged ==
    ASSUME NEW g, NEW W, NEW H, SoundGraph(g, W, H), NEW n, n \in W \/ KeyOf(n) \in H,
           NEW h, h = merge_procurer(g, n)
    PROVE  SoundGraph(h, W, H) /\ Extends(h, g) /\ ShowsBuyer(h, n)
<1>1. CASE n.procurer = None
  BY <1>1 DEF merge_procurer, Extends, ShowsBuyer
<1>2. CASE n.procurer # None
  <2> DEFINE nodes == merge_node(g.procurers, n.procurer)
             hit == MATCH(nodes, n.procurer)
             new == {<<p, KeyOf(n)>> : p \in hit}
  <2>1. /\ NodesOK(nodes) /\ g.procurers \subseteq nodes /\ hit # {} /\ hit \subseteq nodes
        /\ n.procurer.ico # None => \A v \in hit : v.ico = n.procurer.ico
    BY NodeMerged DEF SoundGraph, ShapeOK
  <2> HIDE DEF nodes, hit
  <2>2. /\ DOMAIN h = DOMAIN g /\ h.procurers = nodes /\ h.issued = g.issued \cup new
        /\ h.suppliers = g.suppliers /\ h.notices = g.notices /\ h.awarded = g.awarded
    <3>1. h = [g EXCEPT !.procurers = nodes, !.issued = @ \cup new]
      BY <1>2 DEF merge_procurer, nodes, hit
    <3> HIDE DEF new
    <3> QED BY <3>1 DEF SoundGraph, ShapeOK
  <2>3. \A i \in new : i = <<i[1], i[2]>> /\ i[1] \in nodes /\ i[2] = KeyOf(n) /\ IssuedBy(i, n)
    BY <1>2, <2>1 DEF IssuedBy
  <2>4. new # {} /\ \A i \in new : i[1] \in hit
    <3>1. PICK p : p \in hit
      BY <2>1
    <3>2. <<p, KeyOf(n)>> \in new
      BY <3>1
    <3>3. \A i \in new : i[1] \in hit
      OBVIOUS
    <3> QED BY <3>2, <3>3
  <2> HIDE DEF new
  <2>5. ShapeOK(h)
    BY <2>1, <2>2, <2>3 DEF SoundGraph, ShapeOK
  <2>6. SourcedOK(h, W, H)
    BY <2>2, <2>3 DEF SoundGraph, SourcedOK
  <2>7. Extends(h, g)
    BY <2>2 DEF Extends
  <2>8. ShowsBuyer(h, n)
    BY <2>1, <2>2, <2>3, <2>4 DEF ShowsBuyer
  <2> QED BY <2>5, <2>6, <2>7, <2>8 DEF SoundGraph
<1> QED BY <1>1, <1>2

LEMMA AwardMerged ==
    ASSUME NEW g, NEW W, NEW H, SoundGraph(g, W, H), NEW n, n \in W \/ KeyOf(n) \in H,
           NEW k \in DOMAIN n.awards, NEW h, h = merge_award(g, n, n.awards[k])
    PROVE  SoundGraph(h, W, H) /\ Extends(h, g) /\ ShowsAward(h, n, k)
<1> DEFINE org == n.awards[k].supplier
           nodes == merge_node(g.suppliers, org)
           hit == MATCH(nodes, org)
           late == {s \in hit : ~\E e \in g.awarded : e.key = KeyOf(n) /\ e.supplier = s}
           new == {[key |-> KeyOf(n), supplier |-> s, value |-> n.awards[k].value] : s \in late}
<1>1. /\ NodesOK(nodes) /\ g.suppliers \subseteq nodes /\ hit # {} /\ hit \subseteq nodes
      /\ org.ico # None => \A v \in hit : v.ico = org.ico
  <2>1. NodesOK(g.suppliers)
    BY DEF SoundGraph, ShapeOK
  <2> HIDE DEF org
  <2> QED BY <2>1, NodeMerged
<1> HIDE DEF nodes, hit
<1>2. /\ DOMAIN h = DOMAIN g /\ h.suppliers = nodes /\ h.awarded = g.awarded \cup new
      /\ h.procurers = g.procurers /\ h.notices = g.notices /\ h.issued = g.issued
  <2>1. h = [g EXCEPT !.suppliers = nodes, !.awarded = @ \cup new]
    BY DEF merge_award, nodes, hit
  <2> HIDE DEF new
  <2> QED BY <2>1 DEF SoundGraph, ShapeOK
<1>3. \A e \in new : /\ e.key = KeyOf(n) /\ e.supplier \in late /\ e.value = n.awards[k].value
  OBVIOUS
<1>4. \A e, f \in new : e.supplier = f.supplier => e = f
  OBVIOUS
<1>5. \A s \in late : /\ s \in hit /\ \E e \in new : e.key = KeyOf(n) /\ e.supplier = s
                      /\ \A e \in g.awarded : ~(e.key = KeyOf(n) /\ e.supplier = s)
  <2>1. ASSUME NEW s \in late PROVE \E e \in new : e.key = KeyOf(n) /\ e.supplier = s
    <3> DEFINE e == [key |-> KeyOf(n), supplier |-> s, value |-> n.awards[k].value]
    <3>1. e \in new /\ e.key = KeyOf(n) /\ e.supplier = s
      OBVIOUS
    <3> HIDE DEF e, new
    <3> QED BY <3>1
  <2> HIDE DEF new
  <2> QED BY <2>1
<1>6. \A s \in hit : s \notin late => \E e \in g.awarded : e.key = KeyOf(n) /\ e.supplier = s
  OBVIOUS
<1> HIDE DEF new, late
<1>7. ShapeOK(h)
  <2>1. \A e \in h.awarded : e.supplier \in h.suppliers
    BY <1>1, <1>2, <1>3, <1>5 DEF SoundGraph, ShapeOK
  <2>2. \A e, f \in h.awarded : e.key = f.key /\ e.supplier = f.supplier => e = f
    BY <1>2, <1>3, <1>4, <1>5 DEF SoundGraph, ShapeOK
  <2> QED BY <1>1, <1>2, <2>1, <2>2 DEF SoundGraph, ShapeOK
<1>8. SourcedOK(h, W, H)
  <2>1. \A e \in new : AwardedBy(e, n)
    BY <1>1, <1>3, <1>5 DEF AwardedBy
  <2> QED BY <1>2, <1>3, <2>1 DEF SoundGraph, SourcedOK
<1>9. Extends(h, g)
  BY <1>2 DEF Extends
<1>10. ShowsAward(h, n, k)
  <2>1. PICK s \in hit : TRUE
    BY <1>1
  <2>2. PICK e \in h.awarded : e.key = KeyOf(n) /\ e.supplier = s
    BY <1>2, <1>5, <1>6
  <2>3. org.ico # None => e.supplier.ico = org.ico
    BY <1>1, <2>2
  <2> QED BY <2>2, <2>3 DEF ShowsAward
<1> QED BY <1>7, <1>8, <1>9, <1>10 DEF SoundGraph

\* The loops of the merge: over the awards of a notice, over the notices of a batch.
Awarding == INSTANCE Folding WITH
    Op <- LAMBDA n, g, award : merge_award(g, n, award), Good <- LAMBDA n, g : TRUE
Merging == INSTANCE Folding WITH
    Op <- LAMBDA c, g, n : merge_notice(g, n, IF KeyOf(n) \in c.failing THEN c.done ELSE 3),
    Good <- LAMBDA c, g : TRUE

AwardsOf(g, n) == FoldLeft(LAMBDA v, a : merge_award(v, n, a), g, n.awards)

LEMMA AwardsFold ==
    ASSUME NEW g, NEW n
    PROVE  AwardsOf(g, n) = Awarding!Fold(n, g, n.awards)
BY DEF AwardsOf, FoldLeft, MapThenFoldSet, Max,
       Awarding!Fold, Awarding!MapThenFoldSet, Awarding!Greatest

LEMMA BatchFold ==
    ASSUME NEW g, NEW batch, NEW failing, NEW done, NEW c, c.failing = failing, c.done = done
    PROVE  merge_notice_batch(g, batch, failing, done) = Merging!Fold(c, g, batch)
BY DEF merge_notice_batch, FoldLeft, MapThenFoldSet, Max,
       Merging!Fold, Merging!MapThenFoldSet, Merging!Greatest

LEMMA AwardsMerged ==
    ASSUME NEW g, NEW W, NEW H, SoundGraph(g, W, H), NEW n, IsNotice(n), n \in W \/ KeyOf(n) \in H
    PROVE  LET h == AwardsOf(g, n)
           IN SoundGraph(h, W, H) /\ Extends(h, g) /\ \A k \in DOMAIN n.awards : ShowsAward(h, n, k)
<1> DEFINE s == n.awards
           N == Len(s)
<1>1. s \in Seq(ToSet(s)) /\ N \in Nat /\ DOMAIN s = 1..N
  <2>1. IsList(s)
    BY DEF IsNotice
  <2> QED BY <2>1, LengthOfList DEF IsList
<1>2. PICK f : Awarding!Steps(n, g, s, f) /\ Awarding!Fold(n, g, s) = f[N]
  BY <1>1, Awarding!FoldGoesThrough
<1> DEFINE Reached(k) == /\ SoundGraph(f[k], W, H) /\ Extends(f[k], g)
                         /\ \A j \in 1..k : ShowsAward(f[k], n, j)
           K == {k \in 0..N : Reached(k)}
<1> HIDE DEF s, N
<1>3. 0 \in K
  <2>1. f[0] = g /\ Extends(g, g)
    BY <1>2 DEF Awarding!Steps, Extends
  <2> QED BY <1>1, <2>1
<1>4. ASSUME NEW k \in 1..N, k - 1 \in K PROVE k \in K
  <2>1. f[k] = merge_award(f[k - 1], n, s[k])
    BY <1>2, <1>4 DEF Awarding!Steps, N
  <2>2. Reached(k - 1)
    BY <1>4
  <2>3. SoundGraph(f[k], W, H) /\ Extends(f[k], f[k - 1]) /\ ShowsAward(f[k], n, k)
    <3>1. k \in DOMAIN n.awards /\ s[k] = n.awards[k]
      BY <1>1 DEF s
    <3> QED BY <2>1, <2>2, <3>1, AwardMerged
  <2>4. Extends(f[k], g)
    BY <2>2, <2>3, ExtendsOn
  <2>5. ASSUME NEW j \in 1..k PROVE ShowsAward(f[k], n, j)
    <3>1. CASE j = k
      BY <2>3, <3>1
    <3>2. CASE j # k
      <4>1. ShowsAward(f[k - 1], n, j)
        <5>1. j \in 1..(k - 1)
          BY <1>1, <3>2
        <5> QED BY <2>2, <5>1
      <4> QED BY <2>3, <4>1, ShowsStay
    <3> QED BY <3>1, <3>2
  <2> QED BY <1>1, <2>3, <2>4, <2>5
<1>5. N \in K
  <2>1. Awarding!Hereditary(K, N)
    <3> HIDE DEF K
    <3> QED BY <1>3, <1>4 DEF Awarding!Hereditary
  <2> HIDE DEF K
  <2> QED BY <1>1, <2>1, Awarding!BoundedInduction
<1>6. AwardsOf(g, n) = f[N]
  BY <1>2, AwardsFold DEF s
<1> QED BY <1>1, <1>5, <1>6 DEF s

\* All the phases of a notice, or as many as were run before an error.
LEMMA NoticeMerged ==
    ASSUME NEW g, NEW W, NEW H, SoundGraph(g, W, H), NEW n, IsNotice(n), n \in W \/ KeyOf(n) \in H,
           NEW done \in 0..3, NEW h, h = merge_notice(g, n, done)
    PROVE  SoundGraph(h, W, H) /\ Extends(h, g) /\ (done = 3 => Shows(h, n))
<1> DEFINE g1 == IF done >= 1 THEN merge_notice_node(g, n) ELSE g
           g2 == IF done >= 2 THEN merge_procurer(g1, n) ELSE g1
<1>1. h = IF done < 3 THEN g2 ELSE AwardsOf(g2, n)
  BY DEF merge_notice, AwardsOf
<1>2. Extends(g, g) /\ Extends(g1, g1) /\ Extends(g2, g2)
  BY DEF Extends
<1>3. SoundGraph(g1, W, H) /\ Extends(g1, g) /\ (done >= 1 => ShowsNode(g1, n))
  BY <1>2, NoticeNodeMerged
<1> HIDE DEF g1
<1>4. SoundGraph(g2, W, H) /\ Extends(g2, g1) /\ (done >= 2 => ShowsBuyer(g2, n))
  BY <1>2, <1>3, ProcurerMerged
<1> HIDE DEF g2
<1>5. Extends(g2, g)
  BY <1>3, <1>4, ExtendsOn
<1>6. CASE done < 3
  BY <1>1, <1>4, <1>5, <1>6
<1>7. CASE ~(done < 3)
  <2>1. SoundGraph(h, W, H) /\ Extends(h, g2) /\ \A k \in DOMAIN n.awards : ShowsAward(h, n, k)
    BY <1>1, <1>4, <1>7, AwardsMerged
  <2>2. Extends(h, g)
    BY <1>5, <2>1, ExtendsOn
  <2>3. ShowsNode(g2, n) /\ ShowsBuyer(g2, n)
    BY <1>3, <1>4, <1>7, ShowsStay
  <2>4. Shows(h, n)
    BY <2>1, <2>3, ShowsStay DEF Shows
  <2> QED BY <2>1, <2>2, <2>4
<1> QED BY <1>6, <1>7

LEMMA BatchMerged ==
    ASSUME NEW g, NEW W, NEW H, SoundGraph(g, W, H), NEW batch, AreNotices(batch),
           NEW failing, failing \subseteq H, NEW done \in 0..3,
           \A n \in ToSet(batch) : KeyOf(n) \notin failing => n \in W
    PROVE  LET h == merge_notice_batch(g, batch, failing, done)
           IN /\ SoundGraph(h, W, H) /\ Extends(h, g)
              /\ \A n \in ToSet(batch) : KeyOf(n) \notin failing => Shows(h, n)
<1> DEFINE N == Len(batch)
           c == [failing |-> failing, done |-> done]
           Phases(n) == IF KeyOf(n) \in failing THEN done ELSE 3
<1>1. batch \in Seq(ToSet(batch)) /\ N \in Nat /\ DOMAIN batch = 1..N
      /\ \A k \in 1..N : IsNotice(batch[k]) /\ batch[k] \in ToSet(batch)
  <2>1. IsList(batch) /\ \A k \in DOMAIN batch : IsNotice(batch[k])
    BY DEF AreNotices
  <2> QED BY <2>1, LengthOfList DEF IsList, ToSet
<1>2. PICK f : Merging!Steps(c, g, batch, f) /\ Merging!Fold(c, g, batch) = f[N]
  BY <1>1, Merging!FoldGoesThrough
<1> DEFINE Shown(h, k) == \A j \in 1..k : KeyOf(batch[j]) \notin failing => Shows(h, batch[j])
           Reached(k) == SoundGraph(f[k], W, H) /\ Extends(f[k], g) /\ Shown(f[k], k)
           K == {k \in 0..N : Reached(k)}
<1> HIDE DEF N
<1>3. 0 \in K
  <2>1. f[0] = g /\ Extends(g, g)
    BY <1>2 DEF Merging!Steps, Extends
  <2> QED BY <1>1, <2>1
<1>4. ASSUME NEW k \in 1..N, k - 1 \in K PROVE k \in K
  <2>1. f[k] = merge_notice(f[k - 1], batch[k], Phases(batch[k]))
    BY <1>2, <1>4 DEF Merging!Steps, N
  <2>2. Reached(k - 1)
    BY <1>4
  <2>3. /\ SoundGraph(f[k], W, H) /\ Extends(f[k], f[k - 1])
        /\ KeyOf(batch[k]) \notin failing => Shows(f[k], batch[k])
    <3>1. IsNotice(batch[k]) /\ (batch[k] \in W \/ KeyOf(batch[k]) \in H)
      BY <1>1
    <3>2. Phases(batch[k]) \in 0..3 /\ (KeyOf(batch[k]) \notin failing => Phases(batch[k]) = 3)
      OBVIOUS
    <3> HIDE DEF Phases, Shown
    <3> QED BY <2>1, <2>2, <3>1, <3>2, NoticeMerged
  <2>4. Extends(f[k], g)
    BY <2>2, <2>3, ExtendsOn
  <2>5. ASSUME NEW j \in 1..k, KeyOf(batch[j]) \notin failing PROVE Shows(f[k], batch[j])
    <3>1. CASE j = k
      BY <2>3, <2>5, <3>1
    <3>2. CASE j # k
      <4>1. Shows(f[k - 1], batch[j])
        <5>1. j \in 1..(k - 1)
          BY <1>1, <3>2
        <5> QED BY <2>2, <2>5, <5>1
      <4> QED BY <2>3, <4>1, ShowsStay
    <3> QED BY <3>1, <3>2
  <2> QED BY <1>1, <2>3, <2>4, <2>5
<1>5. N \in K
  <2>1. Merging!Hereditary(K, N)
    <3> HIDE DEF K
    <3> QED BY <1>3, <1>4 DEF Merging!Hereditary
  <2> HIDE DEF K
  <2> QED BY <1>1, <2>1, Merging!BoundedInduction
<1>6. merge_notice_batch(g, batch, failing, done) = f[N]
  BY <1>2, BatchFold
<1>7. \A n \in ToSet(batch) : \E k \in 1..N : n = batch[k]
  BY <1>1 DEF ToSet
<1> QED BY <1>5, <1>6, <1>7

-----------------------------------------------------------------------------
(* The invariant of the graph *)

GraphOK ==
    /\ PastOK
    /\ IsFiniteSet(past.merged) /\ \A n \in past.merged : IsNotice(n) /\ Shows(graph, n)
    /\ SoundGraph(graph, past.merged, past.harmed)

LEMMA GraphInit == Init => GraphOK
<1> SUFFICES ASSUME Init PROVE GraphOK
  OBVIOUS
<1>1. graph = EmptyGraph /\ past.merged = {} /\ PastOK
  BY DEF Init, PastOK
<1>2. SoundGraph(graph, past.merged, past.harmed)
  BY <1>1 DEF EmptyGraph, SoundGraph, ShapeOK, SourcedOK, NodesOK
<1> QED BY <1>1, <1>2, FS_EmptySet DEF GraphOK

\* A step that leaves the graph alone only adds to what came to grief.
LEMMA GraphLeftAlone ==
    ASSUME GraphOK, PastOK', graph' = graph,
           past'.merged = past.merged, past.harmed \subseteq past'.harmed
    PROVE  GraphOK'
<1>1. SoundGraph(graph, past.merged, past'.harmed)
  BY DEF GraphOK, SoundGraph, SourcedOK
<1> QED BY <1>1 DEF GraphOK

LEMMA MergeGraphKeepsGraph ==
    ASSUME Inv, GraphOK, MergeGraph
    PROVE  GraphOK'
<1>1. RunOK(Bulletins, run) /\ run.step = "graph"
  BY InProgress DEF MergeGraph, RunSteps
<1>2. PICK failed, done :
         /\ done \in {0, 1, 2}
         /\ graph' = merge_notice_batch(graph, run.buffer, failed, done)
         /\ past' = LET whole == {n \in ToSet(run.buffer) : KeyOf(n) \notin failed}
                        ghost == [past EXCEPT !.merged = @ \cup whole, !.harmed = @ \cup failed]
                    IN IF failed = {} THEN ghost ELSE Faulty(ghost)
  BY DEF MergeGraph
<1>3. PICK whole : whole = {n \in ToSet(run.buffer) : KeyOf(n) \notin failed}
  OBVIOUS
<1>4. /\ PastOK' /\ past'.harmed = past.harmed \cup failed /\ past'.merged = past.merged \cup whole
  <2>1. PICK ghost : ghost = [past EXCEPT !.merged = @ \cup whole, !.harmed = @ \cup failed]
    OBVIOUS
  <2>2. /\ DOMAIN ghost = {"runs", "faults", "late", "harmed", "merged", "behind"}
        /\ ghost.harmed = past.harmed \cup failed /\ ghost.merged = past.merged \cup whole
    BY <2>1 DEF GraphOK, PastOK
  <2>3. past' = IF failed = {} THEN ghost ELSE Faulty(ghost)
    BY <1>2, <1>3, <2>1
  <2>4. CASE failed = {}
    BY <2>2, <2>3, <2>4 DEF PastOK
  <2>5. CASE failed # {}
    BY <2>2, <2>3, <2>5 DEF PastOK, Faulty
  <2> QED BY <2>4, <2>5
<1> DEFINE W == past.merged \cup whole
           H == past.harmed \cup failed
<1>5. SoundGraph(graph, W, H)
  BY DEF GraphOK, SoundGraph, SourcedOK
<1>6. AreNotices(run.buffer) /\ failed \subseteq H /\ done \in 0..3
      /\ \A n \in ToSet(run.buffer) : KeyOf(n) \notin failed => n \in W /\ n \in whole
  <2>1. AreNotices(run.buffer)
    BY <1>1 DEF RunOK
  <2>2. done \in 0..3
    BY <1>2
  <2>3. \A n \in ToSet(run.buffer) : KeyOf(n) \notin failed => n \in whole
    BY <1>3
  <2> QED BY <2>1, <2>2, <2>3
<1>7. /\ SoundGraph(graph', W, H) /\ Extends(graph', graph)
      /\ \A n \in ToSet(run.buffer) : KeyOf(n) \notin failed => Shows(graph', n)
  <2> HIDE DEF W, H
  <2> QED BY <1>2, <1>5, <1>6, BatchMerged
<1>8. \A n \in whole : IsNotice(n) /\ n \in ToSet(run.buffer) /\ KeyOf(n) \notin failed
  BY <1>3, <1>6 DEF AreNotices, ToSet
<1>9. \A n \in past.merged : IsNotice(n) /\ Shows(graph', n)
  BY <1>7, ShowsStay DEF GraphOK
<1>10. IsFiniteSet(W)
  <2>1. IsFiniteSet(ToSet(run.buffer))
    <3>1. IsList(run.buffer)
      BY <1>6 DEF AreNotices
    <3> DEFINE s == run.buffer
    <3>2. Len(s) \in Nat /\ DOMAIN s = 1..Len(s) /\ s = [k \in DOMAIN s |-> s[k]]
      BY <3>1, LengthOfList
    <3>3. IsFiniteSet(1..Len(s))
      <4>1. Len(s) \in Int /\ 1 \in Int
        BY <3>2
      <4> HIDE DEF s
      <4> QED BY <4>1, FS_Interval
    <3>4. IsFiniteSet(DOMAIN s)
      BY <3>2, <3>3
    <3> HIDE DEF s
    <3>5. IsFiniteSet({s[k] : k \in DOMAIN s})
      BY <3>2, <3>4, FiniteImage
    <3> QED BY <3>5 DEF ToSet, s
  <2>2. IsFiniteSet(whole)
    BY <1>3, <2>1, FS_Subset
  <2> QED BY <2>2, FS_Union DEF GraphOK
<1> QED BY <1>4, <1>7, <1>8, <1>9, <1>10 DEF GraphOK

LEMMA GraphNext == Inv /\ GraphOK /\ [Next]_vars => GraphOK'
<1> SUFFICES ASSUME Inv, GraphOK, [Next]_vars PROVE GraphOK'
  OBVIOUS
<1>p. DOMAIN past = {"runs", "faults", "late", "harmed", "merged", "behind"}
  BY DEF GraphOK, PastOK
<1> DEFINE Same == graph' = graph /\ past' = past
           Adds == /\ graph' = graph /\ PastOK' /\ past'.merged = past.merged
                   /\ past.harmed \subseteq past'.harmed
<1>a. ASSUME Same PROVE GraphOK'
  BY <1>a, GraphLeftAlone DEF GraphOK, PastOK
<1>b. ASSUME Adds PROVE GraphOK'
  BY <1>b, GraphLeftAlone
<1>1. ASSUME NEW r \in Releases, Release(r) PROVE Same
  BY <1>1 DEF Release, Publish
<1>2. CASE NextDay
  BY <1>2, <1>a DEF NextDay, Publish
<1>3. ASSUME NEW mode, Start(mode) PROVE Adds
  BY <1>3, <1>p DEF Start, PastOK
<1>4. CASE \/ OpenSource \/ FetchedBulletins \/ SaveEntities \/ SaveCheckpoint
           \/ MatchPass \/ UNCHANGED vars
  BY <1>4, <1>a DEF OpenSource, FetchedBulletins, SaveEntities, SaveCheckpoint, MatchPass, vars
<1>5. ASSUME FetchBulletin PROVE Adds
  <2>1. graph' = graph /\ (past' = past \/ \E S : past' = Faulty([past EXCEPT !.harmed = @ \cup S]))
    BY <1>5 DEF FetchBulletin
  <2> QED BY <1>p, <2>1 DEF Faulty, PastOK
<1>6. ASSUME FetchItems PROVE Adds
  <2>1. graph' = graph /\ (past' = past \/ \E S : past' = Faulty([past EXCEPT !.harmed = @ \cup S]))
    BY <1>6 DEF FetchItems
  <2> QED BY <1>p, <2>1 DEF Faulty, PastOK
<1>7. ASSUME SaveNotices PROVE Adds
  <2>1. graph' = graph /\ (past' = past \/ \E S : past' = Faulty([past EXCEPT !.harmed = @ \cup S]))
    BY <1>7 DEF SaveNotices
  <2> QED BY <1>p, <2>1 DEF Faulty, PastOK
<1>8. ASSUME SaveRegistry PROVE Adds
  <2>1. graph' = graph /\ (past' = past \/ \E S : past' = Faulty([past EXCEPT !.behind = @ \cup S]))
    BY <1>8 DEF SaveRegistry
  <2> QED BY <1>p, <2>1 DEF Faulty, PastOK
<1>9. ASSUME Finish PROVE Adds
  BY <1>9, <1>p DEF Finish, PastOK
<1>10. ASSUME Abort PROVE Adds
  <2>1. graph' = graph /\ \E S : past' = Faulty([past EXCEPT !.behind = S])
    BY <1>10 DEF Abort
  <2> QED BY <1>p, <2>1 DEF Faulty, PastOK
<1>11. CASE MergeGraph
  BY <1>11, MergeGraphKeepsGraph
<1> HIDE DEF Same, Adds
<1> QED BY <1>a, <1>b, <1>1, <1>2, <1>3, <1>4, <1>5, <1>6, <1>7, <1>8, <1>9, <1>10, <1>11 DEF Next

LEMMA GraphInvariant == Spec => [](Inv /\ GraphOK)
BY InvInit, InvNext, GraphInit, GraphNext, PTL DEF Spec

-----------------------------------------------------------------------------
(* What a plain document and the graph have in common: their lines, an award each, *)
(* and the edges.                                                                  *)

PlainDocs == {d \in db.store : d.procurer # None /\ Plain(d)}
PlainKeys == {KeyOf(d) : d \in PlainDocs}
PlainLines == UNION {{<<d, k>> : k \in DOMAIN d.awards} : d \in PlainDocs}
Buyer(line) == line[1].procurer.ico
Winner(line) == line[1].awards[line[2]].supplier.ico
Between(p, s) == {line \in PlainLines : Buyer(line) = p /\ Winner(line) = s}

Alike(m, n) == compute_notice_hash(m) = compute_notice_hash(n)

LEMMA AlikeParts ==
    ASSUME NEW m, NEW n, Alike(m, n)
    PROVE  /\ m.procurer # None /\ m.procurer.ico # None =>
                 n.procurer # None /\ n.procurer.ico = m.procurer.ico
           /\ n.cpv_code = m.cpv_code /\ n.publication_date = m.publication_date
           /\ DOMAIN n.awards = DOMAIN m.awards
           /\ \A k \in DOMAIN m.awards :
                 /\ m.awards[k].supplier.ico # None /\ n.awards[k].supplier.ico # None =>
                       n.awards[k].supplier.ico = m.awards[k].supplier.ico
                 /\ Known(n.awards[k].value) = Known(m.awards[k].value)
<1> DEFINE Issuer(d) == IF d.procurer = None THEN None ELSE d.procurer.ico
           Called(a) == IF a.supplier.ico # None THEN a.supplier.ico ELSE a.supplier.name_slug
           Valued(a) == IF a.value = 0 THEN NoValue ELSE a.value
           Hashes(d) == [k \in DOMAIN d.awards |-> <<Called(d.awards[k]), Valued(d.awards[k])>>]
<1>1. \A d : compute_notice_hash(d) =
               <<d.source, d.source_id, d.title_slug, Issuer(d), d.cpv_code, d.publication_date,
                 d.estimated_value, d.final_value, Hashes(d)>>
  BY DEF compute_notice_hash
<1> HIDE DEF Issuer, Hashes
<1>2. /\ Issuer(n) = Issuer(m) /\ n.cpv_code = m.cpv_code /\ n.publication_date = m.publication_date
      /\ Hashes(n) = Hashes(m)
  BY <1>1 DEF Alike
<1>3. m.procurer # None /\ m.procurer.ico # None =>
         n.procurer # None /\ n.procurer.ico = m.procurer.ico
  BY <1>2 DEF Issuer
<1>4. DOMAIN n.awards = DOMAIN m.awards
  BY <1>2 DEF Hashes
<1>5. ASSUME NEW k \in DOMAIN m.awards
      PROVE  Called(n.awards[k]) = Called(m.awards[k]) /\ Valued(n.awards[k]) = Valued(m.awards[k])
  <2>1. /\ Hashes(n)[k] = <<Called(n.awards[k]), Valued(n.awards[k])>>
        /\ Hashes(m)[k] = <<Called(m.awards[k]), Valued(m.awards[k])>>
    <3> HIDE DEF Called, Valued
    <3> QED BY <1>4 DEF Hashes
  <2> HIDE DEF Called, Valued
  <2> QED BY <1>2, <2>1
<1>6. \A a, b : Valued(a) = Valued(b) => Known(a.value) = Known(b.value)
  BY DEF Known, NoValue
<1>7. \A a, b : Called(a) = Called(b) /\ a.supplier.ico # None /\ b.supplier.ico # None =>
                    a.supplier.ico = b.supplier.ico
  OBVIOUS
<1> HIDE DEF Called, Valued
<1> QED BY <1>2, <1>3, <1>4, <1>5, <1>6, <1>7

\* A plain document has no other one of its key, and versions that are like it.
LEMMA PlainDoc ==
    ASSUME GraphOK, NEW d \in PlainDocs
    PROVE  /\ KeyOf(d) \notin past.harmed
           /\ d.procurer # None /\ d.procurer.ico # None
           /\ IsFiniteSet(DOMAIN d.awards) /\ d.publication_date \in 0..EndDay
           /\ \A k \in DOMAIN d.awards :
                 d.awards[k].supplier.ico # None /\ Known(d.awards[k].value) \in Int
           /\ \A j, k \in DOMAIN d.awards :
                 d.awards[j].supplier.ico = d.awards[k].supplier.ico => j = k
           /\ \E n \in past.merged : KeyOf(n) = KeyOf(d)
           /\ \A n \in past.merged : KeyOf(n) = KeyOf(d) =>
                 /\ n.procurer # None /\ n.procurer.ico = d.procurer.ico
                 /\ n.cpv_code = d.cpv_code /\ n.publication_date = d.publication_date
                 /\ DOMAIN n.awards = DOMAIN d.awards
                 /\ \A k \in DOMAIN d.awards :
                       /\ n.awards[k].supplier.ico = d.awards[k].supplier.ico
                       /\ Known(n.awards[k].value) = Known(d.awards[k].value)
<1> DEFINE versions == {n \in past.merged : KeyOf(n) = KeyOf(d)}
<1>1. d \in db.store /\ d.procurer # None /\ Plain(d)
  BY DEF PlainDocs
<1>2. /\ KeyOf(d) \notin past.harmed /\ versions # {} /\ d.publication_date \in 0..EndDay
      /\ \A n \in versions : Alike(d, n)
      /\ \A n \in versions \cup {d} : \A k \in DOMAIN n.awards : n.awards[k].supplier.ico # None
      /\ \A k \in DOMAIN d.awards : d.awards[k].value \in Int
      /\ \A j, k \in DOMAIN d.awards :
            d.awards[j].supplier.ico = d.awards[k].supplier.ico => j = k
      /\ d.procurer.ico # None
  BY <1>1 DEF Plain, Alike
<1>3. \A k \in DOMAIN d.awards : Known(d.awards[k].value) \in Int
  BY <1>2 DEF Known, NoValue
<1>4. ASSUME NEW n \in versions
      PROVE  /\ n.procurer # None /\ n.procurer.ico = d.procurer.ico
             /\ n.cpv_code = d.cpv_code /\ n.publication_date = d.publication_date
             /\ DOMAIN n.awards = DOMAIN d.awards
             /\ \A k \in DOMAIN d.awards :
                   /\ n.awards[k].supplier.ico = d.awards[k].supplier.ico
                   /\ Known(n.awards[k].value) = Known(d.awards[k].value)
  <2>1. Alike(d, n)
    BY <1>2
  <2> HIDE DEF versions
  <2> QED BY <1>1, <1>2, <2>1, AlikeParts
<1>5. PICK v \in versions : TRUE
  BY <1>2
<1>6. v \in past.merged /\ KeyOf(v) = KeyOf(d) /\ IsList(v.awards)
  BY <1>5 DEF GraphOK, IsNotice
<1>7. IsFiniteSet(DOMAIN d.awards)
  <2>1. Len(v.awards) \in Nat /\ DOMAIN v.awards = 1..Len(v.awards)
    BY <1>6, LengthOfList
  <2>2. DOMAIN d.awards = 1..Len(v.awards)
    BY <1>4, <1>5, <2>1
  <2>3. Len(v.awards) \in Int /\ 1 \in Int
    BY <2>1
  <2> QED BY <2>2, <2>3, FS_Interval
<1>8. \A n \in past.merged : KeyOf(n) = KeyOf(d) => n \in versions
  OBVIOUS
<1> HIDE DEF versions
<1> QED BY <1>1, <1>2, <1>3, <1>4, <1>6, <1>7, <1>8

\* A line is an award of a plain document, by a buyer and to a winner known by ico.
LEMMA LineParts ==
    ASSUME NEW line
    PROVE  line \in PlainLines <=> /\ line = <<line[1], line[2]>>
                              /\ line[1] \in PlainDocs /\ line[2] \in DOMAIN line[1].awards
BY DEF PlainLines

LEMMA LineKnown ==
    ASSUME GraphOK, NEW line \in PlainLines
    PROVE  /\ line = <<line[1], line[2]>>
           /\ line[1] \in PlainDocs /\ line[2] \in DOMAIN line[1].awards
           /\ Buyer(line) # None /\ Winner(line) # None /\ Worth(line) \in Int
           /\ line[1] \in db.store /\ KeyOf(line[1]) \in PlainKeys
<1>1. line = <<line[1], line[2]>> /\ line[1] \in PlainDocs /\ line[2] \in DOMAIN line[1].awards
  BY LineParts
<1>2. line[1] \in db.store /\ KeyOf(line[1]) \in PlainKeys
  BY <1>1 DEF PlainDocs, PlainKeys
<1> QED BY <1>1, <1>2, PlainDoc DEF Buyer, Winner, Worth

\* PlainLines that agree in the document's key and in the winner are one.
LEMMA LinesApart ==
    ASSUME Inv, GraphOK, NEW l \in PlainLines, NEW m \in PlainLines,
           KeyOf(l[1]) = KeyOf(m[1]), Winner(l) = Winner(m)
    PROVE  l = m
<1>1. /\ l = <<l[1], l[2]>> /\ l[1] \in PlainDocs /\ l[1] \in db.store
      /\ m = <<m[1], m[2]>> /\ m[1] \in PlainDocs /\ m[1] \in db.store
      /\ l[2] \in DOMAIN l[1].awards /\ m[2] \in DOMAIN m[1].awards
  BY LineKnown
<1>2. l[1] = m[1]
  BY <1>1 DEF Inv, DbOK, IsStore
<1>3. l[2] = m[2]
  BY <1>1, <1>2, PlainDoc DEF Winner
<1> QED BY <1>1, <1>2, <1>3

LEMMA LinesFinite ==
    ASSUME Inv, GraphOK
    PROVE  IsFiniteSet(PlainLines)
<1> DEFINE W == past.merged
           keys == [n \in W |-> KeyOf(n)]
           back == [d \in PlainDocs |-> KeyOf(d)]
           K == {keys[n] : n \in W}
           parts == {{<<d, k>> : k \in DOMAIN d.awards} : d \in PlainDocs}
<1>1. IsFiniteSet(K)
  <2>1. IsFiniteSet(W) /\ keys = [n \in W |-> keys[n]]
    BY DEF GraphOK
  <2> HIDE DEF keys, W
  <2> QED BY <2>1, FiniteImage
<1>2. IsFiniteSet(PlainDocs)
  <2>1. \A d \in PlainDocs : KeyOf(d) \in K /\ d \in db.store
    <3>1. ASSUME NEW d \in PlainDocs PROVE KeyOf(d) \in K
      <4>1. PICK n \in W : KeyOf(n) = KeyOf(d)
        BY PlainDoc
      <4> QED BY <4>1
    <3> QED BY <3>1 DEF PlainDocs
  <2>2. back \in Injection(PlainDocs, K)
    <3> HIDE DEF K
    <3> QED BY <2>1 DEF Injection, IsInjective, Inv, DbOK, IsStore
  <2> HIDE DEF K, back
  <2> QED BY <1>1, <2>2, FS_Injection
<1>3. IsFiniteSet(parts)
  <2> DEFINE part == [d \in PlainDocs |-> {<<d, k>> : k \in DOMAIN d.awards}]
  <2>1. IsFiniteSet({part[d] : d \in PlainDocs})
    <3>1. part = [d \in PlainDocs |-> part[d]]
      OBVIOUS
    <3> HIDE DEF part
    <3> QED BY <1>2, <3>1, FiniteImage
  <2>2. parts = {part[d] : d \in PlainDocs}
    OBVIOUS
  <2> HIDE DEF parts, part
  <2> QED BY <2>1, <2>2
<1>4. ASSUME NEW d \in PlainDocs PROVE IsFiniteSet({<<d, k>> : k \in DOMAIN d.awards})
  <2> DEFINE pair == [k \in DOMAIN d.awards |-> <<d, k>>]
  <2>1. IsFiniteSet(DOMAIN d.awards) /\ pair = [k \in DOMAIN d.awards |-> pair[k]]
    BY PlainDoc
  <2>2. IsFiniteSet({pair[k] : k \in DOMAIN d.awards})
    <3> HIDE DEF pair
    <3> QED BY <2>1, FiniteImage
  <2>3. {pair[k] : k \in DOMAIN d.awards} = {<<d, k>> : k \in DOMAIN d.awards}
    OBVIOUS
  <2> QED BY <2>2, <2>3
<1>5. \A part \in parts : IsFiniteSet(part)
  BY <1>4
<1> HIDE DEF parts
<1>6. IsFiniteSet(UNION parts)
  BY <1>3, <1>5, FS_UNION
<1> QED BY <1>6 DEF PlainLines, parts

\* Every plain document has its buyer's node, and no other one issued it.
IssuedAlone(u, d) ==
    /\ u \in graph.procurers /\ u.ico = d.procurer.ico /\ <<u, KeyOf(d)>> \in graph.issued
    /\ \A i \in graph.issued : i[2] = KeyOf(d) => i[1] = u

LEMMA PlainBuyer ==
    ASSUME GraphOK, NEW d \in PlainDocs
    PROVE  \E u : IssuedAlone(u, d)
<1>1. PICK n \in past.merged : KeyOf(n) = KeyOf(d)
  BY PlainDoc
<1>2. n.procurer # None /\ n.procurer.ico = d.procurer.ico /\ d.procurer.ico # None
      /\ KeyOf(d) \notin past.harmed
  BY <1>1, PlainDoc
<1>3. PICK i \in graph.issued : i[2] = KeyOf(d) /\ i[1].ico = d.procurer.ico
  BY <1>1, <1>2 DEF GraphOK, Shows, ShowsBuyer
<1>4. i = <<i[1], i[2]>> /\ i[1] \in graph.procurers
  BY DEF GraphOK, SoundGraph, ShapeOK
<1>5. ASSUME NEW j \in graph.issued, j[2] = KeyOf(d) PROVE j[1] = i[1]
  <2>1. PICK m \in past.merged : IssuedBy(j, m)
    BY <1>2, <1>5 DEF GraphOK, SoundGraph, SourcedOK
  <2>2. KeyOf(m) = KeyOf(d)
    BY <1>5, <2>1 DEF IssuedBy
  <2>3. m.procurer.ico = d.procurer.ico
    BY <2>2, PlainDoc
  <2>4. j[1].ico = d.procurer.ico /\ j[1] \in graph.procurers
    BY <1>2, <2>1, <2>3 DEF IssuedBy, GraphOK, SoundGraph, ShapeOK
  <2> QED BY <1>2, <1>3, <1>4, <2>4 DEF GraphOK, SoundGraph, ShapeOK, NodesOK
<1> QED BY <1>3, <1>4, <1>5 DEF IssuedAlone

\* The edge of a line.
EdgeOf(line) ==
    CHOOSE e \in graph.awarded : e.key = KeyOf(line[1]) /\ e.supplier.ico = Winner(line)

LEMMA EdgeOfLine ==
    ASSUME GraphOK, NEW line \in PlainLines
    PROVE  /\ EdgeOf(line) \in graph.awarded
           /\ EdgeOf(line).key = KeyOf(line[1]) /\ EdgeOf(line).supplier.ico = Winner(line)
           /\ EdgeOf(line).supplier \in graph.suppliers
           /\ \A e \in graph.awarded :
                 e.key = KeyOf(line[1]) /\ e.supplier.ico = Winner(line) => e = EdgeOf(line)
           /\ EdgeWorth(EdgeOf(line)) = Worth(line)
<1> DEFINE d == line[1]
           k == line[2]
           e == EdgeOf(line)
<1>1. d \in PlainDocs /\ k \in DOMAIN d.awards /\ Winner(line) # None
  BY LineKnown
<1>2. Winner(line) = d.awards[k].supplier.ico /\ Worth(line) = Known(d.awards[k].value)
  BY DEF Winner, Worth
<1> HIDE DEF d, k
<1>3. PICK n \in past.merged : KeyOf(n) = KeyOf(d)
  BY <1>1, PlainDoc
<1>4. n.awards[k].supplier.ico = Winner(line) /\ k \in DOMAIN n.awards
  BY <1>1, <1>2, <1>3, PlainDoc
<1>5. \E f \in graph.awarded : f.key = KeyOf(d) /\ f.supplier.ico = Winner(line)
  BY <1>1, <1>3, <1>4 DEF GraphOK, Shows, ShowsAward
<1>6. e \in graph.awarded /\ e.key = KeyOf(d) /\ e.supplier.ico = Winner(line)
  BY <1>5 DEF EdgeOf, d
<1> HIDE DEF e
<1>7. e.supplier \in graph.suppliers
  BY <1>6 DEF GraphOK, SoundGraph, ShapeOK
<1>8. ASSUME NEW f \in graph.awarded, f.key = KeyOf(d), f.supplier.ico = Winner(line)
      PROVE  f = e
  <2>1. f.supplier \in graph.suppliers
    BY DEF GraphOK, SoundGraph, ShapeOK
  <2>2. f.supplier = e.supplier
    BY <1>1, <1>6, <1>7, <1>8, <2>1 DEF GraphOK, SoundGraph, ShapeOK, NodesOK
  <2> QED BY <1>6, <1>8, <2>2 DEF GraphOK, SoundGraph, ShapeOK
<1>9. EdgeWorth(e) = Worth(line)
  <2>1. e.key \notin past.harmed
    BY <1>1, <1>6, PlainDoc
  <2>2. PICK m \in past.merged : AwardedBy(e, m)
    BY <1>6, <2>1 DEF GraphOK, SoundGraph, SourcedOK
  <2>3. PICK j \in DOMAIN m.awards :
           /\ e.value = m.awards[j].value
           /\ m.awards[j].supplier.ico # None => e.supplier.ico = m.awards[j].supplier.ico
    BY <2>2 DEF AwardedBy
  <2>4. KeyOf(m) = KeyOf(d)
    BY <1>6, <2>2 DEF AwardedBy
  <2>5. /\ j \in DOMAIN d.awards /\ d.awards[j].supplier.ico # None
        /\ m.awards[j].supplier.ico = d.awards[j].supplier.ico
        /\ Known(m.awards[j].value) = Known(d.awards[j].value)
    BY <1>1, <2>4, PlainDoc
  <2>6. j = k
    BY <1>1, <1>2, <1>6, <2>3, <2>5, PlainDoc
  <2> QED BY <1>2, <2>3, <2>5, <2>6 DEF EdgeWorth
<1> QED BY <1>6, <1>7, <1>8, <1>9 DEF e, d

\* Every edge of a plain document is that of a line.
LEMMA LineOfEdge ==
    ASSUME GraphOK, NEW e \in graph.awarded, NEW d \in PlainDocs, e.key = KeyOf(d)
    PROVE  \E line \in PlainLines : line[1] = d /\ e = EdgeOf(line)
<1>1. PICK n \in past.merged : AwardedBy(e, n)
  <2>1. e.key \notin past.harmed
    BY PlainDoc
  <2> QED BY <2>1 DEF GraphOK, SoundGraph, SourcedOK
<1>2. PICK k \in DOMAIN n.awards :
         n.awards[k].supplier.ico # None => e.supplier.ico = n.awards[k].supplier.ico
  BY <1>1 DEF AwardedBy
<1>3. k \in DOMAIN d.awards /\ e.supplier.ico = d.awards[k].supplier.ico
  <2>1. KeyOf(n) = KeyOf(d)
    BY <1>1 DEF AwardedBy
  <2> QED BY <1>2, <2>1, PlainDoc
<1> DEFINE line == <<d, k>>
<1>4. line \in PlainLines /\ line[1] = d /\ Winner(line) = d.awards[k].supplier.ico
  BY <1>3 DEF PlainLines, Winner
<1> HIDE DEF line
<1>5. e = EdgeOf(line)
  BY <1>3, <1>4, EdgeOfLine
<1> QED BY <1>4, <1>5

WinnersBy(p) == {Winner(line) : line \in {line \in PlainLines : Buyer(line) = p}}
Total(lines) == MapThenSumSet(Worth, lines)
BuyerNode(line) == CHOOSE u : IssuedAlone(u, line[1])
PlainGraph == [graph EXCEPT !.issued = {i \in @ : i[2] \in PlainKeys}]

LEMMA PlainGraphParts ==
    ASSUME GraphOK
    PROVE  /\ PlainGraph.procurers = graph.procurers /\ PlainGraph.suppliers = graph.suppliers
           /\ PlainGraph.notices = graph.notices /\ PlainGraph.awarded = graph.awarded
           /\ PlainGraph.issued = {i \in graph.issued : i[2] \in PlainKeys}
BY DEF PlainGraph, GraphOK, SoundGraph, ShapeOK

LEMMA BuyerOfLine ==
    ASSUME GraphOK, NEW line \in PlainLines
    PROVE  /\ IssuedAlone(BuyerNode(line), line[1]) /\ BuyerNode(line).ico = Buyer(line)
           /\ <<BuyerNode(line), KeyOf(line[1])>> \in PlainGraph.issued
<1>1. \E u : IssuedAlone(u, line[1])
  BY LineKnown, PlainBuyer
<1>2. IssuedAlone(BuyerNode(line), line[1])
  BY <1>1 DEF BuyerNode
<1>3. <<BuyerNode(line), KeyOf(line[1])>> \in PlainGraph.issued
  <2>1. KeyOf(line[1]) \in PlainKeys
    BY LineKnown
  <2> QED BY <1>2, <2>1, PlainGraphParts DEF IssuedAlone
<1> QED BY <1>2, <1>3 DEF IssuedAlone, Buyer

\* An edge of a notice that a node issued: it is a line, by that buyer to that winner.
LEMMA LineOfLink ==
    ASSUME GraphOK, NEW e \in graph.awarded, NEW i \in PlainGraph.issued, i[2] = e.key
    PROVE  \E line \in PlainLines : /\ e = EdgeOf(line) /\ KeyOf(line[1]) = e.key
                               /\ i[1] = BuyerNode(line) /\ Buyer(line) = i[1].ico
                               /\ Winner(line) = e.supplier.ico
<1>1. i \in graph.issued /\ i[2] \in PlainKeys
  BY PlainGraphParts
<1>2. PICK d \in PlainDocs : e.key = KeyOf(d)
  BY <1>1 DEF PlainKeys
<1>3. PICK line \in PlainLines : line[1] = d /\ e = EdgeOf(line)
  BY <1>2, LineOfEdge
<1>4. Winner(line) = e.supplier.ico
  BY <1>3, EdgeOfLine
<1>5. i[1] = BuyerNode(line) /\ Buyer(line) = i[1].ico
  BY <1>1, <1>2, <1>3, BuyerOfLine DEF IssuedAlone
<1> QED BY <1>2, <1>3, <1>4, <1>5

\* The node of a line's winner is the only one of its ico.
LEMMA WinnerNode ==
    ASSUME GraphOK, NEW line \in PlainLines, NEW s \in graph.suppliers, s.ico = Winner(line)
    PROVE  s = EdgeOf(line).supplier
<1>1. EdgeOf(line).supplier \in graph.suppliers /\ EdgeOf(line).supplier.ico = s.ico /\ s.ico # None
  BY EdgeOfLine, LineKnown
<1> QED BY <1>1 DEF GraphOK, SoundGraph, ShapeOK, NodesOK

LEMMA BetweenFinite ==
    ASSUME Inv, GraphOK, NEW p, NEW s
    PROVE  IsFiniteSet(Between(p, s))
<1>1. Between(p, s) \in SUBSET PlainLines
  BY DEF Between
<1> QED BY <1>1, LinesFinite, FS_Subset

-----------------------------------------------------------------------------
(* The ranking of an authority's suppliers *)

WonBy(p, s) == UNION {Edges(PlainGraph, v, s) : v \in {v \in PlainGraph.procurers : v.ico = p}}

LEMMA WonEdges ==
    ASSUME Inv, GraphOK, NEW p, NEW s \in graph.suppliers
    PROVE  Pairs(Between(p, s.ico), WonBy(p, s), [line \in PlainLines |-> EdgeOf(line)])
<1> DEFINE g == [line \in PlainLines |-> EdgeOf(line)]
           S == Between(p, s.ico)
<1>0. \A e : e \in WonBy(p, s) <=>
               /\ e \in graph.awarded /\ e.supplier = s
               /\ \E i \in PlainGraph.issued : i[1] \in graph.procurers /\ i[1].ico = p /\ i[2] = e.key
  BY PlainGraphParts DEF WonBy, Edges
<1>1. ASSUME NEW e \in WonBy(p, s) PROVE \E line \in S : e = EdgeOf(line)
  <2>1. PICK i \in PlainGraph.issued : i[1].ico = p /\ i[2] = e.key
    BY <1>0
  <2>2. e \in graph.awarded /\ e.supplier = s
    BY <1>0
  <2>3. PICK line \in PlainLines : e = EdgeOf(line) /\ Buyer(line) = p /\ Winner(line) = s.ico
    BY <2>1, <2>2, LineOfLink
  <2> QED BY <2>3 DEF Between
<1>2. ASSUME NEW line \in S PROVE EdgeOf(line) \in WonBy(p, s)
  <2>1. line \in PlainLines /\ Buyer(line) = p /\ Winner(line) = s.ico
    BY DEF Between
  <2>2. EdgeOf(line) \in graph.awarded /\ EdgeOf(line).key = KeyOf(line[1])
    BY <2>1, EdgeOfLine
  <2>3. EdgeOf(line).supplier = s
    BY <2>1, WinnerNode
  <2> DEFINE i == <<BuyerNode(line), KeyOf(line[1])>>
  <2>4. i \in PlainGraph.issued /\ i[1].ico = p /\ i[1] \in graph.procurers /\ i[2] = KeyOf(line[1])
    BY <2>1, BuyerOfLine DEF IssuedAlone
  <2> HIDE DEF i
  <2> QED BY <1>0, <2>2, <2>3, <2>4
<1>3. \A line \in S : line \in PlainLines /\ g[line] = EdgeOf(line)
  BY DEF Between
<1>4. ASSUME NEW l \in S, NEW m \in S, g[l] = g[m] PROVE l = m
  <2>1. l \in PlainLines /\ m \in PlainLines /\ Winner(l) = Winner(m) /\ EdgeOf(l) = EdgeOf(m)
    BY <1>3, <1>4 DEF Between
  <2>2. KeyOf(l[1]) = KeyOf(m[1])
    BY <2>1, EdgeOfLine
  <2> QED BY <2>1, <2>2, LinesApart
<1> HIDE DEF g, S
<1>5. WonBy(p, s) = {g[line] : line \in S}
  BY <1>1, <1>2, <1>3
<1> QED BY <1>4, <1>5 DEF Pairs, g, S

RankedAs(s, p) == [ico |-> s, count |-> Cardinality(Between(p, s)), total |-> Total(Between(p, s))]

LEMMA RankingAgrees ==
    ASSUME Inv, GraphOK, NEW p
    PROVE  {[ico |-> r.ico, count |-> r.count, total |-> r.total] :
               r \in supplier_concentration_rows(PlainGraph, p)}
           = {RankedAs(s, p) : s \in WinnersBy(p)}
<1> DEFINE Sellers == {s \in graph.suppliers : WonBy(p, s) # {}}
           Row(s) == [ico |-> s.ico, name_slug |-> s.name_slug,
                      count |-> EdgeTally(WonBy(p, s)).count, total |-> EdgeTally(WonBy(p, s)).total]
           Short(r) == [ico |-> r.ico, count |-> r.count, total |-> r.total]
<1>1. supplier_concentration_rows(PlainGraph, p) = {Row(s) : s \in Sellers}
  BY PlainGraphParts DEF supplier_concentration_rows, WonBy
<1>2. ASSUME NEW s \in Sellers PROVE Short(Row(s)) = RankedAs(s.ico, p)
  <2>1. s \in graph.suppliers
    OBVIOUS
  <2> DEFINE S == Between(p, s.ico)
             g == [line \in PlainLines |-> EdgeOf(line)]
  <2>3. Pairs(S, WonBy(p, s), g)
    BY <2>1, WonEdges
  <2>4. \A line \in S : Worth(line) \in Int /\ EdgeWorth(g[line]) = Worth(line)
    BY EdgeOfLine, LineKnown DEF Between
  <2>5. EdgeTally(WonBy(p, s)) = [count |-> Cardinality(S), total |-> Total(S)]
    <3>1. IsFiniteSet(S)
      BY BetweenFinite
    <3> HIDE DEF S, g
    <3> QED BY <2>3, <2>4, <3>1, SameSums DEF Total
  <2> HIDE DEF S, g
  <2>6. Row(s).ico = s.ico /\ Row(s).count = Cardinality(S) /\ Row(s).total = Total(S)
    BY <2>5
  <2> HIDE DEF Row
  <2> QED BY <2>6 DEF RankedAs, S
<1>3. \A s \in Sellers : s.ico \in WinnersBy(p)
  <2>1. ASSUME NEW s \in Sellers PROVE s.ico \in WinnersBy(p)
    <3>1. PICK e : e \in WonBy(p, s) /\ s \in graph.suppliers
      OBVIOUS
    <3> DEFINE g == [l \in PlainLines |-> EdgeOf(l)]
    <3>2. Pairs(Between(p, s.ico), WonBy(p, s), g)
      BY <3>1, WonEdges
    <3> HIDE DEF g
    <3>3. PICK line : line \in Between(p, s.ico)
      BY <3>1, <3>2 DEF Pairs
    <3> QED BY <3>3 DEF Between, WinnersBy
  <2> QED BY <2>1
<1>4. ASSUME NEW w \in WinnersBy(p) PROVE \E s \in Sellers : s.ico = w
  <2>1. PICK line \in PlainLines : Buyer(line) = p /\ Winner(line) = w
    BY DEF WinnersBy
  <2> DEFINE s == EdgeOf(line).supplier
             g == [l \in PlainLines |-> EdgeOf(l)]
  <2>2. s \in graph.suppliers /\ s.ico = w
    BY <2>1, EdgeOfLine
  <2> HIDE DEF s
  <2>3. line \in Between(p, s.ico)
    BY <2>1, <2>2 DEF Between
  <2>4. g[line] \in WonBy(p, s)
    <3>1. Pairs(Between(p, s.ico), WonBy(p, s), g)
      BY <2>2, WonEdges
    <3> HIDE DEF g
    <3> QED BY <2>3, <3>1 DEF Pairs
  <2> QED BY <2>2, <2>4
<1> HIDE DEF Sellers, Row
<1>5. {Short(r) : r \in {Row(s) : s \in Sellers}} = {Short(Row(s)) : s \in Sellers}
  <2> HIDE DEF Short
  <2> QED OBVIOUS
<1> HIDE DEF Short
<1>6. {Short(Row(s)) : s \in Sellers} = {RankedAs(w, p) : w \in WinnersBy(p)}
  BY <1>2, <1>3, <1>4
<1> QED BY <1>1, <1>5, <1>6 DEF Short

-----------------------------------------------------------------------------
(* The neighbours of an authority *)

LinksOf(label, v) == IF label = "procurer" THEN {i[2] : i \in {i \in PlainGraph.issued : i[1] = v}}
                     ELSE {e.key : e \in {e \in PlainGraph.awarded : e.supplier = v}}
GraphEnds == {<<"procurer", v>> : v \in PlainGraph.procurers}
             \cup {<<"supplier", v>> : v \in PlainGraph.suppliers}
NoticeKeys == {v.key : v \in PlainGraph.notices}
PathsTo(p, b) == {q \in GraphEnds \X NoticeKeys :
                     /\ q[1][2].ico = p
                     /\ q[2] \in LinksOf(q[1][1], q[1][2]) \cap LinksOf(b[1], b[2])}
Reached(p) == {b \in GraphEnds : b[2].ico \notin {None, p} /\ PathsTo(p, b) # {}}
PathWorth(s, key) == Known((CHOOSE e \in PlainGraph.awarded : e.supplier = s /\ e.key = key).value)
PathWeight(q, b) == IF q[1][1] = "supplier" THEN PathWorth(q[1][2], q[2])
                    ELSE IF b[1] = "supplier" THEN PathWorth(b[2], q[2]) ELSE 0
Neighbour(p, b) == [type |-> b[1], ico |-> b[2].ico, count |-> Cardinality(PathsTo(p, b)),
                    total |-> MapThenSumSet(LAMBDA q : PathWeight(q, b), PathsTo(p, b))]

LEMMA EgoRows ==
    ASSUME NEW p
    PROVE  ego_network(PlainGraph, p) = {Neighbour(p, b) : b \in Reached(p)}
BY DEF ego_network, Neighbour, Reached, PathsTo, GraphEnds, NoticeKeys, LinksOf,
       PathWorth, PathWeight

\* Every line's notice has its node.
LEMMA LineNotice ==
    ASSUME GraphOK, NEW line \in PlainLines
    PROVE  \E v \in graph.notices :
              /\ v.key = KeyOf(line[1]) /\ v.cpv_code = line[1].cpv_code
              /\ v.day = line[1].publication_date
<1>1. line[1] \in PlainDocs
  BY LineKnown
<1>2. PICK n \in past.merged : KeyOf(n) = KeyOf(line[1])
  BY <1>1, PlainDoc
<1>3. PICK v \in graph.notices : v.key = KeyOf(line[1])
  BY <1>2 DEF GraphOK, Shows, ShowsNode
<1>4. PICK m \in past.merged : TakenFrom(v, m)
  <2>1. v.key \notin past.harmed
    BY <1>1, <1>3, PlainDoc
  <2> QED BY <2>1 DEF GraphOK, SoundGraph, SourcedOK
<1>5. v.cpv_code = line[1].cpv_code /\ v.day = line[1].publication_date
  <2>1. KeyOf(m) = KeyOf(line[1])
    BY <1>3, <1>4 DEF TakenFrom
  <2> QED BY <1>1, <1>4, <2>1, PlainDoc DEF TakenFrom
<1> QED BY <1>3, <1>5

PathOf == [line \in PlainLines |-> <<<<"procurer", BuyerNode(line)>>, KeyOf(line[1])>>]

LEMMA PathsOfLines ==
    ASSUME Inv, GraphOK, NEW p, p \notin {s.ico : s \in graph.suppliers}, NEW s \in graph.suppliers
    PROVE  Pairs(Between(p, s.ico), PathsTo(p, <<"supplier", s>>), PathOf)
<1> DEFINE S == Between(p, s.ico)
           T == PathsTo(p, <<"supplier", s>>)
<1>1. ASSUME NEW q \in T PROVE \E line \in S : q = PathOf[line]
  <2>1. /\ q = <<q[1], q[2]>> /\ q[1] \in GraphEnds /\ q[1][2].ico = p
        /\ q[2] \in LinksOf(q[1][1], q[1][2]) /\ q[2] \in LinksOf("supplier", s)
    BY DEF PathsTo
  <2>2. PICK v : v \in graph.procurers /\ q[1] = <<"procurer", v>> /\ v.ico = p
    BY <2>1, PlainGraphParts DEF GraphEnds
  <2>3. PICK i \in PlainGraph.issued : i[1] = v /\ i[2] = q[2]
    BY <2>1, <2>2 DEF LinksOf
  <2>4. PICK e \in graph.awarded : e.supplier = s /\ e.key = q[2]
    BY <2>1, PlainGraphParts DEF LinksOf
  <2>5. PICK line \in PlainLines : /\ KeyOf(line[1]) = e.key /\ i[1] = BuyerNode(line)
                              /\ Buyer(line) = i[1].ico /\ Winner(line) = e.supplier.ico
    BY <2>3, <2>4, LineOfLink
  <2>6. line \in S
    BY <2>2, <2>3, <2>4, <2>5 DEF Between
  <2> HIDE DEF S
  <2> QED BY <2>1, <2>2, <2>3, <2>4, <2>5, <2>6 DEF PathOf
<1>2. ASSUME NEW line \in S PROVE PathOf[line] \in T
  <2>1. line \in PlainLines /\ Buyer(line) = p /\ Winner(line) = s.ico
    BY DEF Between
  <2> DEFINE key == KeyOf(line[1])
             u == BuyerNode(line)
  <2>2. /\ u \in graph.procurers /\ u.ico = p /\ <<u, key>> \in PlainGraph.issued
    BY <2>1, BuyerOfLine DEF IssuedAlone
  <2>3. EdgeOf(line) \in graph.awarded /\ EdgeOf(line).key = key /\ EdgeOf(line).supplier = s
    BY <2>1, EdgeOfLine, WinnerNode
  <2>4. PathOf[line] = <<<<"procurer", u>>, key>>
    BY <2>1 DEF PathOf
  <2> HIDE DEF key, u
  <2>5. key \in NoticeKeys
    BY <2>1, LineNotice, PlainGraphParts DEF NoticeKeys, key
  <2>6. key \in LinksOf("procurer", u)
    <3>1. <<u, key>>[1] = u /\ <<u, key>>[2] = key
      OBVIOUS
    <3> QED BY <2>2, <3>1 DEF LinksOf
  <2>7. key \in LinksOf("supplier", s)
    BY <2>3, PlainGraphParts DEF LinksOf
  <2>8. <<"procurer", u>> \in GraphEnds
    BY <2>2, PlainGraphParts DEF GraphEnds
  <2> QED BY <2>2, <2>4, <2>5, <2>6, <2>7, <2>8 DEF PathsTo
<1>3. ASSUME NEW l \in S, NEW m \in S, PathOf[l] = PathOf[m] PROVE l = m
  <2>1. l \in PlainLines /\ m \in PlainLines /\ Winner(l) = Winner(m)
    BY DEF Between
  <2>2. KeyOf(l[1]) = KeyOf(m[1])
    BY <1>3, <2>1 DEF PathOf
  <2> QED BY <2>1, <2>2, LinesApart
<1> HIDE DEF S, T
<1>4. T = {PathOf[line] : line \in S}
  BY <1>1, <1>2
<1> QED BY <1>3, <1>4 DEF Pairs, S, T

LEMMA EgoAgrees ==
    ASSUME Inv, GraphOK, NEW p, p \notin {s.ico : s \in graph.suppliers}
    PROVE  {<<r.ico, r.count>> : r \in {r \in ego_network(PlainGraph, p) : r.type = "supplier"}}
           = {<<s, Cardinality(Between(p, s))>> : s \in WinnersBy(p)}
<1> DEFINE Sold == {r \in ego_network(PlainGraph, p) : r.type = "supplier"}
           L == {<<r.ico, r.count>> : r \in Sold}
           R == {<<s, Cardinality(Between(p, s))>> : s \in WinnersBy(p)}
           End(s) == <<"supplier", s>>
           Row(s) == Neighbour(p, End(s))
<1>0. \A s \in graph.suppliers : /\ Pairs(Between(p, s.ico), PathsTo(p, End(s)), PathOf)
                                 /\ Row(s).type = "supplier" /\ Row(s).ico = s.ico
                                 /\ Row(s).count = Cardinality(Between(p, s.ico))
  <2>1. ASSUME NEW s \in graph.suppliers
        PROVE  /\ Pairs(Between(p, s.ico), PathsTo(p, End(s)), PathOf)
               /\ Row(s).type = "supplier" /\ Row(s).ico = s.ico
               /\ Row(s).count = Cardinality(Between(p, s.ico))
    <3>1. Pairs(Between(p, s.ico), PathsTo(p, End(s)), PathOf)
      BY PathsOfLines
    <3>2. Cardinality(PathsTo(p, End(s))) = Cardinality(Between(p, s.ico))
      <4>1. IsFiniteSet(Between(p, s.ico))
        BY BetweenFinite
      <4> HIDE DEF End
      <4> QED BY <3>1, <4>1, SameCount
    <3>3. /\ Row(s).type = "supplier" /\ Row(s).ico = s.ico
          /\ Row(s).count = Cardinality(PathsTo(p, End(s)))
      BY DEF Neighbour
    <3> HIDE DEF Row, End
    <3> QED BY <3>1, <3>2, <3>3
  <2> QED BY <2>1
<1>1. ASSUME NEW r \in Sold PROVE <<r.ico, r.count>> \in R
  <2>1. PICK b \in Reached(p) : r = Neighbour(p, b)
    BY EgoRows
  <2>2. b[1] = "supplier"
    BY <2>1 DEF Neighbour
  <2>3. PICK s \in graph.suppliers : b = End(s)
    BY <2>2, PlainGraphParts DEF Reached, GraphEnds
  <2>4. PathsTo(p, End(s)) # {}
    BY <2>3 DEF Reached
  <2> HIDE DEF End, Row
  <2>5. PICK line : line \in Between(p, s.ico)
    BY <1>0, <2>4 DEF Pairs
  <2>6. s.ico \in WinnersBy(p)
    BY <2>5 DEF Between, WinnersBy
  <2>7. r = Row(s)
    BY <2>1, <2>3 DEF Row
  <2> QED BY <1>0, <2>6, <2>7
<1>2. ASSUME NEW w \in WinnersBy(p)
      PROVE  \E r \in Sold : r.ico = w /\ r.count = Cardinality(Between(p, w))
  <2>1. PICK line \in PlainLines : Buyer(line) = p /\ Winner(line) = w
    BY DEF WinnersBy
  <2> DEFINE s == EdgeOf(line).supplier
  <2>2. s \in graph.suppliers /\ s.ico = w /\ w # None
    BY <2>1, EdgeOfLine, LineKnown
  <2> HIDE DEF s
  <2>3. line \in Between(p, s.ico)
    BY <2>1, <2>2 DEF Between
  <2>4. PathsTo(p, End(s)) # {}
    <3> HIDE DEF End, Row
    <3> QED BY <1>0, <2>2, <2>3 DEF Pairs
  <2>5. End(s) \in Reached(p)
    <3>1. End(s) \in GraphEnds /\ End(s)[2] = s
      BY <2>2, PlainGraphParts DEF GraphEnds
    <3>2. w # p
      BY <2>2
    <3> HIDE DEF End
    <3> QED BY <2>2, <2>4, <3>1, <3>2 DEF Reached
  <2>6. Row(s) \in ego_network(PlainGraph, p)
    BY <2>5, EgoRows
  <2> HIDE DEF Row, End
  <2>7. Row(s).type = "supplier" /\ Row(s).ico = w /\ Row(s).count = Cardinality(Between(p, w))
    BY <1>0, <2>2
  <2> QED BY <2>6, <2>7
<1>3. ASSUME NEW w \in WinnersBy(p) PROVE <<w, Cardinality(Between(p, w))>> \in L
  <2> HIDE DEF Sold
  <2>1. PICK r \in Sold : r.ico = w /\ r.count = Cardinality(Between(p, w))
    BY <1>2
  <2> QED BY <2>1
<1>4. L \subseteq R
  <2> HIDE DEF Sold, R
  <2> QED BY <1>1
<1>5. R \subseteq L
  <2> HIDE DEF L
  <2> QED BY <1>3
<1>6. L = R
  <2> HIDE DEF L, R
  <2> QED BY <1>4, <1>5
<1> HIDE DEF Row, End
<1> QED BY <1>6

-----------------------------------------------------------------------------
(* The pairs of a division *)

InDivision(code) == {line \in PlainLines : IsPrefix(code, line[1].cpv_code)}
Drawn(code, p, s) == Between(p, s) \cap InDivision(code)
SharedBy(code, u, s) == {v \in PlainGraph.notices :
                           /\ IsPrefix(code, v.cpv_code) /\ v.day \in 0..EndDay
                           /\ <<u, v.key>> \in PlainGraph.issued
                           /\ \E e \in PlainGraph.awarded : e.key = v.key /\ e.supplier = s}
Joining(code) == {q \in PlainGraph.procurers \X PlainGraph.suppliers :
                    q[1].ico # None /\ q[2].ico # None /\ SharedBy(code, q[1], q[2]) # {}}
Joint(code, q) ==
    [from |-> q[1].ico, to |-> q[2].ico, count |-> Cardinality(SharedBy(code, q[1], q[2])),
     total |-> MapThenSumSet(LAMBDA v : Known(v.final_value), SharedBy(code, q[1], q[2]))]

LEMMA DivisionRows ==
    ASSUME NEW code
    PROVE  cpv_network(PlainGraph, code, 0, EndDay) = {Joint(code, q) : q \in Joining(code)}
BY DEF cpv_network, Joint, Joining, SharedBy

NoticeOf == [line \in PlainLines |-> CHOOSE v \in graph.notices : v.key = KeyOf(line[1])]

LEMMA NoticeOfLine ==
    ASSUME GraphOK, NEW line \in PlainLines
    PROVE  /\ NoticeOf[line] \in graph.notices /\ NoticeOf[line].key = KeyOf(line[1])
           /\ NoticeOf[line].cpv_code = line[1].cpv_code /\ NoticeOf[line].day \in 0..EndDay
           /\ \A v \in graph.notices : v.key = KeyOf(line[1]) => v = NoticeOf[line]
<1>1. PICK v \in graph.notices : /\ v.key = KeyOf(line[1]) /\ v.cpv_code = line[1].cpv_code
                                 /\ v.day = line[1].publication_date
  BY LineNotice
<1>2. \A w \in graph.notices : w.key = KeyOf(line[1]) => w = v
  BY <1>1 DEF GraphOK, SoundGraph, ShapeOK
<1>3. NoticeOf[line] = v
  BY <1>1, <1>2 DEF NoticeOf
<1>4. line[1].publication_date \in 0..EndDay
  BY LineKnown, PlainDoc
<1> QED BY <1>1, <1>2, <1>3, <1>4

LEMMA SharedLines ==
    ASSUME Inv, GraphOK, NEW code, NEW u \in graph.procurers, u.ico # None, NEW s \in graph.suppliers
    PROVE  Pairs(Drawn(code, u.ico, s.ico), SharedBy(code, u, s), NoticeOf)
<1> DEFINE S == Drawn(code, u.ico, s.ico)
           T == SharedBy(code, u, s)
<1>1. ASSUME NEW v \in T PROVE \E line \in S : v = NoticeOf[line]
  <2>1. /\ v \in graph.notices /\ IsPrefix(code, v.cpv_code) /\ <<u, v.key>> \in PlainGraph.issued
        /\ \E e \in graph.awarded : e.key = v.key /\ e.supplier = s
    BY PlainGraphParts DEF SharedBy
  <2>2. PICK e \in graph.awarded : e.key = v.key /\ e.supplier = s
    BY <2>1
  <2>3. PICK i \in PlainGraph.issued : i[1] = u /\ i[2] = v.key
    BY <2>1
  <2>4. PICK line \in PlainLines : /\ KeyOf(line[1]) = v.key
                              /\ Buyer(line) = u.ico /\ Winner(line) = s.ico
    BY <2>2, <2>3, LineOfLink
  <2>5. v = NoticeOf[line] /\ v.cpv_code = line[1].cpv_code
    BY <2>1, <2>4, NoticeOfLine
  <2>6. IsPrefix(code, line[1].cpv_code)
    BY <2>1, <2>5
  <2>7. line \in S
    BY <2>4, <2>6 DEF Drawn, Between, InDivision
  <2> QED BY <2>5, <2>7
<1>2. ASSUME NEW line \in S PROVE NoticeOf[line] \in T
  <2>1. /\ line \in PlainLines /\ Buyer(line) = u.ico /\ Winner(line) = s.ico
        /\ IsPrefix(code, line[1].cpv_code)
    BY DEF Drawn, Between, InDivision
  <2>2. /\ NoticeOf[line] \in graph.notices /\ NoticeOf[line].key = KeyOf(line[1])
        /\ NoticeOf[line].cpv_code = line[1].cpv_code /\ NoticeOf[line].day \in 0..EndDay
    BY <2>1, NoticeOfLine
  <2>3. IsPrefix(code, NoticeOf[line].cpv_code)
    BY <2>1, <2>2
  <2>4. BuyerNode(line) = u /\ <<BuyerNode(line), KeyOf(line[1])>> \in PlainGraph.issued
    <3>1. /\ BuyerNode(line) \in graph.procurers /\ BuyerNode(line).ico = u.ico
          /\ <<BuyerNode(line), KeyOf(line[1])>> \in PlainGraph.issued
      BY <2>1, BuyerOfLine DEF IssuedAlone
    <3> QED BY <3>1 DEF GraphOK, SoundGraph, ShapeOK, NodesOK
  <2>5. /\ EdgeOf(line) \in graph.awarded /\ EdgeOf(line).key = KeyOf(line[1])
        /\ EdgeOf(line).supplier = s
    BY <2>1, EdgeOfLine, WinnerNode
  <2> QED BY <2>2, <2>3, <2>4, <2>5, PlainGraphParts DEF SharedBy
<1>3. ASSUME NEW l \in S, NEW m \in S, NoticeOf[l] = NoticeOf[m] PROVE l = m
  <2>1. l \in PlainLines /\ m \in PlainLines /\ Winner(l) = Winner(m)
    BY DEF Drawn, Between
  <2>2. KeyOf(l[1]) = KeyOf(m[1])
    BY <1>3, <2>1, NoticeOfLine
  <2> QED BY <2>1, <2>2, LinesApart
<1> HIDE DEF S, T
<1>4. T = {NoticeOf[line] : line \in S}
  BY <1>1, <1>2
<1> QED BY <1>3, <1>4 DEF Pairs, S, T

LEMMA DivisionAgrees ==
    ASSUME Inv, GraphOK, NEW code
    PROVE  {<<r.from, r.to, r.count>> : r \in cpv_network(PlainGraph, code, 0, EndDay)}
           = {<<Buyer(line), Winner(line), Cardinality(Drawn(code, Buyer(line), Winner(line)))>> :
                 line \in InDivision(code)}
<1> DEFINE Rows == cpv_network(PlainGraph, code, 0, EndDay)
           Row(u, s) == Joint(code, <<u, s>>)
           Told(line) ==
               <<Buyer(line), Winner(line), Cardinality(Drawn(code, Buyer(line), Winner(line)))>>
           L == {<<r.from, r.to, r.count>> : r \in Rows}
           R == {Told(line) : line \in InDivision(code)}
<1>1. ASSUME NEW u \in graph.procurers, NEW s \in graph.suppliers, u.ico # None
      PROVE  /\ Pairs(Drawn(code, u.ico, s.ico), SharedBy(code, u, s), NoticeOf)
             /\ Row(u, s).from = u.ico /\ Row(u, s).to = s.ico
             /\ Row(u, s).count = Cardinality(Drawn(code, u.ico, s.ico))
  <2>1. Pairs(Drawn(code, u.ico, s.ico), SharedBy(code, u, s), NoticeOf)
    BY <1>1, SharedLines
  <2>2. IsFiniteSet(Drawn(code, u.ico, s.ico))
    <3>1. Drawn(code, u.ico, s.ico) \in SUBSET Between(u.ico, s.ico)
      BY DEF Drawn
    <3> QED BY <3>1, BetweenFinite, FS_Subset
  <2>3. Cardinality(SharedBy(code, u, s)) = Cardinality(Drawn(code, u.ico, s.ico))
    BY <2>1, <2>2, SameCount
  <2>4. /\ Row(u, s).from = u.ico /\ Row(u, s).to = s.ico
        /\ Row(u, s).count = Cardinality(SharedBy(code, u, s))
    BY DEF Joint
  <2> HIDE DEF Row
  <2> QED BY <2>1, <2>3, <2>4
<1>2. ASSUME NEW r \in Rows PROVE <<r.from, r.to, r.count>> \in R
  <2>1. PICK q \in Joining(code) : r = Joint(code, q)
    BY DivisionRows
  <2>2. PICK u \in graph.procurers, s \in graph.suppliers : q = <<u, s>>
    BY PlainGraphParts DEF Joining
  <2>3. u.ico # None /\ SharedBy(code, u, s) # {} /\ r = Row(u, s)
    BY <2>1, <2>2 DEF Joining
  <2> HIDE DEF Row, Rows
  <2>4. PICK line : line \in Drawn(code, u.ico, s.ico)
    BY <1>1, <2>3 DEF Pairs
  <2>5. line \in InDivision(code) /\ Buyer(line) = u.ico /\ Winner(line) = s.ico
    BY <2>4 DEF Drawn, Between
  <2>6. <<r.from, r.to, r.count>> = Told(line)
    BY <1>1, <2>3, <2>5
  <2> HIDE DEF Told
  <2> QED BY <2>5, <2>6
<1>3. ASSUME NEW line \in InDivision(code) PROVE Told(line) \in L
  <2> DEFINE u == BuyerNode(line)
             s == EdgeOf(line).supplier
  <2>1. line \in PlainLines
    BY DEF InDivision
  <2>2. u \in graph.procurers /\ u.ico = Buyer(line) /\ u.ico # None
    BY <2>1, BuyerOfLine, LineKnown DEF IssuedAlone
  <2>3. s \in graph.suppliers /\ s.ico = Winner(line) /\ s.ico # None
    BY <2>1, EdgeOfLine, LineKnown
  <2> HIDE DEF u, s
  <2>4. line \in Drawn(code, u.ico, s.ico)
    BY <2>1, <2>2, <2>3 DEF Drawn, Between
  <2>5. SharedBy(code, u, s) # {}
    <3>1. Pairs(Drawn(code, u.ico, s.ico), SharedBy(code, u, s), NoticeOf)
      BY <2>2, <2>3, SharedLines
    <3> QED BY <2>4, <3>1 DEF Pairs
  <2>6. <<u, s>> \in Joining(code)
    BY <2>2, <2>3, <2>5, PlainGraphParts DEF Joining
  <2>7. Row(u, s) \in Rows
    BY <2>6, DivisionRows
  <2> HIDE DEF Row, Rows
  <2>8. Told(line) = <<Row(u, s).from, Row(u, s).to, Row(u, s).count>>
    BY <1>1, <2>2, <2>3
  <2> HIDE DEF Told
  <2> QED BY <2>7, <2>8
<1>4. L \subseteq R
  <2> HIDE DEF Rows, R
  <2> QED BY <1>2
<1>5. R \subseteq L
  <2> HIDE DEF L, Told
  <2> QED BY <1>3
<1>6. L = R
  <2> HIDE DEF L, R
  <2> QED BY <1>4, <1>5
<1> HIDE DEF Row
<1> QED BY <1>6

-----------------------------------------------------------------------------
(* GraphFollowsStore *)

LEMMA GraphFollows ==
    ASSUME Inv, GraphOK
    PROVE  GraphFollowsStore
<1>1. \A p : {[ico |-> r.ico, count |-> r.count, total |-> r.total] :
                 r \in supplier_concentration_rows(PlainGraph, p)}
             = {RankedAs(s, p) : s \in WinnersBy(p)}
  BY RankingAgrees
<1>2. \A p : p \notin {s.ico : s \in graph.suppliers} =>
                {<<r.ico, r.count>> : r \in {r \in ego_network(PlainGraph, p) : r.type = "supplier"}}
                = {<<s, Cardinality(Between(p, s))>> : s \in WinnersBy(p)}
  BY EgoAgrees
<1>3. \A code : {<<r.from, r.to, r.count>> : r \in cpv_network(PlainGraph, code, 0, EndDay)}
               = {<<Buyer(line), Winner(line), Cardinality(Drawn(code, Buyer(line), Winner(line)))>> :
                     line \in InDivision(code)}
  BY DivisionAgrees
<1> QED BY <1>1, <1>2, <1>3 DEF GraphFollowsStore, PlainDocs, PlainGraph, PlainKeys, PlainLines, Buyer,
           Winner, Worth, Between, InDivision, Drawn, WinnersBy, Total, RankedAs

\* Over the documents that the graph merged whole, and between organisations known by
\* ico, the ranking of an authority's suppliers (supplier_concentration_rows), the
\* suppliers about an authority (ego_network) and the pairs of a division (cpv_network)
\* are what the stored notices say, counted award by award: a batch merged in pieces,
\* merged again or in another order leaves no edge out and none twice.
THEOREM GraphAgrees == Spec => []GraphFollowsStore
<1>1. Inv /\ GraphOK => GraphFollowsStore
  BY GraphFollows
<1> QED BY <1>1, GraphInvariant, PTL
=============================================================================
