------------------------------ MODULE Matching ------------------------------
(***************************************************************************)
(* Cross-source matching (uvo_core/adapters/mongo/dedup.py): the three      *)
(* builders of match groups, as operators over a corpus.  A corpus maps a   *)
(* notice id to the fields the builders project: source, the procurer's     *)
(* ico, cpv_code, title_slug, the day of publication (0: no date) and the   *)
(* awards, each the supplier's ico and a value (0: none, or not positive).  *)
(* canonical maps each id to its canonical_id.  A query returns documents   *)
(* in no promised order, so a builder is given one of the orders its sort   *)
(* by date may leave.                                                       *)
(***************************************************************************)
EXTENDS Integers, FiniteSets, Sequences, SequencesExt

CONSTANTS
    None,                          \* null: no ico, no code, no slug, no canonical_id
    MAX_NOTICES_PER_SUPPLIER_ICO   \* 20 in the code

ASSUME MatchingAssumption == MAX_NOTICES_PER_SUPPLIER_ICO \in Nat \ {0}

ICO_VALUE_WINDOW_DAYS == 14
TITLE_WINDOW_DAYS == 7

Passes == {"ico_cpv", "title_slug_date", "supplier_ico_value_window"}

-----------------------------------------------------------------------------
(* Helpers *)

Distance(a, b) == IF a > b THEN a - b ELSE b - a
Sources(corpus, S) == {corpus[n].source : n \in S}

\* The orders in which a set of notices may come out of a stable sort by date;
\* a missing date sorts first.
SortedByDate(corpus, S) ==
    {s \in SetToSeqs(S) :
        \A j, k \in DOMAIN s : j < k => corpus[s[j]].published <= corpus[s[k]].published}

\* The first notice of the order that is in S.
Earliest(order, S) ==
    order[CHOOSE k \in DOMAIN order : order[k] \in S /\ \A j \in 1..(k - 1) : order[j] \notin S]

\* Seeded bug: two arguments swapped.
GroupSwapped(corpus, members, match_type, canonical_id) ==
    [canonical_id |-> canonical_id, notices |-> members, match_type |-> match_type]

Group(corpus, members, canonical_id, match_type) ==
    [canonical_id |-> canonical_id, notices |-> members, match_type |-> match_type]

\* Seeded bug: a candidate is compared with the anchor only.
AgreesWithAnchor(agree, n, anchor, members) == <<n, anchor>> \in agree

\* Every member of the cluster, not only the anchor, must agree.
Agrees(agree, n, anchor, members) == \A m \in members : <<n, m>> \in agree

NearAndDated(corpus, n, m, days) ==
    /\ corpus[n].published # 0 /\ corpus[m].published # 0
    /\ Distance(corpus[n].published, corpus[m].published) <= days

\* What the k-th notice of the order gathers: the later ones, still free, that are
\* near it and agree with whatever was gathered before.
Gather(order, free, near, agree, k) ==
    LET members[j \in 0..Len(order)] ==
            IF j <= k THEN {order[k]}
            ELSE members[j - 1]
                 \cup {n \in free \cap {order[j]} :
                          <<n, order[k]>> \in near /\ Agrees(agree, n, order[k], members[j - 1])}
    IN members[Len(order)]

\* The greedy clustering of passes 2 and 3 over one bucket: in the order by date,
\* each dated notice that is in no cluster yet gathers those of another source
\* within days of it; a cluster of one source is dropped.
Clusters(corpus, order, bucket, days, agree) ==
    LET near == {p \in bucket \X bucket : /\ corpus[p[1]].source # corpus[p[2]].source
                                          /\ NearAndDated(corpus, p[1], p[2], days)}
        found[k \in 0..Len(order)] ==
            IF k = 0 THEN {}
            ELSE LET free == bucket \ UNION {c.members : c \in found[k - 1]}
                     cluster == [anchor |-> order[k],
                                 members |-> Gather(order, free, near, agree, k)]
                 IN IF /\ order[k] \in free
                       /\ corpus[order[k]].published # 0
                       /\ Cardinality(Sources(corpus, cluster.members)) >= 2
                      THEN found[k - 1] \cup {cluster} ELSE found[k - 1]
    IN found[Len(order)]

-----------------------------------------------------------------------------
(* Pass 1: shared procurer ICO and CPV code *)

SameProcurerAndCpv(corpus, n, m) ==
    /\ corpus[n].procurer # None /\ corpus[n].cpv # None
    /\ corpus[n].procurer = corpus[m].procurer /\ corpus[n].cpv = corpus[m].cpv

\* Seeded bug: settled notices leave the pool.
build_ico_cpv_groups_of_unsettled(corpus, canonical, window, order) ==
    LET Bucket(n) == {m \in window : SameProcurerAndCpv(corpus, n, m) /\ canonical[m] = None}
        buckets == {Bucket(n) : n \in window}
    IN {Group(corpus, B, Earliest(order, B), "ico_cpv") :
            B \in {B \in buckets : Cardinality(Sources(corpus, B)) >= 2}}

\* Settled notices stay in the pool; a group nothing of which is unassigned is
\* left alone.  The earliest member's id is the canonical_id.
build_ico_cpv_groups(corpus, canonical, window, order) ==
    LET Bucket(n) == {m \in window : SameProcurerAndCpv(corpus, n, m)}
        buckets == {Bucket(n) : n \in window}
    IN {Group(corpus, B, Earliest(order, B), "ico_cpv") :
            B \in {B \in buckets : /\ Cardinality(Sources(corpus, B)) >= 2
                                   /\ \E n \in B : canonical[n] = None}}

-----------------------------------------------------------------------------
(* Pass 2: title slug and dates within a week, for notices without an ICO *)

\* Seeded bug: the notices the pass before has settled stay in the pool.
NoIcoSettledToo(corpus, canonical, window) ==
    {n \in window : corpus[n].slug # None /\ corpus[n].procurer = None}

NoIco(corpus, canonical, window) ==
    {n \in window : corpus[n].slug # None /\ corpus[n].procurer = None /\ canonical[n] = None}

build_title_slug_groups(corpus, canonical, window, order) ==
    LET pool == NoIco(corpus, canonical, window)
        Found(slug) ==
            LET bucket == {n \in pool : corpus[n].slug = slug}
            IN Clusters(corpus, order, bucket, TITLE_WINDOW_DAYS, bucket \X bucket)
    IN {Group(corpus, c.members, c.anchor, "title_slug_date") :
            c \in UNION {Found(slug) : slug \in {corpus[n].slug : n \in pool}}}

-----------------------------------------------------------------------------
(* Pass 3: supplier ICO, dates within two weeks, values within a ratio of 1.5 *)

Suppliers(corpus, n) == {award.supplier : award \in corpus[n].awards} \ {None}
Values(corpus, n, ico) ==
    {award.value : award \in {award \in corpus[n].awards : award.supplier = ico}}

\* Some known values of the two are within ICO_VALUE_RATIO_MAX of each other.
ValuesCompatible(values_a, values_b) ==
    \E a \in values_a, b \in values_b :
        /\ a > 0 /\ b > 0
        /\ 2 * a <= 3 * b /\ 2 * b <= 3 * a

Unassigned(corpus, canonical, window, ico) ==
    {n \in window : canonical[n] = None /\ ico \in Suppliers(corpus, n)}

\* The pairs of a bucket that agree on what the supplier was paid.
Compatible(corpus, bucket, ico) ==
    {p \in bucket \X bucket :
        ValuesCompatible(Values(corpus, p[1], ico), Values(corpus, p[2], ico))}

build_ico_value_window_groups(corpus, canonical, window, order) ==
    LET Bucket(ico) == Unassigned(corpus, canonical, window, ico)
        icos == {ico \in UNION {Suppliers(corpus, n) : n \in window} :
                    Cardinality(Bucket(ico)) <= MAX_NOTICES_PER_SUPPLIER_ICO}
        Found(ico) ==
            Clusters(corpus, order, Bucket(ico), ICO_VALUE_WINDOW_DAYS,
                     Compatible(corpus, Bucket(ico), ico))
    IN {Group(corpus, c.members, c.anchor, "supplier_ico_value_window") :
            c \in UNION {Found(ico) : ico \in icos}}

Build(match_type, corpus, canonical, window, order) ==
    CASE match_type = "ico_cpv" ->
            build_ico_cpv_groups(corpus, canonical, window, order)
      [] match_type = "title_slug_date" ->
            build_title_slug_groups(corpus, canonical, window, order)
      [] match_type = "supplier_ico_value_window" ->
            build_ico_value_window_groups(corpus, canonical, window, order)

-----------------------------------------------------------------------------
(* What the three passes promise, stated without the clustering *)

\* Two notices that one of the passes takes for the same contract.
Matching(corpus, window, n, m) ==
    /\ corpus[n].source # corpus[m].source
    /\ \/ SameProcurerAndCpv(corpus, n, m)
       \/ /\ corpus[n].procurer = None /\ corpus[m].procurer = None
          /\ corpus[n].slug # None /\ corpus[n].slug = corpus[m].slug
          /\ NearAndDated(corpus, n, m, TITLE_WINDOW_DAYS)
       \/ \E ico \in Suppliers(corpus, n) \cap Suppliers(corpus, m) :
             /\ NearAndDated(corpus, n, m, ICO_VALUE_WINDOW_DAYS)
             /\ ValuesCompatible(Values(corpus, n, ico), Values(corpus, m, ico))
             /\ Cardinality({k \in window : ico \in Suppliers(corpus, k)})
                    <= MAX_NOTICES_PER_SUPPLIER_ICO

\* The members of a group belong together pairwise, however they were gathered.
SoundGroup(corpus, g) ==
    /\ g.canonical_id \in g.notices
    /\ \A n \in g.notices : corpus[g.canonical_id].published <= corpus[n].published
    /\ Cardinality(Sources(corpus, g.notices)) >= 2
    /\ \A n, m \in g.notices :
          CASE g.match_type = "ico_cpv" -> SameProcurerAndCpv(corpus, n, m)
            [] g.match_type = "title_slug_date" ->
                  /\ corpus[n].slug = corpus[m].slug
                  /\ NearAndDated(corpus, n, m, TITLE_WINDOW_DAYS)
            [] g.match_type = "supplier_ico_value_window" ->
                  /\ NearAndDated(corpus, n, m, ICO_VALUE_WINDOW_DAYS)
                  /\ n # m => \E ico \in Suppliers(corpus, n) \cap Suppliers(corpus, m) :
                        ValuesCompatible(Values(corpus, n, ico), Values(corpus, m, ico))
=============================================================================
