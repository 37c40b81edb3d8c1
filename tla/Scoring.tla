------------------------------ MODULE Scoring ------------------------------
(***************************************************************************)
(* The risk profile of a company: the four red flags and their blend        *)
(* (uvo_core/domain/scoring.py) over what the company's analytics and the   *)
(* graph return (uvo_core/services/risk.py).                                *)
(*                                                                          *)
(* A score is a number of tenths of a point, a share of ten-thousandths, a  *)
(* multiple of hundredths.  A flag is its code, whether it is triggered,    *)
(* its severity, its score and the evidence later steps read.               *)
(***************************************************************************)
EXTENDS CompanyAnalytics, Loaders

CONSTANTS
    SUPPLIER_CONCENTRATION_MIN_SUPPLIERS,   \* 5 in the code
    SUPPLIER_CONCENTRATION_MIN_VALUE,       \* 100000
    REPEAT_PAIR_MIN_COUNTERPARTIES,         \* 3
    REPEAT_PAIR_MIN_VALUE,                  \* 50000
    MARKET_MIN_CONTRACTS,                   \* 20
    AWARD_CLUSTER_COUNT,                    \* 4
    AWARD_CLUSTER_WINDOW_DAYS,              \* 30
    LOW_VALUE_CEILING,                      \* 180000, and 300000 for works
    LOW_VALUE_CEILING_WORKS,
    LOW_VALUE_FLOOR,                        \* 10000
    Works,                                  \* the division of works, 45
    FrameworkMarkers                        \* procedure types that mark a framework or a DNS

\* Below the count of a cluster a burst stays under 60 points, in whole tenths too.
ASSUME ScoringAssumption ==
    /\ {SUPPLIER_CONCENTRATION_MIN_SUPPLIERS, REPEAT_PAIR_MIN_COUNTERPARTIES,
        MARKET_MIN_CONTRACTS, AWARD_CLUSTER_COUNT, AWARD_CLUSTER_WINDOW_DAYS} \subseteq Nat \ {0}
    /\ AWARD_CLUSTER_COUNT < 1200

HHI_MODERATE == 1500
HHI_HIGH == 2500
REPEAT_PAIR_VALUE_SHARE == 5000
REPEAT_PAIR_HIGH_SHARE == 7500
MARKET_DEVIATION_MULTIPLE == 300
RISK_BAND_MODERATE == 300
RISK_BAND_HIGH == 600

\* Twice the weights of the code, in hundredths: the half weight is whole too.
FLAG_WEIGHTS == [supplier_concentration |-> 60, repeat_pair_share |-> 50,
                 market_deviation |-> 50, award_clustering |-> 40]

_band(value, moderate, high) ==
    IF value >= high THEN "high" ELSE IF value >= moderate THEN "moderate" ELSE "low"

Flag(code, triggered, severity, score, evidence) ==
    [code |-> code, triggered |-> triggered, severity |-> severity, score |-> score,
     evidence |-> evidence]

Capped(score) == IF score > 1000 THEN 1000 ELSE score

\* A flag whose measure is only a signal when it is material.
FlagIfMaterial(code, material, measure, moderate, high, trigger, evidence) ==
    IF material THEN Flag(code, measure >= trigger, _band(measure, moderate, high),
                          Ratio(1, measure, 10), evidence)
    ELSE Flag(code, FALSE, "informational", 0, evidence)

-----------------------------------------------------------------------------
(* Concentration of an authority's spend, and dominance of one counterparty *)

\* The index over the positive values.
cpv_concentration(values) ==
    LET positive == SelectSeq(values, LAMBDA v : v > 0)
        total == FoldLeft(LAMBDA a, v : a + v, 0, positive)
    IN Ratio(10000, FoldLeft(LAMBDA a, v : a + v * v, 0, positive), total * total)

supplier_concentration(rows) ==
    LET spend == SelectSeq(rows, LAMBDA r : r.total > 0)
    IN FlagIfMaterial("supplier_concentration",
           /\ Len(spend) >= SUPPLIER_CONCENTRATION_MIN_SUPPLIERS
           /\ SumSeq(spend, "total") >= SUPPLIER_CONCENTRATION_MIN_VALUE,
           cpv_concentration([k \in DOMAIN rows |-> rows[k].total]),
           HHI_MODERATE, HHI_HIGH, HHI_HIGH,
           [supplier_count |-> Len(spend), total |-> SumSeq(spend, "total")])

\* The rows of both roles; the subject's role mirrors the top counterparty's.
repeat_pair_share(rows) ==
    LET total == SumSeq(rows, "total")
        top == FirstThat(rows, LAMBDA r : \A k \in DOMAIN rows : r.total >= rows[k].total)
        share == Ratio(10000, top.total, total)
    IN IF rows = <<>> \/ total <= 0
         THEN Flag("repeat_pair_share", FALSE, "informational", 0,
                   [counterparty_count |-> Len(rows), subject_role |-> None])
       ELSE FlagIfMaterial("repeat_pair_share",
                /\ Len(rows) >= REPEAT_PAIR_MIN_COUNTERPARTIES
                /\ total >= REPEAT_PAIR_MIN_VALUE,
                share, REPEAT_PAIR_VALUE_SHARE, REPEAT_PAIR_HIGH_SHARE, REPEAT_PAIR_VALUE_SHARE,
                [counterparty_count |-> Len(rows),
                 subject_role |-> IF top.role = "procurer" THEN "supplier" ELSE "procurer"])

-----------------------------------------------------------------------------
(* A company's average value per code against the market's median *)

\* The median of a code with enough contracts, or else their mean, as a fraction.
market_baseline(market) ==
    LET kept == {r \in ToSet(market) : r.count >= MARKET_MIN_CONTRACTS /\ r.total > 0}
    IN [code \in {r.key : r \in kept} |->
           LET r == CHOOSE r \in kept : r.key = code
           IN IF r.median > 0 THEN <<r.median, 1>> ELSE <<r.total, r.count>>]

market_deviation(company, market) ==
    LET baseline == market_baseline(market)
        compared == {r \in ToSet(company) : r.key \in DOMAIN baseline}
        Multiple(r) == Ratio(100, r.total * baseline[r.key][2], r.count * baseline[r.key][1])
        worst == Max({Multiple(r) : r \in compared} \cup {0})
    IN Flag("market_deviation", worst >= MARKET_DEVIATION_MULTIPLE,
            _band(worst, MARKET_DEVIATION_MULTIPLE, 2 * MARKET_DEVIATION_MULTIPLE),
            Capped(Ratio(500, worst, MARKET_DEVIATION_MULTIPLE)),
            [multiple |-> worst, compared |-> Cardinality(compared)])

-----------------------------------------------------------------------------
(* Bursts of awards to one counterparty *)

is_framework_or_dns(procedure_type) == procedure_type \in FrameworkMarkers

\* Seeded bug: awards exactly the window apart do not share it.
WindowStartStrict(records, left, right) ==
    CHOOSE k \in left..right :
        /\ k = right \/ records[right].date - records[k].date < AWARD_CLUSTER_WINDOW_DAYS
        /\ \A j \in left..(k - 1) :
              records[right].date - records[j].date >= AWARD_CLUSTER_WINDOW_DAYS

\* The first award, from left on, within the window that ends at right.
WindowStart(records, left, right) ==
    CHOOSE k \in left..right :
        /\ records[right].date - records[k].date <= AWARD_CLUSTER_WINDOW_DAYS
        /\ \A j \in left..(k - 1) :
              records[right].date - records[j].date > AWARD_CLUSTER_WINDOW_DAYS

\* The two pointers: the first of the longest windows.
LongestBurst(records) ==
    FoldLeft(LAMBDA at, right :
                 LET left == WindowStart(records, at.left, right)
                 IN [left |-> left,
                     best |-> IF right - left + 1 > Len(at.best)
                                THEN SubSeq(records, left, right) ELSE at.best],
             [left |-> 1, best |-> <<>>], [k \in DOMAIN records |-> k]).best

\* What a burst sums to is close below the ceiling of the division it shares.
approaches_ceiling(burst, ceiling) ==
    LET worth == FoldLeft(LAMBDA sum, r : sum + r.value, 0, burst)
    IN worth >= LOW_VALUE_FLOOR /\ 7 * ceiling <= 10 * worth /\ worth <= ceiling

\* A dense burst triggers when its codes share one division; its value, or twice the
\* density, makes it severe; without a shared division it informs, at half the score.
BurstFlag(burst, divisions, density) ==
    LET Triggered(severity) ==
            Flag("award_clustering", TRUE, severity, density,
                 [burst |-> burst, divisions |-> divisions])
        Untriggered(severity, score) ==
            Flag("award_clustering", FALSE, severity, score,
                 [burst |-> burst, divisions |-> divisions])
    IN IF Len(burst) < AWARD_CLUSTER_COUNT THEN Untriggered("low", density)
       ELSE IF Cardinality(divisions) # 1 THEN Untriggered("informational", Ratio(1, density, 2))
       ELSE IF Len(burst) >= 2 * AWARD_CLUSTER_COUNT
               \/ approaches_ceiling(burst, IF divisions = {<<Works>>} THEN LOW_VALUE_CEILING_WORKS
                                            ELSE LOW_VALUE_CEILING)
              THEN Triggered("high")
       ELSE Triggered("moderate")

DivisionsOf(burst) == {SubSeq(r.cpv_code, 1, 1) : r \in {r \in ToSet(burst) : r.cpv_code # <<>>}}

award_clustering(awards) ==
    LET burst == LongestBurst(ByRank({a \in awards : a.date # 0}, [a \in awards |-> a.date]))
    IN BurstFlag(burst, DivisionsOf(burst), Capped(Ratio(600, Len(burst), AWARD_CLUSTER_COUNT)))

\* The series of each counterparty, without the call-offs of a framework.
SeriesOf(timeline, ico) ==
    {r \in timeline : r.counterparty = ico /\ r.date # 0 /\ ~is_framework_or_dns(r.procedure_type)}

Highest(flags) == CHOOSE f \in flags : \A g \in flags : f.score >= g.score

_worst_award_cluster(timeline) ==
    Highest({award_clustering(SeriesOf(timeline, ico)) :
                ico \in {r.counterparty : r \in timeline} \ {None}}
            \cup {award_clustering({})})

-----------------------------------------------------------------------------
(* The profile *)

risk_summary(flags) ==
    LET Weight(f) ==
            IF f.code = "repeat_pair_share" /\ f.evidence.subject_role = "supplier"
              THEN FLAG_WEIGHTS[f.code] \div 2 ELSE FLAG_WEIGHTS[f.code]
        score == Ratio(1, Sum(flags, LAMBDA f : Weight(f) * f.score), Sum(flags, Weight))
    IN [risk_score |-> score, risk_band |-> _band(score, RISK_BAND_MODERATE, RISK_BAND_HIGH)]

\* The graph's rows when there is a graph, or else the partners the company buys from.
_supplier_rows(docs, graph, ico) ==
    IF graph # None THEN Ranked(supplier_concentration_rows(graph, ico), "total")
    ELSE _company_partners_agg(docs, ico, "supplier", "total", 100, 0).items

Profile(flags) == [flags |-> flags] @@ risk_summary(flags)

company_risk_profile(docs, graph, ico) ==
    Profile({supplier_concentration(_supplier_rows(docs, graph, ico)),
             repeat_pair_share(_company_partners_agg(docs, ico, "all", "total", 100, 0).items),
             market_deviation(_company_core_agg(docs, ico).cpv, _market_cpv_agg(docs, 200)),
             _worst_award_cluster(award_timeline(docs, ico))})
=============================================================================
