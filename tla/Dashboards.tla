----------------------------- MODULE Dashboards -----------------------------
(***************************************************************************)
(* The dashboards: the filter and its defaults (uvo_core/domain/            *)
(* analytics.py), the aggregations over the notices and the shaping of      *)
(* their rows (uvo_core/adapters/mongo/dashboards.py), and the KPI deltas   *)
(* (uvo_core/services/analytics.py), as operators over a set of documents.  *)
(*                                                                          *)
(* Months have DaysPerMonth days and years twelve months.  Sums are exact;  *)
(* a percentage is a number of tenths, rounded half up.  Ranked rows of one  *)
(* value come in some fixed order, in the code that of their keys.          *)
(***************************************************************************)
EXTENDS Transformers, FiniteSets, FiniteSetsExt

CONSTANTS
    DaysPerMonth,
    DEFAULT_WINDOW_YEARS,   \* 4 in the code
    MAX_SPAN_YEARS,         \* 15
    EARLIEST_YEAR,          \* 1993
    TopSize                 \* 10: rows of the ranking of a concentration

ASSUME DashboardsAssumption ==
    /\ {DaysPerMonth, MAX_SPAN_YEARS, TopSize} \subseteq Nat \ {0}
    /\ {DEFAULT_WINDOW_YEARS, EARLIEST_YEAR} \subseteq Nat

D1_NOTICE_TYPE == "contract_award"
SOURCES == {"vestnik", "crz", "ted", "uvo", "itms"}
GRANULARITIES == {"month", "quarter", "year"}
NO_CPV == <<>>
COVERAGE_MONTHS == 24

-----------------------------------------------------------------------------
(* Calendar, value and date of a notice (D1) *)

MonthOf(day) == day \div DaysPerMonth       \* months are numbered from year 0
YearOf(day) == MonthOf(day) \div 12
FirstDay(year) == 12 * DaysPerMonth * year
LastDay(year) == FirstDay(year + 1) - 1

Value(n) == ValueOr(n.final_value, ValueOr(n.estimated_value, 0))
Final(n) == ValueOr(n.final_value, 0)
Date(n) == IF n.award_date # 0 THEN n.award_date ELSE n.publication_date

Sum(S, Amount(_)) == MapThenSumSet(Amount, S)
Tally(S) == [count |-> Cardinality(S), total |-> Sum(S, Value)]

\* part / whole scaled up and rounded; zero when there is no whole.
Ratio(scale, part, whole) ==
    IF whole = 0 THEN 0 ELSE (2 * scale * part + whole) \div (2 * whole)
Pct(part, whole) == Ratio(1000, part, whole)

-----------------------------------------------------------------------------
(* The filter *)

NoFilter == [date_from |-> None, date_to |-> None, cpv |-> <<>>, source |-> None,
             procurer_ico |-> None, supplier_ico |-> None]

with_defaults(f, today) ==
    LET to == IF f.date_to = None THEN today ELSE f.date_to
    IN [f EXCEPT !.date_to = to,
                 !.date_from = IF @ = None THEN FirstDay(YearOf(to) - DEFAULT_WINDOW_YEARS) ELSE @]

validate(f) ==
    /\ f.date_from <= f.date_to
    /\ f.date_to <= f.date_from + MAX_SPAN_YEARS * 12 * DaysPerMonth
    /\ f.source \in SOURCES \cup {None}

\* Seeded bug: the period starts on the day the window before it ends.
previous_period_sharing_a_day(f) ==
    LET start == f.date_from - (f.date_to - f.date_from)
    IN IF YearOf(start) < EARLIEST_YEAR THEN None
       ELSE [f EXCEPT !.date_from = start, !.date_to = f.date_from]

previous_period(f) ==
    LET end == f.date_from - 1
        start == end - (f.date_to - f.date_from)
    IN IF YearOf(start) < EARLIEST_YEAR THEN None
       ELSE [f EXCEPT !.date_from = start, !.date_to = end]

\* The distinct suppliers of a notice that have an ico.
Winners(n) == {a.supplier.ico : a \in ToSet(n.awards)} \ {None}
ProcurerIco(n) == IF n.procurer = None THEN None ELSE n.procurer.ico

build_match(docs, f) ==
    {n \in docs : /\ n.notice_type = D1_NOTICE_TYPE
                  /\ Date(n) # 0 /\ Date(n) \in f.date_from..f.date_to
                  /\ IsPrefix(f.cpv, n.cpv_code)
                  /\ f.source \in {None, n.source}
                  /\ f.procurer_ico \in {None, ProcurerIco(n)}
                  /\ f.supplier_ico \in {None} \cup Winners(n)}

-----------------------------------------------------------------------------
(* Groups and rankings *)

\* The bucket of a code: its first groups of digits, if it has that many.
_cpv_bucket_expr(n, groups) ==
    IF Len(n.cpv_code) >= groups THEN SubSeq(n.cpv_code, 1, groups) ELSE NO_CPV

\* The entities a notice counts for: a procurer, every supplier, a division.
KeysOf(n, dimension) ==
    CASE dimension = "procurer" -> {ProcurerIco(n)} \ {None}
      [] dimension = "supplier" -> Winners(n)
      [] dimension = "cpv_division" -> {_cpv_bucket_expr(n, 1)}
      [] dimension = "cpv_group" -> {_cpv_bucket_expr(n, 2)}
      [] dimension = "source" -> {n.source}

_entity_group_stages(S, dimension) ==
    LET Of(key) == {n \in S : key \in KeysOf(n, dimension)}
    IN {[key |-> key] @@ Tally(Of(key)) : key \in UNION {KeysOf(n, dimension) : n \in S}}

Ranked(rows, metric) == ByRank(rows, [row \in rows |-> -row[metric]])
Limit(seq, n) == SubSeq(seq, 1, IF n < Len(seq) THEN n ELSE Len(seq))
SumSeq(seq, field) == FoldLeft(LAMBDA sum, row : sum + row[field], 0, seq)
NotBelow(x, low) == IF x < low THEN low ELSE x

-----------------------------------------------------------------------------
(* The dashboards *)

summary(docs, f) ==
    LET S == build_match(docs, f)
    IN Tally(S) @@ [procurer_count |-> Cardinality(UNION {KeysOf(n, "procurer") : n \in S}),
                    supplier_count |-> Cardinality(UNION {Winners(n) : n \in S})]

\* From a month, or a year when the rows are grouped by year, to a bucket.
period_key(period, granularity) ==
    IF granularity = "quarter" THEN period \div 3 ELSE period

zero_filled_periods(f, granularity) ==
    {IF granularity = "year" THEN month \div 12 ELSE period_key(month, granularity) :
        month \in MonthOf(f.date_from)..MonthOf(f.date_to)}

\* One row by month, or by year, and split; one empty key when there is no split.
timeseries_rows(docs, f, granularity, split_by) ==
    LET S == build_match(docs, f)
        PeriodOf(n) == IF granularity = "year" THEN YearOf(Date(n)) ELSE MonthOf(Date(n))
        KeyOfRow(n) == IF split_by = None THEN {} ELSE KeysOf(n, split_by)
        Row(id) == Tally({n \in S : PeriodOf(n) = id.period /\ KeyOfRow(n) = id.key})
    IN {id @@ Row(id) : id \in {[period |-> PeriodOf(n), key |-> KeyOfRow(n)] : n \in S}}

\* Cells by bucket and split key, the splits beyond the first few folded into one.
timeseries(docs, f, granularity, split_by, top) ==
    LET rows == timeseries_rows(docs, f, granularity, split_by)
        Cell(keys, period) ==
            LET hit == {r \in rows : /\ period_key(r.period, granularity) = period
                                     /\ r.key \in keys}
            IN [count |-> Sum(hit, LAMBDA r : r.count), total |-> Sum(hit, LAMBDA r : r.total)]
        PointsFor(keys) == [p \in zero_filled_periods(f, granularity) |-> Cell(keys, p)]
        all == {r.key : r \in rows}
        ranked == Ranked({[key |-> k, total |-> Sum({r \in rows : r.key = k},
                                                    LAMBDA r : r.total)] : k \in all}, "total")
        kept == Limit(ranked, top)
        folded == all \ {r.key : r \in ToSet(kept)}
    IN [points |-> PointsFor(all),
        series |-> [k \in DOMAIN kept |-> PointsFor({kept[k].key})]
                   \o IF folded = {} THEN <<>> ELSE <<PointsFor(folded)>>]

\* The first n entities, and what they leave of the grand total, never below zero.
top_entities(docs, f, dimension, metric, n) ==
    LET S == build_match(docs, f)
        whole == Tally(S)
        items == Limit(Ranked(_entity_group_stages(S, dimension), metric), n)
        share == [k \in DOMAIN items |-> [pct |-> Pct(items[k][metric], whole[metric])]]
    IN [items |-> items, shares |-> share, whole |-> whole,
        other |-> [total |-> NotBelow(whole.total - SumSeq(items, "total"), 0),
                   count |-> NotBelow(whole.count - SumSeq(items, "count"), 0),
                   pct |-> IF whole[metric] = 0 THEN 0
                           ELSE NotBelow(1000 - SumSeq(share, "pct"), 0)]]

hhi(values) ==
    LET positive == SelectSeq(values, LAMBDA v : v > 0)
        total == FoldLeft(LAMBDA a, v : a + v, 0, positive)
    IN Ratio(100000, FoldLeft(LAMBDA a, v : a + v * v, 0, positive), total * total)

hhi_band(tenths) == IF tenths < 15000 THEN "low" ELSE IF tenths <= 25000 THEN "moderate" ELSE "high"

\* Only entities of a positive value count.
concentration_facets(docs, f, dimension) ==
    LET rows == {r \in _entity_group_stages(build_match(docs, f), dimension) : r.total > 0}
    IN [total |-> Sum(rows, LAMBDA r : r.total), n |-> Cardinality(rows),
        sumsq |-> Sum(rows, LAMBDA r : r.total * r.total),
        top |-> Limit(Ranked(rows, "total"), TopSize)]

\* The index is of all entities; the ratios are of the ranking's head.
concentration(docs, f, dimension) ==
    LET facets == concentration_facets(docs, f, dimension)
        index == Ratio(100000, facets.sumsq, facets.total * facets.total)
        HeadPct(k) == Pct(SumSeq(Limit(facets.top, k), "total"), facets.total)
    IN [hhi |-> index, hhi_band |-> hhi_band(index), top |-> facets.top,
        total |-> facets.total, entity_count |-> facets.n,
        cumulative |-> [k \in DOMAIN facets.top |-> HeadPct(k)],
        cr4 |-> HeadPct(4), cr10 |-> HeadPct(10)]

cpv_rows(docs, f, level) ==
    _entity_group_stages(build_match(docs, f),
                         IF level = "division" THEN "cpv_division" ELSE "cpv_group")

\* The whole is what the rows add up to.
cpv(docs, f, level) ==
    LET rows == cpv_rows(docs, f, level)
        whole == [count |-> Sum(rows, LAMBDA r : r.count), total |-> Sum(rows, LAMBDA r : r.total)]
    IN [whole |-> whole,
        items |-> Ranked({r @@ [pct |-> Pct(r.total, whole.total)] : r \in rows}, "total")]

\* The change of a figure against the period before, in tenths of a percent.
_delta_pct(current, previous) ==
    IF previous = 0 THEN None ELSE Ratio(1000, current - previous, previous)

kpis(docs, f) ==
    LET before == previous_period(f)
        current == summary(docs, f)
        previous == IF before = None THEN None ELSE summary(docs, before)
    IN [current |-> current, previous |-> previous,
        deltas |-> [field \in DOMAIN current |->
                       IF before = None THEN None ELSE _delta_pct(current[field], previous[field])]]

-----------------------------------------------------------------------------
(* Coverage: what the dashboards have of each source *)

coverage_since(now) == MonthOf(now) - (COVERAGE_MONTHS - 1)

\* One day for an hour-based cadence: healthy, a warning after one, stale after two.
freshness_status(source, last, now) ==
    CASE source = "uvo" -> "legacy"
      [] source # "uvo" /\ last = 0 -> "unknown"
      [] source # "uvo" /\ last # 0 ->
            LET age == NotBelow(now - last, 0)
            IN IF age <= 1 THEN "healthy" ELSE IF age <= 2 THEN "warning" ELSE "stale"

\* Quality is counted over the awards; a day of ingestion is enough of its time.
coverage_rows(docs, since) ==
    LET Of(source) == {n \in docs : n.source = source}
        Row(source) ==
            LET awards == {n \in Of(source) : n.notice_type = D1_NOTICE_TYPE}
                Count(Has(_)) == Cardinality({n \in awards : Has(n)})
            IN [notices_total |-> Cardinality(Of(source)), contract_awards |-> Cardinality(awards),
                last_ingested |-> Max({n.ingested_at : n \in Of(source)} \cup {0}),
                with_value |-> Count(LAMBDA n : Value(n) > 0),
                with_cpv |-> Count(LAMBDA n : n.cpv_code # <<>>),
                with_supplier |-> Count(LAMBDA n : Winners(n) # {}),
                with_procurer |-> Count(LAMBDA n : ProcurerIco(n) # None)]
        Published(source, month) ==
            Cardinality({n \in Of(source) : n.publication_date # 0
                                            /\ MonthOf(n.publication_date) = month})
    IN [sources |-> [s \in SOURCES |-> Row(s)],
        monthly |-> [s \in SOURCES |->
            [month \in {MonthOf(n.publication_date) : n \in Of(s)} \ 0..(since - 1) |->
                Published(s, month)]],
        canonical |-> Cardinality({n \in docs : n.canonical_id # None})]

\* Percentages, freshness and a grid of COVERAGE_MONTHS, empty months included.
coverage(docs, now) ==
    LET raw == coverage_rows(docs, coverage_since(now))
        Quality(row, field) == Pct(row[field], row.contract_awards)
        Source(s) ==
            LET row == raw.sources[s]
            IN [notices_total |-> row.notices_total, contract_awards |-> row.contract_awards,
                status |-> freshness_status(s, row.last_ingested, now),
                quality |-> [field \in {"with_value", "with_cpv", "with_supplier", "with_procurer"} |->
                                Quality(row, field)]]
        Month(s, month) == IF month \in DOMAIN raw.monthly[s] THEN raw.monthly[s][month] ELSE 0
    IN [sources |-> [s \in SOURCES |-> Source(s)],
        monthly |-> [s \in SOURCES |-> [month \in coverage_since(now)..MonthOf(now) |->
                                           Month(s, month)]],
        canonical |-> raw.canonical]

-----------------------------------------------------------------------------
(* The health report of the pipeline (uvo_pipeline/health.py) *)

STALE_THRESHOLD_DAYS == 14   \* DEFAULT_STALE_THRESHOLD_DAYS

\* Stale is a source that never gave anything, or not for long.  The document the
\* latest run is read off is any of those ingested last.
collect(docs, registry, now, last_run, threshold) ==
    LET Of(source) == {n \in docs : n.source = source}
        Since(source, days) == Cardinality({n \in Of(source) : n.ingested_at >= now - days})
        LastIn(S) == Max({n.ingested_at : n \in S} \cup {0})
        of_a_run == {n \in docs : n.pipeline_run_id # None}
        latest == {n \in of_a_run : n.ingested_at = LastIn(of_a_run)}
        Source(s) ==
            [total |-> Cardinality(Of(s)), last_24h |-> Since(s, 1), last_7d |-> Since(s, 7),
             last_ingested_at |-> LastIn(Of(s)), last_run_at |-> last_run,
             last_publication |-> Max({n.publication_date : n \in Of(s)} \cup {0}),
             stale |-> Of(s) = {} \/ now - LastIn(Of(s)) > threshold,
             registry_entries |-> Cardinality({e \in registry : e.key[1] = s})]
    IN [sources |-> [s \in SOURCES |-> Source(s)],
        totals |-> [notices |-> Cardinality(docs), registry_entries |-> Cardinality(registry),
                    canonical |-> Cardinality({n \in docs : n.canonical_id # None})],
        latest_runs |-> {n.pipeline_run_id : n \in latest}]
=============================================================================
