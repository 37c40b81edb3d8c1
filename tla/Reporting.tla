----------------------------- MODULE Reporting -----------------------------
(***************************************************************************)
(* What the read side says of the documents the pipeline leaves behind: the *)
(* dashboards, the profiles and the risk flags are so many ways to count the *)
(* same notices, and must agree where they count the same.  A user may ask   *)
(* at any time; the properties look between runs.                            *)
(***************************************************************************)
EXTENDS LegacyPipeline, Scoring, Searching

CONSTANTS
    Icos,      \* the organisations asked about
    Filters    \* the filters asked with, before the defaults

Docs == db.store

\* Neither a release nor, for a view without a date, a new day changes what there is
\* to ask about: what holds at the end of a day held all of it since the run.
DayOver == run = Idle /\ \A r \in Releases : r.day <= today => r \in released
AllOver == DayOver /\ today = EndDay

Asked == {with_defaults(f, today) : f \in Filters}

SumPoints(points, field) == Sum(DOMAIN points, LAMBDA p : points[p][field])
SumRows(rows, field) == Sum(rows, LAMBDA r : r[field])
SameTally(a, b) == a.count = b.count /\ a.total = b.total

-----------------------------------------------------------------------------
(* The dashboards among themselves *)

\* The points sum to the summary, and the split series to the points.
SeriesAgree(f) ==
    \A granularity \in GRANULARITIES :
        LET points == timeseries(Docs, f, granularity, None, 5).points
            whole == summary(Docs, f)
        IN /\ SumPoints(points, "count") = whole.count
           /\ SumPoints(points, "total") = whole.total
           /\ \A split_by \in {"source", "cpv_division"} :
                 LET series == timeseries(Docs, f, granularity, split_by, 1).series
                 IN \A p \in DOMAIN points :
                       FoldLeft(LAMBDA sum, s : sum + s[p].total, 0, series) = points[p].total

\* The filter that a row of a ranking leads to.
DrillDown(f, dimension, key) ==
    CASE dimension = "procurer" -> [f EXCEPT !.procurer_ico = key]
      [] dimension = "supplier" -> [f EXCEPT !.supplier_ico = key]
      [] dimension = "cpv_division" -> [f EXCEPT !.cpv = key]

\* A ranking and its rest make the whole, unless a notice has several winners; and
\* a row is what the summary says once its key is the filter.
RankingsAgree(f) ==
    \A dimension \in {"procurer", "supplier", "cpv_division"}, metric \in {"total", "count"} :
        LET top == top_entities(Docs, f, dimension, metric, 2)
        IN /\ \A field \in {"total", "count"} :
                 LET sum == SumSeq(top.items, field) + top.other[field]
                 IN IF dimension = "supplier" THEN sum >= top.whole[field]
                    ELSE sum = top.whole[field]
           /\ f.procurer_ico = None /\ f.supplier_ico = None /\ f.cpv = <<>> =>
                 \A k \in DOMAIN top.items :
                    dimension # "cpv_division" \/ top.items[k].key # NO_CPV =>
                        SameTally(top.items[k],
                                  summary(Docs, DrillDown(f, dimension, top.items[k].key)))

\* The index of the dashboard is that of the plain function over all entities.
ConcentrationAgrees(f) ==
    \A dimension \in {"procurer", "supplier"} :
        LET shown == concentration(Docs, f, dimension)
            all == top_entities(Docs, f, dimension, "total", 100).items
        IN /\ shown.hhi = hhi([k \in DOMAIN all |-> all[k].total])
           /\ shown.cr4 <= shown.cr10 /\ shown.cr10 <= 1000
           /\ shown.entity_count <= summary(Docs, f)[IF dimension = "procurer" THEN
                                        "procurer_count" ELSE "supplier_count"]

\* No award falls between a period and the one before it, nor into both.
PeriodsAdjoin(f) ==
    LET before == previous_period(f) IN
    before # None =>
        LET both == summary(Docs, [f EXCEPT !.date_from = before.date_from])
            kpi == kpis(Docs, f)
        IN /\ kpi.current.count + kpi.previous.count = both.count
           /\ kpi.current.total + kpi.previous.total = both.total

\* Groups add up to their division, but for codes that name a division alone.
CodesAgree(f) ==
    LET divisions == ToSet(cpv(Docs, f, "division").items)
        groups == ToSet(cpv(Docs, f, "group").items)
    IN /\ SumRows(divisions, "count") = summary(Docs, f).count
       /\ SumRows(groups, "total") = SumRows(divisions, "total")
       /\ \A d \in divisions :
             d.key # NO_CPV /\ (\A n \in Docs : Len(n.cpv_code) # 1) =>
                 SumRows({g \in groups : IsPrefix(d.key, g.key)}, "total") = d.total

\* The health report counts the same notices; what came in lately is part of what
\* came in, only a source without recent notices is stale, and no source has more
\* registry entries than notices: the registry never runs ahead of the store.
HealthAgrees(shown, report) ==
    /\ report.totals.notices = Sum(SOURCES, LAMBDA s : shown.sources[s].notices_total)
    /\ report.totals.canonical = shown.canonical
    /\ \A s \in SOURCES :
          LET row == report.sources[s] IN
          /\ row.total = shown.sources[s].notices_total
          /\ row.last_24h <= row.last_7d /\ row.last_7d <= row.total
          /\ row.last_7d > 0 => ~row.stale
          /\ row.registry_entries <= row.total

\* The grid counts no more than there is, and all awards have a source.
CoverageAgrees ==
    LET shown == coverage(Docs, today) IN
    /\ \A s \in SOURCES :
          SumPoints([m \in DOMAIN shown.monthly[s] |-> [n |-> shown.monthly[s][m]]], "n")
              <= shown.sources[s].notices_total
    /\ Sum(SOURCES, LAMBDA s : shown.sources[s].contract_awards)
       = SumRows(spend_by_year(Docs, None, None), "count")
    /\ HealthAgrees(shown, collect(Docs, db.registry, today, db.lastRun, STALE_THRESHOLD_DAYS))

\* The default period is a valid one, and on every filter asked with, the views of
\* the same awards agree.
DashboardsAgree ==
    DayOver =>
        /\ validate(with_defaults(NoFilter, today))
        /\ CoverageAgrees
        /\ \A f \in Asked : validate(f) =>
              /\ SeriesAgree(f) /\ RankingsAgree(f) /\ ConcentrationAgrees(f)
              /\ PeriodsAdjoin(f) /\ CodesAgree(f)

-----------------------------------------------------------------------------
(* Profiles, company pages and dashboards *)

YearFilter(year, ico, role) ==
    [NoFilter EXCEPT !.date_from = FirstDay(year), !.date_to = LastDay(year),
                     !.procurer_ico = IF role = "procurer" THEN ico ELSE None,
                     !.supplier_ico = IF role = "supplier" THEN ico ELSE None]

\* The profile, the years, the codes and the dashboards count the same awards.
ProfileAgrees(ico, role) ==
    LET profile == entity_profile(Docs, ico, role, 10)
        years == spend_by_year(Docs, ico, role)
    IN /\ profile.total = SumRows(years, "total")
       /\ SumRows(cpv_breakdown(Docs, ico, role, 0, YearOf(EndDay)), "total") = profile.total
       /\ profile.partner_total <= profile.total
       /\ FoldLeft(LAMBDA sum, n : sum + Final(n), 0, top_contracts_by_value(Docs, ico, role, 100))
              <= profile.total
       /\ \A y \in profile.spend_by_year :
             SameTally(y, summary(Docs, YearFilter(y.year, ico, role)))

\* The months of a year sum to the year.
MonthsAgree ==
    \A y \in spend_by_year(Docs, None, None) :
        y.year >= EARLIEST_YEAR =>
            /\ SumRows(monthly_buckets(Docs, y.year), "count") = y.count
            /\ SumRows(monthly_buckets(Docs, y.year), "total") = y.total

\* A buyer's row for a winner is the winner's for the buyer, unless one notice names
\* the winner in several award lines.
PartnersMirror ==
    LET Rows(ico, role) == ToSet(_company_partners_agg(Docs, ico, role, "total", 100, 0).items)
        bought == [ico \in Icos |-> Rows(ico, "supplier")]
        sold == [ico \in Icos |-> Rows(ico, "procurer")]
        Tallies(rows, ico) == {<<r.count, r.total>> : r \in {r \in rows : r.ico = ico}}
    IN \A buyer, winner \in Icos :
          (\A n \in Issues(Docs, buyer) : Cardinality(Lines(n, winner)) <= 1)
          => Tallies(bought[buyer], winner) = Tallies(sold[winner], buyer)

\* Every code a company is compared on is a code of the market, with more contracts.
MarketCovers(ico) ==
    \A r \in ToSet(_company_core_agg(Docs, ico).cpv) :
        r.key # <<>> => \E m \in ToSet(_market_cpv_agg(Docs, 200)) :
                           m.key = r.key /\ m.count >= r.count

\* A row of the overall ranking is what the company's own page says, unless one
\* notice names the winner in several award lines.
TopRowsAgree(role) ==
    \A r \in ToSet(_top_entities_agg(Docs, role, 100)) :
        LET page == _company_core_agg(Docs, r.key)
        IN SameTally(r, IF role = "supplier" THEN page.as_supplier ELSE page.as_procurer)
           \/ \E n \in Docs : Cardinality(Lines(n, r.key)) > 1

\* A company is on the list exactly when it has a page, in the same roles, with the
\* counts of both added up; and its primary role is one of them, the larger one.
CompaniesAgree ==
    LET rows == ToSet(list_companies(Docs, db.procurers, db.suppliers, "all", 100, 0).items)
    IN \A ico \in Icos :
          LET page == get_company_profile(Docs, db.procurers, db.suppliers, ico)
              listed == {r \in rows : r.ico = ico}
              Of(role) == IF role = "supplier" THEN page.as_supplier ELSE page.as_procurer
              CountOf(role) == IF Of(role) = None THEN 0 ELSE Of(role).count
          IN IF page = None THEN listed = {}
             ELSE /\ {r.roles : r \in listed} = {page.roles}
                  /\ {r.contract_count : r \in listed}
                        = {CountOf("supplier") + CountOf("procurer")}
                  /\ page.primary_role \in page.roles
                  /\ \A role \in page.roles : CountOf(page.primary_role) >= CountOf(role)
                  /\ \A c \in ToSet(page.top_contracts) : c.role \in page.roles

\* How many a search finds, and what they are worth.
Found(q) ==
    LET result == search_procurements(Docs, q, 100, 0)
    IN [count |-> result.total, total |-> FoldLeft(LAMBDA sum, n : sum + Value(n), 0, result.items)]

\* A search for all a profile, a code or a source stands for finds what these count;
\* word by word it finds what it finds without words.
SearchAgrees ==
    LET by_source == coverage_rows(Docs, 0).sources
        codes == cpv_breakdown(Docs, None, None, 0, YearOf(EndDay))
    IN /\ \A s \in SOURCES :
             LET q == [NoQuery EXCEPT !.source = s] IN
             /\ Found(q).count = by_source[s].contract_awards
             /\ Found([q EXCEPT !.value_min = 1]).count = by_source[s].with_value
             /\ Found(q).count = Sum({n.title_slug : n \in Docs},
                                     LAMBDA slug : Found([q EXCEPT !.text = slug]).count)
       /\ \A c \in codes : SameTally(c, Found([NoQuery EXCEPT !.exact = {c.key}]))
       /\ \A ico \in Icos :
             /\ SameTally(entity_profile(Docs, ico, "procurer", 10),
                          Found([NoQuery EXCEPT !.procurer_id = ico]))
             /\ SameTally(entity_profile(Docs, ico, "supplier", 10),
                          Found([NoQuery EXCEPT !.supplier_ico = ico]))

\* The pages of one organisation and of its partner tell the same story.
ProfilesAgree ==
    AllOver =>
        /\ MonthsAgree /\ CompaniesAgree /\ SearchAgrees /\ PartnersMirror
        /\ TopRowsAgree("supplier") /\ TopRowsAgree("procurer")
        /\ \A ico \in Icos :
              /\ MarketCovers(ico)
              /\ \A role \in {"procurer", "supplier"} : ProfileAgrees(ico, role)

-----------------------------------------------------------------------------
(* The risk profile *)

\* The most awards within a window, by looking back from each of them.
MaxBurst(S) ==
    Max({Cardinality({q \in S : q.date \in (r.date - AWARD_CLUSTER_WINDOW_DAYS)..r.date}) :
            r \in S} \cup {0})

SeriesHad(ico) ==
    {SeriesOf(award_timeline(Docs, ico), other) :
        other \in {r.counterparty : r \in award_timeline(Docs, ico)} \ {None}}

\* The density reported is that of some counterparty's awards, no call-off among
\* them; a series that triggers is not hidden behind one that does not.
ClusteringSound(flag, ico) ==
    /\ Len(flag.evidence.burst) \in {MaxBurst(S) : S \in SeriesHad(ico)} \cup {0}
    /\ \A r \in ToSet(flag.evidence.burst) : r.procedure_type \notin FrameworkMarkers
    /\ flag.triggered =>
          /\ Len(flag.evidence.burst) >= AWARD_CLUSTER_COUNT
          /\ Cardinality(flag.evidence.divisions) = 1
    /\ (\E S \in SeriesHad(ico) : award_clustering(S).triggered) => flag.triggered

\* Every flag that fires rests on a material sample: as many suppliers, partners or
\* contracts as its threshold asks for (a partner in both roles, or without ico,
\* counts as two); what is informational weighs nothing unless it is a burst; and
\* the blend lies between its parts.
FlagSound(flag, ico, store) ==
    /\ flag.score \in 0..1000
    /\ flag.triggered => flag.severity \in {"moderate", "high"}
    /\ flag.severity = "informational" =>
          ~flag.triggered /\ (flag.code = "award_clustering" \/ flag.score = 0)
    /\ flag.code = "supplier_concentration" /\ flag.triggered /\ store = None =>
          Cardinality(UNION {Winners(n) : n \in Issues(Docs, ico)})
              >= SUPPLIER_CONCENTRATION_MIN_SUPPLIERS
    /\ flag.code = "repeat_pair_share" /\ flag.triggered =>
          LET rows == ToSet(_company_partners_agg(Docs, ico, "all", "total", 100, 0).items)
              twice == {r.ico : r \in {r \in rows : \E q \in rows : q # r /\ q.ico = r.ico}}
          IN Cardinality({r.ico : r \in rows}) + Cardinality(twice)
                 >= REPEAT_PAIR_MIN_COUNTERPARTIES
    /\ flag.code = "award_clustering" => ClusteringSound(flag, ico)

ProfileSound(profile, ico, store) ==
    LET scores == {f.score : f \in profile.flags}
    IN /\ profile.risk_score \in Min(scores)..Max(scores)
       /\ \A flag \in profile.flags : FlagSound(flag, ico, store)

RiskSound ==
    AllOver =>
        \A ico \in Icos, store \in {graph, None} :
            ProfileSound(company_risk_profile(Docs, store, ico), ico, store)
=============================================================================
