-------------------------- MODULE CompanyAnalytics --------------------------
(***************************************************************************)
(* The aggregations behind the profiles of companies and the older          *)
(* dashboards (uvo_core/adapters/mongo/analytics.py), as operators over a    *)
(* set of documents.  Most count contract awards by final, else estimated    *)
(* value; the three of the company page count every notice that names the    *)
(* company, and the final value alone.                                       *)
(***************************************************************************)
EXTENDS Dashboards

-----------------------------------------------------------------------------
(* Who is named *)

Wins(docs, ico) == {n \in docs : ico \in Winners(n)}
Issues(docs, ico) == {n \in docs : ProcurerIco(n) = ico}

\* Seeded bug: with a company, notices of every type are taken.
_dashboard_match_any_type(docs, ico, role) ==
    IF ico = None THEN {n \in docs : n.notice_type = D1_NOTICE_TYPE}
    ELSE IF role = "supplier" THEN Wins(docs, ico) ELSE Issues(docs, ico)

_dashboard_match(docs, ico, role) ==
    LET awards == {n \in docs : n.notice_type = D1_NOTICE_TYPE}
    IN IF ico = None THEN awards
       ELSE IF role = "supplier" THEN Wins(awards, ico)
       ELSE IF role = "procurer" THEN Issues(awards, ico) ELSE awards

FinalTally(S) == [count |-> Cardinality(S), total |-> Sum(S, Final)]

-----------------------------------------------------------------------------
(* The company page *)

\* $max of the award dates; 0 when there is none.
LastAward(S) == Max({n.award_date : n \in S} \cup {0})

_company_core_agg(docs, ico) ==
    LET named == Wins(docs, ico) \cup Issues(docs, ico)
        OfCode(code) == {n \in named : n.cpv_code = code}
    IN [as_supplier |-> FinalTally(Wins(docs, ico)) @@ [last |-> LastAward(Wins(docs, ico))],
        as_procurer |-> FinalTally(Issues(docs, ico)) @@ [last |-> LastAward(Issues(docs, ico))],
        cpv |-> Limit(Ranked({[key |-> code] @@ FinalTally(OfCode(code)) :
                                 code \in {n.cpv_code : n \in named}}, "total"), 5),
        spend_by_year |-> {[year |-> y, total |-> Sum({n \in named : YearOf(Date(n)) = y}, Final)] :
                              y \in {YearOf(Date(n)) : n \in named}}]

\* The award lines of a notice that name a supplier, and how often.
Lines(n, ico) == {k \in DOMAIN n.awards : n.awards[k].supplier.ico = ico}

LineTally(S, ico) ==
    [count |-> Sum(S, LAMBDA n : Cardinality(Lines(n, ico))),
     total |-> Sum(S, LAMBDA n : Cardinality(Lines(n, ico)) * Final(n))]

\* A winner's procurers, one of them null when notices lack its ico; and a
\* procurer's suppliers, counted once per award line, with the whole value each time.
supplier_pipeline(docs, ico) ==
    {[ico |-> p, role |-> "procurer"] @@ FinalTally({n \in Wins(docs, ico) : ProcurerIco(n) = p}) :
        p \in {ProcurerIco(n) : n \in Wins(docs, ico)}}

procurer_pipeline(docs, ico) ==
    {[ico |-> s, role |-> "supplier"] @@ LineTally(Issues(docs, ico), s) :
        s \in UNION {Winners(n) : n \in Issues(docs, ico)}}

\* A page of the counterparties in one role, or in both.
_company_partners_agg(docs, ico, role, sort_by, limit, offset) ==
    LET rows == CASE role = "supplier" -> procurer_pipeline(docs, ico)
                  [] role = "procurer" -> supplier_pipeline(docs, ico)
                  [] role = "all" -> supplier_pipeline(docs, ico) \cup procurer_pipeline(docs, ico)
        page == Limit(Ranked(rows, sort_by), offset + limit)
    IN [total |-> Cardinality(rows), items |-> SubSeq(page, offset + 1, Len(page))]

-----------------------------------------------------------------------------
(* The market *)

\* The value in the middle, the lower one of two, as an approximate $median has it.
Median(S) ==
    LET values == {Final(n) : n \in S}
        UpTo(v) == Cardinality({n \in S : Final(n) <= v})
    IN CHOOSE v \in values : /\ 2 * UpTo(v) >= Cardinality(S)
                             /\ \A w \in values : w < v => 2 * UpTo(w) < Cardinality(S)

_market_cpv_agg(docs, limit) ==
    LET coded == {n \in docs : n.cpv_code # <<>>}
        OfCode(code) == {n \in coded : n.cpv_code = code}
    IN Limit(Ranked({[key |-> code, median |-> Median(OfCode(code))] @@ FinalTally(OfCode(code)) :
                        code \in {n.cpv_code : n \in coded}}, "total"), limit)

_top_entities_agg(docs, role, n) ==
    Limit(Ranked(IF role = "supplier"
                   THEN {[key |-> s] @@ LineTally(docs, s) : s \in UNION {Winners(d) : d \in docs}}
                   ELSE {[key |-> p] @@ FinalTally(Issues(docs, p)) :
                            p \in {ProcurerIco(d) : d \in docs} \ {None}},
                 "total"), n)

-----------------------------------------------------------------------------
(* Contract awards by year, by code, by month, one by one *)

InYear(S, year) == {n \in S : YearOf(Date(n)) = year}

spend_by_year(docs, ico, role) ==
    LET S == _dashboard_match(docs, ico, role)
    IN {[year |-> y] @@ Tally(InYear(S, y)) : y \in {YearOf(Date(n)) : n \in S}}

cpv_breakdown(docs, ico, role, year_from, year_to) ==
    LET S == {n \in _dashboard_match(docs, ico, role) : YearOf(Date(n)) \in year_from..year_to}
    IN {[key |-> c] @@ Tally({n \in S : n.cpv_code = c}) : c \in {n.cpv_code : n \in S}}

monthly_buckets(docs, year) ==
    LET S == {n \in _dashboard_match(docs, None, None) :
                 Date(n) # 0 /\ Date(n) \in FirstDay(year)..LastDay(year)}
        MonthIn(n) == MonthOf(Date(n)) % 12
    IN {[month |-> m] @@ Tally({n \in S : MonthIn(n) = m}) : m \in {MonthIn(n) : n \in S}}

\* One row per award line of an issuer, one per notice of a winner; the line
\* keeps two rows alike apart.
award_timeline(docs, ico) ==
    LET Row(n, counterparty, line) ==
            [key |-> KeyOf(n), line |-> line, counterparty |-> counterparty, date |-> Date(n),
             value |-> Value(n), cpv_code |-> n.cpv_code, procedure_type |-> n.procedure_type]
    IN (UNION {{Row(n, n.awards[k].supplier.ico, k) : k \in DOMAIN n.awards} :
                  n \in _dashboard_match(docs, ico, "procurer")})
       \cup {Row(n, ProcurerIco(n), 0) : n \in _dashboard_match(docs, ico, "supplier")}

top_contracts_by_value(docs, ico, role, limit) ==
    Limit(Ranked(_dashboard_match(docs, ico, role), "final_value"), limit)

-----------------------------------------------------------------------------
(* The profile of a procurer or a supplier *)

\* The counterparty: the buyer of a winner, the first winner of a buyer.
CounterpartyOf(n, role) ==
    IF role = "supplier" THEN ProcurerIco(n)
    ELSE IF n.awards = <<>> THEN None ELSE n.awards[1].supplier.ico

entity_profile(docs, ico, role, top_n) ==
    LET S == _dashboard_match(docs, ico, role)
        With(p) == {n \in S : CounterpartyOf(n, role) = p}
        partners == {[key |-> p] @@ Tally(With(p)) :
                        p \in {CounterpartyOf(n, role) : n \in S} \ {None}}
        total == Sum(partners, LAMBDA p : p.total)
    IN Tally(S) @@
       [spend_by_year |-> {y \in spend_by_year(docs, ico, role) : y.year >= EARLIEST_YEAR},
        partners |-> Limit(Ranked(partners, "total"), top_n),
        partner_total |-> total, partner_count |-> Cardinality(partners),
        hhi |-> Ratio(100000, Sum(partners, LAMBDA p : p.total * p.total), total * total)]
=============================================================================
