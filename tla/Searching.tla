----------------------------- MODULE Searching -----------------------------
(***************************************************************************)
(* The search for contract awards (uvo_core/adapters/mongo/procurements.py)  *)
(* and the listings of companies built on the search for entities            *)
(* (adapters/mongo/subjects.py, domain/companies.py), as operators over a    *)
(* set of documents.  A query without words is a find, one with words a      *)
(* $search whose hits are then narrowed; the words of a notice are its title *)
(* slug.  Rows that are equal in what a listing is sorted by come in some    *)
(* fixed order.                                                             *)
(***************************************************************************)
EXTENDS CompanyAnalytics

NoQuery == [text |-> None, exact |-> {}, prefixes |-> {}, procurer_id |-> None,
            supplier_ico |-> None, date_from |-> None, date_to |-> None,
            value_min |-> None, value_max |-> None, source |-> None]

Page(seq, limit, offset) ==
    LET head == Limit(seq, offset + limit) IN SubSeq(head, offset + 1, Len(head))

-----------------------------------------------------------------------------
(* Notices *)

\* Codes asked for whole, or by the division or group they begin with.
_cpv_clause(n, q) ==
    \/ q.exact \cup q.prefixes = {}
    \/ n.cpv_code \in q.exact
    \/ \E prefix \in q.prefixes : IsPrefix(prefix, n.cpv_code)

\* On the value a list shows: final, else estimated, else nothing.
_value_expr(n, q) ==
    /\ q.value_min = None \/ Value(n) >= q.value_min
    /\ q.value_max = None \/ Value(n) <= q.value_max

\* By the day of publication; a notice without one is in no period.
_published_in(n, q) ==
    q.date_from # None \/ q.date_to # None =>
        /\ n.publication_date # 0
        /\ q.date_from = None \/ n.publication_date >= q.date_from
        /\ q.date_to = None \/ n.publication_date <= q.date_to

\* The clauses that mongot evaluates, and so does the find.
_search_filters(docs, q) ==
    {n \in docs : /\ n.notice_type = D1_NOTICE_TYPE
                  /\ _cpv_clause(n, q)
                  /\ q.procurer_id \in {None, ProcurerIco(n)}
                  /\ q.supplier_ico \in {None} \cup Winners(n)
                  /\ _published_in(n, q)}

\* The find has the value and the source in its filter too.
_find_filter(docs, q) ==
    {n \in _search_filters(docs, q) : _value_expr(n, q) /\ q.source \in {None, n.source}}

\* A $search has them as stages after it, in the items and in the count alike;
\* without such a stage the count is that of $searchMeta.
_search_pipelines(docs, q) ==
    LET hits == {n \in _search_filters(docs, q) : n.title_slug = q.text}
        priced == IF q.value_min = None /\ q.value_max = None THEN hits
                  ELSE {n \in hits : _value_expr(n, q)}
    IN IF q.source = None THEN priced ELSE {n \in priced : n.source = q.source}

\* The newest first.
search_procurements(docs, q, limit, offset) ==
    LET found == IF q.text = None THEN _find_filter(docs, q) ELSE _search_pipelines(docs, q)
    IN [items |-> Page(Ranked(found, "publication_date"), limit, offset),
        total |-> Cardinality(found)]

-----------------------------------------------------------------------------
(* Companies: an organisation in both roles is one row *)

\* The entities of one collection, all of them or the one with an ICO, each with the
\* count and the sum of its notices: those that recompute_entity_stats keeps on it.
entity_search(docs, entities, role, ico) ==
    LET NoticesOf(e) == IF e.ico = None THEN {}
                        ELSE IF role = "supplier" THEN Wins(docs, e.ico) ELSE Issues(docs, e.ico)
        Row(e) == [ico |-> e.ico, role |-> role, contract_count |-> FinalTally(NoticesOf(e)).count,
                   total_value |-> FinalTally(NoticesOf(e)).total]
    IN {Row(e) : e \in {e \in entities : ico \in {None, e.ico}}}

\* One row per ICO with all its roles and the sum of its counts, as the lists of
\* companies ask for it; an entity without ICO is skipped.
merge_companies_by_ico(rows) ==
    LET Of(ico) == {r \in rows : r.ico = ico}
    IN {[ico |-> ico, roles |-> {r.role : r \in Of(ico)},
         contract_count |-> Sum(Of(ico), LAMBDA r : r.contract_count),
         total_value |-> Sum(Of(ico), LAMBDA r : r.total_value)] :
            ico \in {r.ico : r \in rows} \ {None}}

\* A page of the companies in one role or in both, the largest first.
list_companies(docs, procurers, suppliers, role, limit, offset) ==
    LET asked == (IF role \in {"supplier", "all"}
                    THEN entity_search(docs, suppliers, "supplier", None) ELSE {})
                 \cup (IF role \in {"procurer", "all"}
                         THEN entity_search(docs, procurers, "procurer", None) ELSE {})
        items == merge_companies_by_ico(asked)
    IN [total |-> Cardinality(items), items |-> Page(Ranked(items, "contract_count"), limit, offset)]

\* A pure procurer stays one; otherwise the supplier wins, on a tie too.
primary_role(roles, supplier_count, procurer_count) ==
    IF /\ "supplier" \in roles
       /\ "procurer" \in roles => supplier_count >= procurer_count
      THEN "supplier" ELSE "procurer"

\* The page of a company: what is known of it in the roles it is known in, and
\* its largest contracts, at most five in each role and in all.
get_company_profile(docs, procurers, suppliers, ico) ==
    LET roles == (IF \E e \in suppliers : e.ico = ico THEN {"supplier"} ELSE {})
                 \cup (IF \E e \in procurers : e.ico = ico THEN {"procurer"} ELSE {})
        core == _company_core_agg(docs, ico)
        Block(role, tally) == IF role \in roles /\ tally.count > 0 THEN tally ELSE None
        CountOf(block) == IF block = None THEN 0 ELSE block.count
        as_supplier == Block("supplier", core.as_supplier)
        as_procurer == Block("procurer", core.as_procurer)
        Top(role) ==
            LET contracts == IF role \in roles THEN top_contracts_by_value(docs, ico, role, 5) ELSE <<>>
            IN {[role |-> role, key |-> KeyOf(n), value |-> Value(n),
                 counterparty |-> IF role = "supplier" THEN ProcurerIco(n)
                                  ELSE IF n.awards = <<>> THEN None ELSE n.awards[1].supplier.ico] :
                    n \in ToSet(contracts)}
    IN IF roles = {} THEN None
       ELSE [roles |-> roles, as_supplier |-> as_supplier, as_procurer |-> as_procurer,
             primary_role |-> primary_role(roles, CountOf(as_supplier), CountOf(as_procurer)),
             top_cpvs |-> core.cpv,
             top_contracts |-> Limit(Ranked(Top("supplier") \cup Top("procurer"), "value"), 5),
             spend_by_year |-> {y \in core.spend_by_year : y.year >= EARLIEST_YEAR}]
=============================================================================
