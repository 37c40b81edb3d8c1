------------------------------ MODULE Loaders ------------------------------
(***************************************************************************)
(* The two loaders as operators: what upsert_batch does to the collections  *)
(* of MongoDB (uvo_core/adapters/mongo/loaders.py) and merge_notice_batch   *)
(* to the graph (uvo_core/adapters/neo4j/loader.py), and the queries of the *)
(* graph (uvo_core/adapters/neo4j/graph.py).                                *)
(*                                                                          *)
(* A collection is a set of documents.  A graph node of an organisation is  *)
(* the ico and the slug it was created with, which no later merge changes;  *)
(* its name is left out, and so is CLASSIFIED_BY, which no query follows.   *)
(***************************************************************************)
EXTENDS Transformers, FiniteSets, FiniteSetsExt

-----------------------------------------------------------------------------
(* upsert_batch *)

\* One notice per key: the last one, in the place of the first.
Replaced(kept, n) ==
    IF \E k \in DOMAIN kept : KeyOf(kept[k]) = KeyOf(n)
      THEN [k \in DOMAIN kept |-> IF KeyOf(kept[k]) = KeyOf(n) THEN n ELSE kept[k]]
      ELSE Append(kept, n)
deduped(batch) == FoldLeft(Replaced, <<>>, batch)

registry_entry(registry, n) == {e \in registry : e.key = KeyOf(n)}
unchanged(registry, n) == \E e \in registry_entry(registry, n) : e.hash = compute_notice_hash(n)

\* What $set leaves alone: ingested_at of the first insert, canonical_id.
upsert_notice(store, n, run, today) ==
    LET found == {d \in store : KeyOf(d) = KeyOf(n)}
        old == CHOOSE d \in found : TRUE
        kept == IF found = {}
                  THEN [ingested_at |-> today, canonical_id |-> None, pipeline_run_id |-> run]
                ELSE [ingested_at |-> old.ingested_at, canonical_id |-> old.canonical_id,
                      pipeline_run_id |-> run]
    IN (store \ found)
       \cup {[field \in DOMAIN n \cup DOMAIN kept |->
                 IF field \in DOMAIN n THEN n[field] ELSE kept[field]]}

\* The notices of a batch that are written: all but the unchanged ones.
ToUpsert(registry, batch) ==
    LET kept == deduped(batch)
    IN FlattenSeq([k \in DOMAIN kept |-> Only(~unchanged(registry, kept[k]), kept[k])])

bulk_write_notices(store, registry, batch, failing, run, today) ==
    FoldLeft(LAMBDA s, n : IF KeyOf(n) \in failing THEN s ELSE upsert_notice(s, n, run, today),
             store, ToUpsert(registry, batch))

upsert_registry(registry, n) ==
    (registry \ registry_entry(registry, n))
    \cup {[key |-> KeyOf(n), hash |-> compute_notice_hash(n)]}

bulk_write_registry(registry, batch, failing) ==
    FoldLeft(LAMBDA r, n : IF KeyOf(n) \in failing THEN r ELSE upsert_registry(r, n),
             registry, ToUpsert(registry, batch))

-----------------------------------------------------------------------------
(* Procurers and suppliers *)

\* Seeded bug: an organisation known by its ico must also keep its slug.
_entity_filter_by_both(e, org) == e.ico = org.ico /\ e.name_slug = org.name_slug

\* By ico, or else by slug among those that have no ico.
_entity_filter(e, org) ==
    IF org.ico # None THEN e.ico = org.ico ELSE e.ico = None /\ e.name_slug = org.name_slug

_entity_update(entities, org) ==
    LET found == {e \in entities : _entity_filter(e, org)}
    IN (entities \ found)
       \cup {[org EXCEPT !.sources = @ \cup UNION {e.sources : e \in found}]}

SameEntity(a, b) == IF a.ico # None THEN b.ico = a.ico
                    ELSE b.ico = None /\ a.name_slug = b.name_slug

\* Seeded bug: the first occurrence is kept.
CollapseKeepingFirst(orgs) ==
    FoldLeft(LAMBDA kept, org :
                 IF \E k \in DOMAIN kept : SameEntity(kept[k], org) THEN kept
                 ELSE Append(kept, org),
             <<>>, orgs)

\* One operation per entity of a batch: the last occurrence, all sources.
Collapsed(kept, org) ==
    IF \E k \in DOMAIN kept : SameEntity(kept[k], org)
      THEN [k \in DOMAIN kept |->
               IF SameEntity(kept[k], org) THEN [org EXCEPT !.sources = @ \cup kept[k].sources]
               ELSE kept[k]]
      ELSE Append(kept, org)
_collapse_entity_ops(orgs) == FoldLeft(Collapsed, <<>>, orgs)

UpsertAll(entities, orgs) == FoldLeft(_entity_update, entities, orgs)
bulk_write_entities(entities, orgs) == UpsertAll(entities, _collapse_entity_ops(orgs))

ProcurersOf(batch) ==
    FlattenSeq([k \in DOMAIN batch |-> Only(batch[k].procurer # None, batch[k].procurer)])
SuppliersOf(batch) ==
    FlattenSeq([k \in DOMAIN batch |->
                   [j \in DOMAIN batch[k].awards |-> batch[k].awards[j].supplier]])

-----------------------------------------------------------------------------
(* merge_notice_batch *)

EmptyGraph == [procurers |-> {}, suppliers |-> {}, notices |-> {}, issued |-> {}, awarded |-> {}]

Node(org) == [ico |-> org.ico, name_slug |-> org.name_slug]
\* MATCH by ico, or else by slug, whether or not the node has an ico.
MATCH(nodes, org) == IF org.ico # None THEN {v \in nodes : v.ico = org.ico}
                     ELSE {v \in nodes : v.name_slug = org.name_slug}
merge_node(nodes, org) == IF MATCH(nodes, org) = {} THEN nodes \cup {Node(org)} ELSE nodes

\* ON MATCH sets the final value alone: what else a revision changes stays.
merge_notice_node(graph, n) ==
    LET found == {v \in graph.notices : v.key = KeyOf(n)}
        fresh == [key |-> KeyOf(n), day |-> n.publication_date, cpv_code |-> n.cpv_code,
                  final_value |-> n.final_value]
    IN [graph EXCEPT !.notices =
           (@ \ found) \cup {IF found = {} THEN fresh
                             ELSE [(CHOOSE v \in found : TRUE)
                                      EXCEPT !.final_value = n.final_value]}]

merge_procurer(graph, n) ==
    IF n.procurer = None THEN graph
    ELSE LET nodes == merge_node(graph.procurers, n.procurer)
         IN [graph EXCEPT !.procurers = nodes,
                          !.issued = @ \cup {<<p, KeyOf(n)>> : p \in MATCH(nodes, n.procurer)}]

\* Seeded bug: the value of an award is set on match as well as on create.
merge_award_revaluing(graph, n, award) ==
    LET nodes == merge_node(graph.suppliers, award.supplier)
        hit == MATCH(nodes, award.supplier)
    IN [graph EXCEPT !.suppliers = nodes,
                     !.awarded = {e \in @ : ~(e.key = KeyOf(n) /\ e.supplier \in hit)}
                         \cup {[key |-> KeyOf(n), supplier |-> s, value |-> n.final_value] :
                                  s \in hit}]

\* One edge per notice and supplier, with the value it was created with.
merge_award(graph, n, award) ==
    LET nodes == merge_node(graph.suppliers, award.supplier)
        new == {s \in MATCH(nodes, award.supplier) :
                   ~\E e \in graph.awarded : e.key = KeyOf(n) /\ e.supplier = s}
    IN [graph EXCEPT !.suppliers = nodes,
                     !.awarded = @ \cup {[key |-> KeyOf(n), supplier |-> s, value |-> award.value] :
                                            s \in new}]

\* The statements of one notice commit one by one; done tells how many phases
\* were run before an error: the notice's node, its procurer, its awards.
merge_notice(graph, n, done) ==
    LET g1 == IF done >= 1 THEN merge_notice_node(graph, n) ELSE graph
        g2 == IF done >= 2 THEN merge_procurer(g1, n) ELSE g1
    IN IF done < 3 THEN g2
       ELSE FoldLeft(LAMBDA g, a : merge_award(g, n, a), g2, n.awards)

merge_notice_batch(graph, notices, failing, done) ==
    FoldLeft(LAMBDA g, n : merge_notice(g, n, IF KeyOf(n) \in failing THEN done ELSE 3),
             graph, notices)

-----------------------------------------------------------------------------
(* Queries of the graph *)

Known(value) == IF value = NoValue THEN 0 ELSE value
Edges(graph, procurer, s) ==
    {e \in graph.awarded : e.supplier = s /\ \E i \in graph.issued :
                               i[1] = procurer /\ i[2] = e.key}
EdgeTally(edges) == [count |-> Cardinality(edges),
                     total |-> MapThenSumSet(LAMBDA e : Known(e.value), edges)]

\* Per supplier of one contracting authority: the awards and what they sum to.
supplier_concentration_rows(graph, ico) ==
    LET procurers == {p \in graph.procurers : p.ico = ico}
        Won(s) == UNION {Edges(graph, p, s) : p \in procurers}
    IN {[ico |-> s.ico, name_slug |-> s.name_slug,
         count |-> EdgeTally(Won(s)).count, total |-> EdgeTally(Won(s)).total] :
            s \in {s \in graph.suppliers : Won(s) # {}}}

\* The organisations within two hops of an ico, by way of a shared notice; the
\* weight of a link is the first award on the path.
ego_network(graph, ico) ==
    LET Links(label, v) == IF label = "procurer" THEN {i[2] : i \in {i \in graph.issued : i[1] = v}}
                           ELSE {e.key : e \in {e \in graph.awarded : e.supplier = v}}
        Worth(s, key) == Known((CHOOSE e \in graph.awarded : e.supplier = s /\ e.key = key).value)
        Ends == {<<"procurer", v>> : v \in graph.procurers}
                \cup {<<"supplier", v>> : v \in graph.suppliers}
        Paths(b) == {p \in Ends \X {v.key : v \in graph.notices} :
                        /\ p[1][2].ico = ico
                        /\ p[2] \in Links(p[1][1], p[1][2]) \cap Links(b[1], b[2])}
        Weight(p, b) == IF p[1][1] = "supplier" THEN Worth(p[1][2], p[2])
                        ELSE IF b[1] = "supplier" THEN Worth(b[2], p[2]) ELSE 0
    IN {[type |-> b[1], ico |-> b[2].ico, count |-> Cardinality(Paths(b)),
         total |-> MapThenSumSet(LAMBDA p : Weight(p, b), Paths(b))] :
           b \in {b \in Ends : b[2].ico \notin {None, ico} /\ Paths(b) # {}}}

\* Procurer-supplier pairs of a CPV prefix between two days; the weight is the
\* notices' final value, and a pair that lacks an ico is not drawn.
cpv_network(graph, cpv, from, to) ==
    LET Shared(p, s) == {v \in graph.notices :
                            /\ IsPrefix(cpv, v.cpv_code) /\ v.day \in from..to
                            /\ <<p, v.key>> \in graph.issued
                            /\ \E e \in graph.awarded : e.key = v.key /\ e.supplier = s}
    IN {[from |-> q[1].ico, to |-> q[2].ico, count |-> Cardinality(Shared(q[1], q[2])),
         total |-> MapThenSumSet(LAMBDA v : Known(v.final_value), Shared(q[1], q[2]))] :
           q \in {q \in graph.procurers \X graph.suppliers :
                     q[1].ico # None /\ q[2].ico # None /\ Shared(q[1], q[2]) # {}}}
=============================================================================
