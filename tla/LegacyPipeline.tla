--------------------------- MODULE LegacyPipeline ---------------------------
(***************************************************************************)
(* The one-shot pipeline (uvo_pipeline/orchestrator.py): a run reads the    *)
(* four sources in turn, writes what they give to MongoDB and Neo4j, and    *)
(* keeps three marks in pipeline_state: the latest modification among the   *)
(* Vestnik datasets it saw, the next ITMS id, and the day the last run      *)
(* ended.  Days pass and sources publish while it runs; it may fail or be   *)
(* killed at any step, and the next run starts from what is stored.         *)
(*                                                                          *)
(* A source is read when it is opened: its pages are one query.             *)
(***************************************************************************)
EXTENDS Loaders

CONSTANTS
    Releases,       \* what the sources publish: [source, url, day, raw]
    Backlog,        \* the documents an earlier pipeline left in MongoDB
    StartDay,       \* the first day of the model, and the last
    EndDay,
    RECENT_DAYS,    \* 365 in the code
    BATCH_SIZE,     \* 500
    ITMS_MAX_ITEMS, \* 5000
    MAX_NOTICES_PER_SUPPLIER_ICO,
    Modes,          \* bound: the modes that each successive run may be asked for
    MaxFaults       \* bound: failures of any kind

\* The record that a release is a version of: what comes of both has one key.
RecordOf(r) == KeyOf(Transform(r.source, r.raw))
Hashed == {"source", "source_id", "title_slug", "procurer", "cpv_code", "publication_date",
           "estimated_value", "final_value", "awards"}

\* Of the sources: a day sees one version of a record, every version at one address,
\* and ITMS numbers its records in the order in which they first come out.
ASSUME PipelineAssumption ==
    /\ {StartDay, EndDay, RECENT_DAYS, MaxFaults} \subseteq Nat
    /\ {BATCH_SIZE, ITMS_MAX_ITEMS, MAX_NOTICES_PER_SUPPLIER_ICO} \subseteq Nat \ {0}
    /\ Modes \in Seq(SUBSET {"recent", "historical"})
    /\ StartDay <= EndDay /\ IsFiniteSet(Releases)
    /\ \A r \in Releases : /\ r.source \in {"vestnik", "crz", "ted", "itms"}
                          /\ r.day \in 1..EndDay /\ WellFormed(r.source, r.raw)
    /\ \A q, r \in Releases :
          /\ q.url = r.url /\ q.source = "vestnik" => r.source = "vestnik"
          /\ RecordOf(q) = RecordOf(r) => q.url = r.url /\ (q.day = r.day => q = r)
          /\ /\ q.source = "itms" /\ r.source = "itms"
             /\ q.day < r.day /\ q.raw.id >= r.raw.id
             => \E p \in Releases : RecordOf(p) = RecordOf(r) /\ p.day < r.day
    /\ \A d, e \in Backlog : KeyOf(d) = KeyOf(e) => d = e
    /\ \A d \in Backlog : Hashed \subseteq DOMAIN d

VARIABLES
    today,
    released,   \* the releases made so far
    cached,     \* bulletins on disk: url -> items
    db,         \* MongoDB: the collections and the three marks
    graph,      \* Neo4j
    run,        \* the run in progress
    past        \* history: what runs came to grief over, see Excused

vars == <<today, released, cached, db, graph, run, past>>

M == INSTANCE Matching

Stages == <<"vestnik", "crz", "ted", "itms">>
Streamed == {"crz", "itms"}    \* persisted batch by batch
Idle == [step |-> "idle"]

Smaller(a, b) == IF a < b THEN a ELSE b
Larger(a, b) == IF a > b THEN a ELSE b
FirstOf(seq, n) == SubSeq(seq, 1, Smaller(n, Len(seq)))
After(seq, n) == SubSeq(seq, n + 1, Len(seq))
Keys(batch) == {KeyOf(n) : n \in ToSet(batch)}

Init ==
    /\ today = StartDay
    /\ released = {r \in Releases : r.day < StartDay}
    /\ cached = [url \in {} |-> <<>>]
    /\ db = [store |-> Backlog, registry |-> {}, procurers |-> {}, suppliers |-> {},
             lastRun |-> 0, vestnikMark |-> 0, itmsMin |-> 0]
    /\ graph = EmptyGraph
    /\ run = Idle
    /\ past = [runs |-> 0, faults |-> 0, late |-> {}, harmed |-> {}, merged |-> {}, behind |-> {}]

-----------------------------------------------------------------------------
(* The sources *)

Revised(r) == {q \in released : RecordOf(q) = RecordOf(r) /\ q.day > r.day}
Latest == {r \in released : Revised(r) = {}}

Modified(url) == Max({r.day : r \in {r \in released : r.url = url}})
Bulletins == {r.url : r \in {r \in released : r.source = "vestnik"}}
RawsByDay(S) ==
    LET sorted == ByRank(S, [r \in S |-> r.day])
    IN [k \in DOMAIN sorted |-> sorted[k].raw]
Bulletin(url) == RawsByDay({r \in Latest : r.url = url})

\* Bound: the world moves when a run may notice, as it opens a source, reads it or
\* stamps its end; the writes of a batch and the matching look at nothing outside.
Noticeable == run.step \in {"idle", "open", "fetch", "finish"}

\* What a run has opened the source of already, it will not see.
Publish(R) ==
    /\ released' = released \cup R
    /\ run' = IF run = Idle THEN Idle
              ELSE [run EXCEPT !.late = @ \cup {r \in R : r.source \in run.opened}]
    /\ UNCHANGED <<cached, db, graph, past>>

\* Bound: the releases of the first day come out at any moment of it, those of a
\* later day as it begins; those of ITMS by their ids.
Release(r) ==
    /\ Noticeable /\ r \in Releases \ released /\ r.day = today
    /\ \A q \in Releases \ released :
          q.day = today /\ q.source = "itms" /\ r.source = "itms" => q.raw.id >= r.raw.id
    /\ Publish({r}) /\ UNCHANGED today

NextDay ==
    /\ Noticeable /\ today < EndDay
    /\ \A r \in Releases : r.day = today => r \in released
    /\ Publish({r \in Releases : r.day = today + 1}) /\ today' = today + 1

-----------------------------------------------------------------------------
(* A run starts, and opens its sources one after the other *)

\* Bound: something fails at most MaxFaults times.
Fault == past.faults < MaxFaults
Faulty(ghost) == [ghost EXCEPT !.faults = @ + 1]

\* A recent run looks back RECENT_DAYS, but never before the end of the last run.
FromDate(mode) ==
    IF mode = "historical" THEN 1 ELSE Larger(today - RECENT_DAYS, db.lastRun)

Start(mode) ==
    /\ run = Idle /\ past.runs < Len(Modes) /\ mode \in Modes[past.runs + 1]
    /\ past' = [past EXCEPT !.runs = @ + 1]
    /\ run' = [step |-> "open", id |-> past.runs + 1, from |-> FromDate(mode),
               since |-> IF mode = "historical" THEN 0
                         ELSE IF db.vestnikMark # 0 THEN db.vestnikMark ELSE FromDate(mode),
               stage |-> 1, queue |-> <<>>, buffer |-> <<>>, todo |-> <<>>, failed |-> {},
               mark |-> 0, seen |-> db.itmsMin - 1, total |-> 0, pass |-> 1,
               opened |-> {}, late |-> {}]
    /\ UNCHANGED <<today, released, cached, db, graph>>

Source == Stages[run.stage]
OfSource == {r \in Latest : r.source = Source}

\* What each source is asked for; a Vestnik query lists bulletins, by modification.
Query ==
    CASE Source = "vestnik" ->
            LET listed == {[url |-> url, modified |-> Modified(url)] :
                             url \in {url \in Bulletins : Modified(url) >= run.since}}
            IN ByRank(listed, [b \in listed |-> b.modified])
      [] Source \in {"crz", "ted"} -> RawsByDay({r \in OfSource : r.day >= run.from})
      [] Source = "itms" ->
            LET wanted == {r.raw : r \in {r \in OfSource : r.raw.id >= db.itmsMin}}
            IN FirstOf(ByRank(wanted, [raw \in wanted |-> raw.id]), ITMS_MAX_ITEMS)

OpenSource ==
    /\ run.step = "open"
    /\ run' = [run EXCEPT !.step = "fetch", !.queue = Query, !.opened = @ \cup {Source}]
    /\ UNCHANGED <<today, released, cached, db, graph, past>>

-----------------------------------------------------------------------------
(* Fetching and transforming *)

\* What transforms is kept, the rest logged.
Transformed(raws) ==
    FlattenSeq([k \in DOMAIN raws |-> Only(Transforms(Source, raws[k]), Transform(Source, raws[k]))])

\* What is in the buffer is written next, and counted.
Persist(buffer) ==
    [run EXCEPT !.buffer = buffer, !.todo = buffer, !.total = @ + Len(buffer),
                !.step = IF buffer = <<>> THEN "checkpoint" ELSE "notices"]

\* One bulletin: the copy on disk, whatever was modified since, or a download that
\* leaves one.  An answer that is no JSON is skipped.
FetchBulletin ==
    /\ run.step = "fetch" /\ Source = "vestnik" /\ run.queue # <<>>
    /\ LET url == run.queue[1].url
           items == IF url \in DOMAIN cached THEN cached[url] ELSE Bulletin(url)
           Keep(raws) == [run EXCEPT !.queue = Tail(@), !.mark = Larger(@, run.queue[1].modified),
                                     !.buffer = @ \o Transformed(raws)]
       IN \/ /\ run' = Keep(items)
             /\ cached' = [u \in DOMAIN cached \cup {url} |-> IF u = url THEN items ELSE cached[u]]
             /\ UNCHANGED past
          \/ /\ Fault /\ url \notin DOMAIN cached
             /\ run' = Keep(<<>>)
             /\ past' = Faulty([past EXCEPT !.harmed = @ \cup
                            {<<"vestnik", raw.id>> : raw \in ToSet(Bulletin(url))}])
             /\ UNCHANGED cached
    /\ UNCHANGED <<today, released, db, graph>>

FetchedBulletins ==
    /\ run.step = "fetch" /\ Source = "vestnik" /\ run.queue = <<>>
    /\ run' = Persist(run.buffer)
    /\ UNCHANGED <<today, released, cached, db, graph, past>>

\* As much of the list as fills a batch, or all of it.
Portion(raws) ==
    LET Full(k) == Len(Transformed(FirstOf(raws, k))) >= BATCH_SIZE
    IN IF Source \in Streamed /\ \E k \in DOMAIN raws : Full(k)
         THEN CHOOSE k \in DOMAIN raws : Full(k) /\ ~Full(k - 1)
       ELSE Len(raws)

\* What an ITMS record may lack when a request for a part of it fails.
HadForms == {{"detail", "contracts", "suppliers", "subject"} \ {part} :
                part \in {"detail", "contracts", "suppliers", "subject"}}

FetchItems ==
    /\ run.step = "fetch" /\ Source # "vestnik"
    /\ LET n == Portion(run.queue)
           raws == FirstOf(run.queue, n)
           Take(got) ==
               [Persist(Transformed(got)) EXCEPT
                   !.queue = After(@, n),
                   !.seen = IF Source # "itms" THEN @
                            ELSE Max({@} \cup {raw.id : raw \in
                                        {raw \in ToSet(got) : Transforms("itms", raw)}})]
       IN \/ run' = Take(raws) /\ UNCHANGED past
          \/ /\ Fault /\ Source = "itms"
             /\ \E k \in DOMAIN raws, had \in HadForms :
                   /\ run' = Take([raws EXCEPT ![k] = fetch_procurements(@, had)])
                   /\ past' = Faulty([past EXCEPT !.harmed = @ \cup {<<"itms", raws[k].id>>}])
    /\ UNCHANGED <<today, released, cached, db, graph>>

-----------------------------------------------------------------------------
(* _persist_source: upsert_batch in chunks, then the graph *)

Chunk == FirstOf(run.todo, BATCH_SIZE)

\* The writes of single notices may fail: they are counted, and the run goes on.
SaveNotices ==
    /\ run.step = "notices"
    /\ \E failed \in {{}} \cup (IF Fault THEN {{key} : key \in Keys(ToUpsert(db.registry, Chunk))}
                                ELSE {}) :
          /\ db' = [db EXCEPT !.store =
                       bulk_write_notices(@, db.registry, Chunk, failed, run.id, today)]
          /\ run' = [run EXCEPT !.step = "registry", !.failed = failed]
          /\ past' = IF failed = {} THEN past
                     ELSE Faulty([past EXCEPT !.harmed = @ \cup failed])
    /\ UNCHANGED <<today, released, cached, graph>>

\* A failure here is only logged: the notice counts as new the next time.
SaveRegistry ==
    /\ run.step = "registry"
    /\ run' = [run EXCEPT !.step = "entities"]
    /\ \E lost \in {{}} \cup (IF Fault THEN {{key} : key \in Keys(Chunk)} ELSE {}) :
          /\ db' = [db EXCEPT !.registry = bulk_write_registry(@, Chunk, run.failed \cup lost)]
          /\ past' = IF lost = {} THEN past ELSE Faulty([past EXCEPT !.behind = @ \cup lost])
    /\ UNCHANGED <<today, released, cached, graph>>

SaveEntities ==
    /\ run.step = "entities"
    /\ db' = [db EXCEPT !.procurers = bulk_write_entities(@, ProcurersOf(deduped(Chunk))),
                        !.suppliers = bulk_write_entities(@, SuppliersOf(deduped(Chunk)))]
    /\ run' = [run EXCEPT !.todo = After(@, BATCH_SIZE), !.failed = {},
                          !.step = IF Len(run.todo) > BATCH_SIZE THEN "notices" ELSE "graph"]
    /\ UNCHANGED <<today, released, cached, graph, past>>

\* The whole buffer; an error within a notice's statements is counted, and the
\* phases before it stay.
MergeGraph ==
    /\ run.step = "graph"
    /\ \E failed \in {{}} \cup (IF Fault THEN {{key} : key \in Keys(run.buffer)} ELSE {}),
          done \in {0, 1, 2} :
          /\ failed = {} => done = 0
          /\ graph' = merge_notice_batch(graph, run.buffer, failed, done)
          /\ past' = LET whole == {n \in ToSet(run.buffer) : KeyOf(n) \notin failed}
                         ghost == [past EXCEPT !.merged = @ \cup whole, !.harmed = @ \cup failed]
                     IN IF failed = {} THEN ghost ELSE Faulty(ghost)
    /\ run' = [run EXCEPT !.step = "checkpoint"]
    /\ UNCHANGED <<today, released, cached, db>>

-----------------------------------------------------------------------------
(* Checkpoints *)

\* The next portion of a streamed source, or the next source, or the end.
MoveOn ==
    [run EXCEPT !.buffer = <<>>,
                !.step = IF run.queue # <<>> THEN "fetch"
                         ELSE IF run.stage < Len(Stages) THEN "open" ELSE "finish",
                !.stage = IF run.queue = <<>> /\ run.stage < Len(Stages) THEN @ + 1 ELSE @]

\* Seeded bug: every save of a checkpoint stamps the end of a run, as it once did.
SaveCheckpointStamping ==
    /\ run.step = "checkpoint"
    /\ db' = CASE Source = "vestnik" /\ run.mark # 0 ->
                     [db EXCEPT !.vestnikMark = run.mark, !.lastRun = today]
               [] Source = "itms" /\ run.buffer # <<>> ->
                     [db EXCEPT !.itmsMin = run.seen + 1, !.lastRun = today]
               [] OTHER -> db
    /\ run' = MoveOn
    /\ UNCHANGED <<today, released, cached, graph, past>>

\* Vestnik's mark when a bulletin was listed, ITMS's next id after each batch.
SaveCheckpoint ==
    /\ run.step = "checkpoint"
    /\ db' = CASE Source = "vestnik" /\ run.mark # 0 -> [db EXCEPT !.vestnikMark = run.mark]
               [] Source = "itms" /\ run.buffer # <<>> -> [db EXCEPT !.itmsMin = run.seen + 1]
               [] OTHER -> db
    /\ run' = MoveOn
    /\ UNCHANGED <<today, released, cached, graph, past>>

\* The end of the run is stamped here alone, before the matching.
Finish ==
    /\ run.step = "finish"
    /\ db' = [db EXCEPT !.lastRun = today]
    /\ past' = [past EXCEPT !.late = @ \cup run.late]
    /\ run' = IF run.total > 0 THEN [run EXCEPT !.step = "match"] ELSE Idle
    /\ UNCHANGED <<today, released, cached, graph>>

-----------------------------------------------------------------------------
(* Cross-source matching over the documents of this run, pass by pass; they come  *)
(* in one of the orders their dates allow (DedupWorker takes every one)            *)

DocumentOf(key) == CHOOSE d \in db.store : KeyOf(d) = key
Corpus ==
    [key \in {KeyOf(d) : d \in db.store} |->
        LET d == DocumentOf(key) IN
        [source |-> d.source, procurer |-> IF d.procurer = None THEN None ELSE d.procurer.ico,
         cpv |-> IF d.cpv_code = <<>> THEN None ELSE d.cpv_code, slug |-> d.title_slug,
         published |-> d.publication_date,
         awards |-> {[supplier |-> a.supplier.ico, value |-> Larger(a.value, 0)] :
                        a \in ToSet(d.awards)}]]
Canonical == [key \in {KeyOf(d) : d \in db.store} |-> DocumentOf(key).canonical_id]

PassOrder == <<"ico_cpv", "title_slug_date", "supplier_ico_value_window">>

\* A document keeps the id of one group of the pass that it is in.
persist_match_groups(store, groups) ==
    LET Of(d) == {g \in groups : KeyOf(d) \in g.notices}
    IN {IF Of(d) = {} THEN d ELSE [d EXCEPT !.canonical_id = (CHOOSE g \in Of(d) : TRUE).canonical_id] :
           d \in store}

MatchPass ==
    /\ run.step = "match"
    /\ LET corpus == Corpus
           mine == {KeyOf(d) : d \in {d \in db.store : d.pipeline_run_id = run.id}}
           order == ByRank(mine, [key \in mine |-> corpus[key].published])
       IN db' = [db EXCEPT !.store = persist_match_groups(@,
                    M!Build(PassOrder[run.pass], corpus, Canonical, mine, order))]
    /\ run' = IF run.pass < Len(PassOrder) THEN [run EXCEPT !.pass = @ + 1] ELSE Idle
    /\ UNCHANGED <<today, released, cached, graph, past>>

\* An exception anywhere, or the process killed: the run is over, the stores stay.
Abort ==
    /\ run # Idle /\ Fault
    /\ run' = Idle
    /\ past' = Faulty([past EXCEPT !.behind =
                          IF run.step = "registry" THEN @ \cup Keys(Chunk) ELSE @])
    /\ UNCHANGED <<today, released, cached, db, graph>>

Next ==
    \/ \E r \in Releases : Release(r)
    \/ NextDay
    \/ \E mode \in {"recent", "historical"} : Start(mode)
    \/ OpenSource \/ FetchBulletin \/ FetchedBulletins \/ FetchItems
    \/ SaveNotices \/ SaveRegistry \/ SaveEntities \/ MergeGraph
    \/ SaveCheckpoint \/ Finish \/ MatchPass \/ Abort

Spec == Init /\ [][Next]_vars

-----------------------------------------------------------------------------
(* Properties *)

\* The marks, the collections and the run in progress have their shapes: one
\* document, one registry entry a notice, one entity an ico, a chunk within its
\* buffer and a position within the list of sources.
TypeOK ==
    /\ today \in StartDay..EndDay /\ released \subseteq Releases
    /\ {db.lastRun, db.vestnikMark} \subseteq 0..EndDay /\ db.itmsMin \in Nat
    /\ \A d, e \in db.store : KeyOf(d) = KeyOf(e) => d = e
    /\ \A d, e \in db.registry : d.key = e.key => d = e
    /\ \A entities \in {db.procurers, db.suppliers} : \A a, b \in entities :
          SameEntity(a, b) => a = b
    /\ run # Idle => /\ run.stage \in DOMAIN Stages /\ Len(run.todo) <= Len(run.buffer)
                     /\ run.step \in {"open", "fetch", "notices", "registry", "entities",
                                      "graph", "checkpoint", "finish", "match"}

\* The next recent run, started now, would be given the release.
Offered(r) ==
    LET from == FromDate("recent")
    IN CASE r.source = "vestnik" ->
               Modified(r.url) >= (IF db.vestnikMark # 0 THEN db.vestnikMark ELSE from)
         [] r.source \in {"crz", "ted"} -> r.day >= from
         [] r.source = "itms" -> r.raw.id >= db.itmsMin

Loaded(r) ==
    LET n == Transform(r.source, r.raw)
        known(entities, org) == \E e \in entities : SameEntity(e, org)
    IN /\ \E d \in db.store : compute_notice_hash(d) = compute_notice_hash(n)
       /\ n.procurer # None => known(db.procurers, n.procurer)
       /\ \A a \in ToSet(n.awards) : known(db.suppliers, a.supplier)
       /\ n \in past.merged

\* What costs the pipeline a release: a write, a download or a request that failed
\* while the checkpoints moved on; a run that ended on a later day than the one the
\* release came out on, after its source was read; a gap longer than RECENT_DAYS;
\* a copy on disk of the bulletin as it was; an ITMS record revised once read.
Missed(r) ==
    \/ RecordOf(r) \in past.harmed
    \/ r \in past.late /\ r.day < db.lastRun
    \/ r.day < today - RECENT_DAYS
    \/ r.source = "vestnik" /\ r.url \in DOMAIN cached /\ r.raw \notin ToSet(cached[r.url])
    \/ r.source = "itms" /\ \E q \in released : RecordOf(q) = RecordOf(r) /\ q.day < r.day

\* Or a change that was undone, where the hash of the change never reached the
\* registry: what the registry then finds unchanged is not what is stored.
Excused(r) ==
    \/ Missed(r)
    \/ RecordOf(r) \in past.behind /\ unchanged(db.registry, Transform(r.source, r.raw))

\* Between runs, whatever the next one would not ask for again is in both stores,
\* with its organisations; and what the registry calls known is stored, but for the
\* notices written when their hash was not.  The marks never run ahead of the data,
\* wherever a run was cut short.
LossExplained ==
    run = Idle =>
        /\ \A r \in Latest :
              Transforms(r.source, r.raw) /\ ~Offered(r) => Loaded(r) \/ Excused(r)
        /\ \A e \in db.registry :
              \/ \E d \in db.store : compute_notice_hash(d) = e.hash
              \/ e.key \in past.behind

\* Documents that the graph merged whole, from versions that count as the same, in
\* the days it is asked about; their organisations are known by ico, the winners once
\* each, and what they won is numbers.
Plain(d) ==
    LET versions == {n \in past.merged : KeyOf(n) = KeyOf(d)}
    IN /\ KeyOf(d) \notin past.harmed /\ versions # {} /\ d.publication_date \in 0..EndDay
       /\ \A n \in versions : compute_notice_hash(n) = compute_notice_hash(d)
       /\ \A n \in versions \cup {d} : \A k \in DOMAIN n.awards : n.awards[k].supplier.ico # None
       /\ \A k \in DOMAIN d.awards : d.awards[k].value \in Int
       /\ \A j, k \in DOMAIN d.awards :
             d.awards[j].supplier.ico = d.awards[k].supplier.ico => j = k
       /\ d.procurer # None => d.procurer.ico # None

\* Over the plain documents, what the graph answers is what MongoDB would: the ranking
\* of an authority's suppliers, the neighbours of an authority that wins nothing (or
\* else those who won beside it are neighbours too) and the pairs of a division.
GraphFollowsStore ==
    run = Idle =>
        LET plain == {d \in db.store : d.procurer # None /\ Plain(d)}
            part == [graph EXCEPT !.issued = {i \in @ : i[2] \in {KeyOf(d) : d \in plain}}]
            lines == UNION {{<<d, k>> : k \in DOMAIN d.awards} : d \in plain}
            Buyer(line) == line[1].procurer.ico
            Winner(line) == line[1].awards[line[2]].supplier.ico
            Worth(line) == Known(line[1].awards[line[2]].value)
            Between(p, s) == {line \in lines : Buyer(line) = p /\ Winner(line) = s}
            InDivision(cpv) == {line \in lines : IsPrefix(cpv, line[1].cpv_code)}
        IN /\ \A p \in {d.procurer.ico : d \in plain} :
                LET winners == {Winner(line) : line \in {line \in lines : Buyer(line) = p}}
                IN /\ {[ico |-> r.ico, count |-> r.count, total |-> r.total] :
                            r \in supplier_concentration_rows(part, p)}
                      = {[ico |-> s, count |-> Cardinality(Between(p, s)),
                          total |-> MapThenSumSet(Worth, Between(p, s))] : s \in winners}
                   /\ p \notin {s.ico : s \in graph.suppliers} =>
                         {<<r.ico, r.count>> : r \in {r \in ego_network(part, p) :
                                                         r.type = "supplier"}}
                         = {<<s, Cardinality(Between(p, s))>> : s \in winners}
           /\ \A cpv \in {FirstOf(d.cpv_code, 1) : d \in plain} :
                {<<r.from, r.to, r.count>> : r \in cpv_network(part, cpv, 0, EndDay)}
                = {<<Buyer(line), Winner(line),
                     Cardinality(Between(Buyer(line), Winner(line)) \cap InDivision(cpv))>> :
                        line \in InDivision(cpv)}

\* One operation per entity of a chunk does what one per occurrence would.
CollapseIsSequential ==
    run # Idle /\ run.step = "entities" =>
        LET procurers == ProcurersOf(deduped(Chunk))
            suppliers == SuppliersOf(deduped(Chunk))
        IN /\ bulk_write_entities(db.procurers, procurers) = UpsertAll(db.procurers, procurers)
           /\ bulk_write_entities(db.suppliers, suppliers) = UpsertAll(db.suppliers, suppliers)
=============================================================================
