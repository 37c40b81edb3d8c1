---------------------------- MODULE Transformers ----------------------------
(***************************************************************************)
(* The source transformers (uvo_pipeline/transformers) and the content hash *)
(* (uvo_core/domain/hashing.py), as operators from a raw record to a        *)
(* canonical notice.                                                        *)
(*                                                                          *)
(* A day is a number, 0 when there is none; a value is a number, NoValue    *)
(* when there is none and Junk when a source sends text that is no number.  *)
(* A name is a pair: its slug, and what else it differs in once case and    *)
(* outer space are folded.  A CPV code is the sequence of its digit groups: *)
(* the division, then the rest.  Titles, currencies and addresses are left  *)
(* out, except that a title reads like a name.                              *)
(***************************************************************************)
EXTENDS Integers, Sequences, SequencesExt, FiniteSetsExt

CONSTANTS
    None,             \* null, and the empty string every test treats alike
    FirstPlausible,   \* days in plausible years (crz.py _is_plausible_year)
    LastPlausible

ASSUME PlausibleAssumption ==
    /\ FirstPlausible \in Nat \ {0} /\ LastPlausible \in Nat
    /\ FirstPlausible <= LastPlausible

NoValue == -1
Junk == -2
NoAward == <<>>

-----------------------------------------------------------------------------
(* What the transformers share *)

slugify(name) == name[1]
_parse_float(value) == IF value = Junk THEN NoValue ELSE value
ValueOr(value, other) == IF value # NoValue THEN value ELSE other

\* The first entry of a sequence that passes a test, or None.
FirstThat(seq, Test(_)) ==
    IF \E k \in DOMAIN seq : Test(seq[k])
      THEN seq[CHOOSE k \in DOMAIN seq :
                  Test(seq[k]) /\ \A j \in 1..(k - 1) : ~Test(seq[j])]
      ELSE None

\* The members of a set by rank, a number each; those that tie, in some fixed order.
Inserted(seq, x, rank) ==
    InsertAt(seq, Cardinality({k \in DOMAIN seq : rank[seq[k]] <= rank[x]}) + 1, x)
ByRank(S, rank) == FoldSet(LAMBDA x, seq : Inserted(seq, x, rank), <<>>, S)

\* What a comprehension puts into its list: a value, if it passes a test.
Only(passes, value) == IF passes THEN <<value>> ELSE <<>>

Organisation(ico, name, sources) ==
    [ico |-> ico, name |-> name, name_slug |-> slugify(name), sources |-> sources]
Award(supplier, value) == [supplier |-> supplier, value |-> value]

\* The canonical notice; the model derives title_slug from the title.
CanonicalNotice(source, id, notice_type, title, procurer, awards, cpv, estimated, final, day) ==
    [source |-> source, source_id |-> id, notice_type |-> notice_type,
     title_slug |-> slugify(title), procurer |-> procurer, awards |-> awards,
     cpv_code |-> cpv, estimated_value |-> estimated, final_value |-> final,
     publication_date |-> day, award_date |-> 0, procedure_type |-> "none"]

-----------------------------------------------------------------------------
(* Vestnik: panels that refer to each other by the ids in their labels *)

NOTICE_TYPE_MAP(code) ==
    CASE code = "result" -> "contract_award"
      [] code = "planning" -> "contract_notice"
      [] code = "change" -> "contract_modification"
      [] OTHER -> "other"

\* A map built panel by panel: a panel without an id is skipped, the last wins.
MapOf(panels, Keep(_)) ==
    LET kept == SelectSeq(panels, LAMBDA p : p.panel # None /\ Keep(p))
    IN [id \in {p.panel : p \in ToSet(kept)} |->
           kept[CHOOSE k \in DOMAIN kept :
                   kept[k].panel = id /\ \A j \in (k + 1)..Len(kept) : kept[j].panel # id]]

_build_org_map(raw) == MapOf(raw.organisations, LAMBDA p : p.name # None)
_build_tp_map(raw) == MapOf(raw.parties, LAMBDA p : p.tenderer # None)
_build_tender_map(raw) == MapOf(raw.tenders, LAMBDA p : TRUE)

_find_org_by_name(raw, name) ==
    LET orgs == _build_org_map(raw)
        Listed == SelectSeq(raw.organisations,
                            LAMBDA p : p.panel # None /\ p.name # None
                                       /\ orgs[p.panel].name = name)
    IN IF Listed = <<>> THEN None ELSE orgs[Listed[1].panel]

\* One award per tender of a lot with a selected winner whose party and whose
\* organisation are both found; the lot's value stands in for the tender's.
VestnikAwards(raw) ==
    LET orgs == _build_org_map(raw)
        parties == _build_tp_map(raw)
        tenders == _build_tender_map(raw)
        Linked(ten) ==
            /\ ten \in DOMAIN tenders
            /\ tenders[ten].party \in DOMAIN parties
            /\ parties[tenders[ten].party].tenderer \in DOMAIN orgs
        Won(lot, ten) ==
            LET org == orgs[parties[tenders[ten].party].tenderer]
            IN Award(Organisation(org.ico, org.name, {"vestnik", "uvo"}),
                     ValueOr(_parse_float(tenders[ten].value), _parse_float(lot.value)))
        OfLot(lot) ==
            IF lot.outcome # "selec-w" THEN NoAward
            ELSE FlattenSeq([k \in DOMAIN lot.tenders |->
                                Only(Linked(lot.tenders[k]), Won(lot, lot.tenders[k]))])
    IN FlattenSeq([k \in DOMAIN raw.lots |-> OfLot(raw.lots[k])])

\* The buyer is named by a label and found among the organisations by name.  The
\* tree is flattened first wins, so the notice's final value is the first tender's.
transform_notice(raw) ==
    LET org == IF raw.partner = None THEN None ELSE _find_org_by_name(raw, raw.partner)
        first == FirstThat(raw.tenders, LAMBDA p : p.value # NoValue)
    IN CanonicalNotice("vestnik", raw.id, NOTICE_TYPE_MAP(raw.type), raw.title,
           IF raw.partner = None THEN None
             ELSE Organisation(IF org = None THEN None ELSE org.ico,
                               IF org = None THEN raw.partner ELSE org.name,
                               {"vestnik", "uvo"}),
           VestnikAwards(raw), raw.cpv, _parse_float(raw.estimate),
           IF first = None THEN NoValue ELSE _parse_float(first.value), raw.day)

-----------------------------------------------------------------------------
(* CRZ: contracts, whose dates come corrupted now and then *)

_parse_date(day) == IF day \in FirstPlausible..LastPlausible THEN day ELSE 0

_resolve_signing_date(raw) ==
    LET days == SelectSeq(<<_parse_date(raw.signed), _parse_date(raw.published),
                            _parse_date(raw.effective)>>, LAMBDA d : d # 0)
    IN IF days = <<>> THEN 0 ELSE days[1]

_coerce_ico(raw_cin, cin) == IF raw_cin # None THEN raw_cin ELSE cin

transform_contract(raw) ==
    LET Party(name, raw_cin, cin) ==
            IF name = None THEN None
            ELSE Organisation(_coerce_ico(raw_cin, cin), name, {"crz"})
        supplier == Party(raw.supplier, raw.supplier_cin_raw, raw.supplier_cin)
    IN CanonicalNotice("crz", raw.id, "contract_award", raw.title,
           Party(raw.authority, raw.authority_cin_raw, raw.authority_cin),
           IF supplier = None THEN NoAward ELSE <<Award(supplier, _parse_float(raw.total))>>,
           <<>>, _parse_float(raw.amount), _parse_float(raw.total),
           _resolve_signing_date(raw))

-----------------------------------------------------------------------------
(* TED: multilingual fields and lists, one entry per lot *)

_CAN_TYPES == {"can-standard", "can-modif", "can-social", "can-desg", "can-tran"}
_CN_TYPES == {"cn-standard", "cn-social", "cn-desg"}

_map_notice_type(code) ==
    IF code \in _CAN_TYPES THEN "contract_award"
    ELSE IF code \in _CN_TYPES THEN "contract_notice" ELSE "other"

_first_float(values) == IF values = <<>> THEN NoValue ELSE _parse_float(values[1])

\* The winners, or else the tenderers; each lot's value by position, or else the
\* notice's.  The first identifier that reads as an ICO is given to every winner.
TedAwards(raw) ==
    LET names == IF raw.winners # <<>> THEN raw.winners ELSE raw.tenderers
        ids == IF raw.winner_ids # <<>> THEN raw.winner_ids ELSE raw.tenderer_ids
        ico == FirstThat(ids, LAMBDA i : i.ico).id
        whole == _first_float(IF raw.result # <<>> THEN raw.result ELSE raw.tender_value)
        ValueOf(k) == IF k \in DOMAIN raw.lot_values /\ raw.lot_values[k] # NoValue
                        THEN _parse_float(raw.lot_values[k]) ELSE whole
    IN [k \in DOMAIN names |->
           Award(Organisation(IF \E i \in DOMAIN ids : ids[i].ico THEN ico ELSE None,
                              names[k], {"ted"}),
                 ValueOf(k))]

transform_ted_notice(raw) ==
    CanonicalNotice("ted", IF raw.oj # None THEN raw.oj ELSE raw.id,
        _map_notice_type(raw.type), raw.title,
        IF raw.buyer = None THEN None ELSE Organisation(None, raw.buyer, {"ted"}),
        TedAwards(raw), IF raw.cpvs = <<>> THEN <<>> ELSE raw.cpvs[1],
        NoValue, _first_float(raw.tender_value), raw.day)

-----------------------------------------------------------------------------
(* ITMS: a procurement with its subject and contracts, as far as the extractor *)
(* could fetch them                                                             *)

NoName == <<"", "">>
NoSubject == [name |-> None, ico |-> None]

\* The name of the resolved subject; its ICO, else the inline one; the legacy
\* shape only when there is neither.
ItmsProcurer(raw) ==
    LET ico == IF raw.subject.ico # None THEN raw.subject.ico ELSE raw.inline_ico
        party == IF raw.subject.name = None /\ ico = None THEN raw.legacy
                   ELSE [name |-> raw.subject.name, ico |-> ico]
    IN IF party = NoSubject THEN None
       ELSE Organisation(party.ico, IF party.name = None THEN NoName ELSE party.name, {"itms"})

_make_award(sup, value) ==
    Award(Organisation(sup.ico, IF sup.name = None THEN NoName ELSE sup.name, {"itms"}), value)

\* Every supplier of a contract, or else its main one; a supplier that has
\* neither ICO nor name is left out.
ItmsAwards(raw) ==
    LET OfContract(c) ==
            LET listed == IF c.suppliers # <<>> THEN c.suppliers ELSE <<c.main>>
            IN FlattenSeq([k \in DOMAIN listed |->
                              Only(listed[k] # NoSubject, _make_award(listed[k], c.value))])
    IN FlattenSeq([k \in DOMAIN raw.contracts |-> OfContract(raw.contracts[k])])

\* The extractor falls back to the list's stub when the detail cannot be had, to
\* no contracts, to the suppliers as they stand inline, to no subject.
fetch_procurements(raw, had) ==
    LET detail == IF "detail" \in had THEN raw
                  ELSE [raw EXCEPT !.title = NoName, !.cpv = <<>>, !.day = 0,
                                   !.estimate = NoValue, !.inline_ico = None, !.status = "none"]
        Inline(c) == [c EXCEPT !.main.name = None,
                               !.suppliers = [k \in DOMAIN @ |-> [@[k] EXCEPT !.name = None]]]
    IN [detail EXCEPT
           !.contracts = IF "contracts" \notin had THEN <<>>
                         ELSE IF "suppliers" \in had THEN @
                         ELSE [k \in DOMAIN @ |-> Inline(@[k])],
           !.subject = IF "subject" \in had THEN @ ELSE NoSubject]

transform_procurement(raw) ==
    CanonicalNotice("itms", raw.id,
        IF raw.status = "finished" /\ raw.contracts # <<>>
          THEN "contract_award" ELSE "contract_notice",
        raw.title, ItmsProcurer(raw), ItmsAwards(raw), raw.cpv, raw.estimate, NoValue, raw.day)

-----------------------------------------------------------------------------
(* Any source *)

\* A record without an id, or an ITMS value that is no number, does not validate.
Transforms(source, raw) ==
    /\ raw.id # None
    /\ source = "itms" => /\ raw.estimate # Junk
                          /\ \A k \in DOMAIN raw.contracts : raw.contracts[k].value # Junk

Transform(source, raw) ==
    CASE source = "vestnik" -> transform_notice(raw)
      [] source = "crz" -> transform_contract(raw)
      [] source = "ted" -> transform_ted_notice(raw)
      [] source = "itms" -> transform_procurement(raw)

\* What of a record is a list, and what of an ITMS record is there to lose.
IsList(s) == s \in Seq(ToSet(s))
WellFormed(source, raw) ==
    CASE source = "vestnik" ->
            IsList(raw.lots) /\ \A k \in DOMAIN raw.lots : IsList(raw.lots[k].tenders)
      [] source = "crz" -> TRUE
      [] source = "ted" -> IsList(raw.winners) /\ IsList(raw.tenderers)
      [] source = "itms" ->
            /\ {"contracts", "id"} \subseteq DOMAIN raw /\ raw.id \in Nat
            /\ IsList(raw.contracts)
            /\ \A k \in DOMAIN raw.contracts :
                  "suppliers" \in DOMAIN raw.contracts[k] /\ IsList(raw.contracts[k].suppliers)

KeyOf(n) == <<n.source, n.source_id>>

\* The fields a change of which counts; an award with an ICO is known by it alone.
compute_notice_hash(n) ==
    <<n.source, n.source_id, n.title_slug, IF n.procurer = None THEN None ELSE n.procurer.ico,
      n.cpv_code, n.publication_date, n.estimated_value, n.final_value,
      [k \in DOMAIN n.awards |->
          <<IF n.awards[k].supplier.ico # None THEN n.awards[k].supplier.ico
              ELSE n.awards[k].supplier.name_slug,
            IF n.awards[k].value = 0 THEN NoValue ELSE n.awards[k].value>>]>>
=============================================================================
