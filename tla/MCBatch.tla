------------------------------ MODULE MCBatch ------------------------------
(* Years of 24 days.  Two buyers, town and school, and two winners, build and *)
(* firm, in ten records of four sources and one document of an older         *)
(* pipeline.  build changes its name, firm is once named without its ico; one *)
(* record is older than a recent run looks back, one does not transform, and  *)
(* two are revised while the model's days pass, a contract and a bulletin at  *)
(* its old address.                                                          *)
EXTENDS Reporting

Town == <<"town", "">>
School == <<"school", "">>
BuildCo == <<"build", "">>
BuildNew == <<"buildnew", "">>
Firm == <<"firm", "">>
T(slug) == <<slug, "">>

MCReleases == LET
    Rel(source, url, day, raw) == [source |-> source, url |-> url, day |-> day, raw |-> raw]
    \* a bulletin's item: the town buys of build and of firm, in one lot
    Item(id, first, day) ==
        [id |-> id, type |-> "result", title |-> T("works"), partner |-> Town,
         organisations |-> <<[panel |-> "o1", name |-> Town, ico |-> "p1"],
                             [panel |-> "o2", name |-> BuildCo, ico |-> "s1"],
                             [panel |-> "o3", name |-> Firm, ico |-> "s2"]>>,
         parties |-> <<[panel |-> "t2", tenderer |-> "o2"], [panel |-> "t3", tenderer |-> "o3"]>>,
         tenders |-> <<[panel |-> "n1", value |-> first, party |-> "t2"],
                       [panel |-> "n2", value |-> NoValue, party |-> "t3"]>>,
         lots |-> <<[outcome |-> "selec-w", tenders |-> <<"n1", "n2">>, value |-> 4]>>,
         cpv |-> <<"45", "1">>, estimate |-> 12, day |-> day]
    Contract(id, buyer, buyer_ico, winner, winner_ico, total, day) ==
        [id |-> id, title |-> T(id), authority |-> buyer, authority_cin_raw |-> buyer_ico,
         authority_cin |-> buyer_ico, supplier |-> winner, supplier_cin_raw |-> None,
         supplier_cin |-> winner_ico, total |-> total, amount |-> 2,
         signed |-> IF id = "c2" THEN 5 ELSE day, published |-> day, effective |-> 0]
    Ted(id, buyer, values, day) ==
        [id |-> id, oj |-> None, type |-> "can-standard", title |-> T("works"), buyer |-> buyer,
         winners |-> <<Firm, Firm>>, tenderers |-> <<>>, winner_ids |-> <<[id |-> "x", ico |-> FALSE],
                                                                       [id |-> "s2", ico |-> TRUE]>>,
         tenderer_ids |-> <<>>, result |-> <<>>, tender_value |-> values, lot_values |-> <<3>>,
         cpvs |-> <<<<"45">>>>, day |-> day]
    Itms(id, value, day) ==
        [id |-> id, status |-> "finished", title |-> T("books"),
         subject |-> [name |-> School, ico |-> "p2"], inline_ico |-> "p2", legacy |-> NoSubject,
         contracts |-> <<[value |-> value, suppliers |-> <<>>,
                          main |-> [name |-> BuildCo, ico |-> "s1"]]>>,
         cpv |-> <<"79", "2">>, estimate |-> value, day |-> day]
    IN {Rel("vestnik", "u1", 80, Item("v1", 8, 80)),
        Rel("vestnik", "u1", 84, Item("v1", 6, 80)),
        Rel("crz", None, 70, Contract("c1", Town, "p1", BuildNew, "s1", 9, 70)),
        Rel("crz", None, 79, Contract("c2", School, "p2", Firm, None, NoValue, 79)),
        Rel("crz", None, 81, Contract("c3", Town, "p1", BuildNew, "s1", 7, 81)),
        Rel("crz", None, 82, Contract("c4", Town, "p1", BuildCo, "s1", 5, 82)),
        Rel("crz", None, 80, Contract("c5", Town, "p1", Firm, "s2", 20, 80)),
        Rel("crz", None, 83, Contract("c4", Town, "p1", BuildCo, "s1", 6, 82)),
        Rel("ted", None, 81, Ted("e1", Town, <<6>>, 81)),
        Rel("itms", None, 78, Itms(1, 9, 78)),
        Rel("itms", None, 79, Itms(2, Junk, 79)),
        Rel("itms", None, 82, Itms(3, 1, 82))}

\* A framework call-off of the town, awarded on a day of its own.
MCBacklog ==
    {[source |-> "uvo", source_id |-> "old", notice_type |-> "contract_award",
      title_slug |-> "old", procurer |-> Organisation("p1", Town, {"uvo"}),
      awards |-> <<Award(Organisation("s1", BuildCo, {"uvo"}), 1)>>, cpv_code |-> <<"45", "1">>,
      estimated_value |-> NoValue, final_value |-> 1, publication_date |-> 60, award_date |-> 81,
      procedure_type |-> "framework", ingested_at |-> 61, canonical_id |-> None,
      pipeline_run_id |-> 0]}

MCModes == <<{"historical"}, {"recent"}>>

MCFilters ==
    {NoFilter,
     [NoFilter EXCEPT !.date_from = 81, !.date_to = 83, !.procurer_ico = "p1"],
     [NoFilter EXCEPT !.date_from = 80, !.cpv = <<"45">>],
     [NoFilter EXCEPT !.date_from = 90]}
=============================================================================
