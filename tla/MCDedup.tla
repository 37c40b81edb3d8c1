------------------------------ MODULE MCDedup ------------------------------
(* Four notices of four sources.  a, b and d share a title within days of b;  *)
(* a, b and c share a supplier, and the values of b and c do not agree; b and  *)
(* d gain a procurer and a code, those of c, in their second versions.         *)
EXTENDS DedupWorker

CONSTANTS a, b, c, d, k, s, proc, supp

Doc(source, procurer, cpv, slug, published, awards, final) ==
    [source |-> source, procurer |-> procurer, cpv |-> cpv, slug |-> slug,
     published |-> published, awards |-> awards, final |-> final]
Won(value) == {[supplier |-> supp, value |-> value]}

MCIds == {a, b, c, d}
MCVersions ==
    a :> <<Doc("vestnik", None, None, s, 3, Won(12), 12)>> @@
    b :> <<Doc("crz", None, None, s, 6, Won(17), 17), Doc("crz", proc, k, s, 6, Won(17), 17)>> @@
    c :> <<Doc("ted", proc, k, None, 8, Won(9), 0)>> @@
    d :> <<Doc("itms", None, None, s, 11, {}, 4), Doc("itms", proc, k, s, 11, {}, 4)>>
=============================================================================
