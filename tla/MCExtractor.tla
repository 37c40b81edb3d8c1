----------------------------- MODULE MCExtractor -----------------------------
(* Small instances of Extractor for TLC. *)
EXTENDS Extractor, TLC
CONSTANTS e1, e2

OneInstance == {e1}
TwoInstances == {e1, e2}
AllStrategies == KnownStrategies
NotVestnik == {"WallClock", "MinId"}
VestnikOnly == {"MaxModified"}
Processes == Permutations(Instances)
None == {}
First == {1}
=============================================================================
