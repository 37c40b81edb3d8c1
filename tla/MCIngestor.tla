----------------------------- MODULE MCIngestor -----------------------------
(* Small instances of Ingestor for TLC.  Each .cfg picks its entries. *)
EXTENDS Ingestor, TLC
CONSTANTS i1, i2, k1, k2, k3, h1, h2, h3

OneIngestor == {i1}
TwoIngestors == {i1, i2}
TwoKeys == {k1, k2}
ThreeKeys == {k1, k2, k3}

\* A notice, a change of it, and the change undone.
RevertedKeys == <<k1, k1, k1>>
RevertedHashes == <<h1, h2, h1>>

\* Two notices, then a change of the first.
UpdatedKeys == <<k1, k2, k1>>
UpdatedHashes == <<h1, h2, h3>>

\* Three notices of their own.
DistinctKeys == <<k1, k2, k3>>

\* Bad entries of every kind, and a good one (4) that shares the key of the second.
MixedKeys == <<k1, k2, k3, k1, k3>>
MixedHashes == <<h1, h2, h3, h1, h2>>

None == {}
First == {1}
Second == {2}
Third == {3}
Fifth == {5}
FirstThree == {1, 2, 3}

Symmetry == Permutations(TwoIngestors)
=============================================================================
