----------------------------- MODULE Delivery -----------------------------
(***************************************************************************)
(* What the ingestor promises the extractors (docstring of                 *)
(* uvo_workers/ingestor.py): at-least-once delivery of every stream entry  *)
(* into both stores.  An entry is settled (acknowledged, never delivered   *)
(* again) only once MongoDB holds its notice, or a newer one for the same  *)
(* key, and Neo4j has merged it; the exceptions are an entry that cannot   *)
(* be decoded and one that is given up.  Nobody reads the streams, batches,*)
(* redeliveries or processes here: module Ingestor implements this.        *)
(***************************************************************************)
EXTENDS Naturals

CONSTANTS
    Undecodable,  \* entries that are not a notice
    KeyOf,        \* the (source, source_id) of an entry's notice
    HashOf        \* the content hash of an entry's notice

VARIABLES
    published,  \* entries 1..published are in the stream
    stored,     \* entries whose notice was written to MongoDB
    merged,     \* entries whose notice was merged into Neo4j
    givenUp,    \* entries parked after too many deliveries
    settled     \* entries acknowledged

deliveryVars == <<published, stored, merged, givenUp, settled>>

Init ==
    /\ published = 0
    /\ stored = {}
    /\ merged = {}
    /\ givenUp = {}
    /\ settled = {}

Outstanding == (1..published) \ settled

\* MongoDB holds, or held, the content of e or of a later entry for its key.
InMongo(e) ==
    \E heir \in e..published, s \in stored :
        KeyOf[heir] = KeyOf[e] /\ KeyOf[s] = KeyOf[e] /\ HashOf[s] = HashOf[heir]

InBothStores(e) == InMongo(e) /\ e \in merged

Publish ==
    /\ published' = published + 1
    /\ UNCHANGED <<stored, merged, givenUp, settled>>

Store ==
    /\ stored \subseteq stored' /\ stored' \subseteq 1..published
    /\ UNCHANGED <<published, merged, givenUp, settled>>

Merge ==
    /\ merged \subseteq merged' /\ merged' \subseteq 1..published
    /\ UNCHANGED <<published, stored, givenUp, settled>>

Settle ==
    /\ \E batch \in SUBSET Outstanding :
           /\ \A e \in batch : e \in Undecodable \/ InBothStores(e)
           /\ settled' = settled \cup batch
    /\ UNCHANGED <<published, stored, merged, givenUp>>

GiveUp ==
    /\ \E e \in 1..published :
           /\ givenUp' = givenUp \cup {e}
           /\ settled' \in {settled, settled \cup {e}}
    /\ UNCHANGED <<published, stored, merged>>

Next == Publish \/ Store \/ Merge \/ Settle \/ GiveUp

Spec == Init /\ [][Next]_deliveryVars
=============================================================================
