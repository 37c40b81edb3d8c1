----------------------------- MODULE Ingestor -----------------------------
(***************************************************************************)
(* The ingestor worker (uvo_workers/ingestor.py) on one source stream:     *)
(* read a batch, write it to MongoDB (upsert_batch) and Neo4j              *)
(* (merge_notice_batch), acknowledge what both accepted; reclaim what      *)
(* stayed pending, retry it, and park what keeps failing on its own.       *)
(* Several ingestors may share the group (a rollout overlaps two pods).    *)
(* Every await on Redis, MongoDB or Neo4j ends a step, may fail, and may   *)
(* fail after it took effect; a process may die at any of them.            *)
(*                                                                         *)
(* Trimming is module NoticeStream's: here log is everything added.        *)
(***************************************************************************)
EXTENDS RedisStream

CONSTANTS
    Ingestors,
    Entries,          \* bound of the model: the extractors add ids 1..Entries
    Keys,             \* (source, source_id) of a notice
    KeyOf,            \* [1..Entries -> Keys]
    HashOf,           \* [1..Entries -> content hashes]
    Undecodable,      \* entries whose payload is not a notice
    MongoRejects,     \* entries MongoDB answers with a write error, always
    MongoRaises,      \* entries on which bulk_write raises, always
    GraphRejects,     \* entries Neo4j cannot merge, always
    ReadCount,        \* ingestor_batch_size
    ReclaimMax,       \* max_pages times count of autoclaim_stale: 1000
    DeliveryLimit,    \* ingestor_max_deliveries
    OutageThreshold,  \* _OUTAGE_SUSPECT_THRESHOLD
    MaxFaults,        \* bound of the model: failing calls that are nobody's entry's fault
    MaxCrashes        \* bound of the model: ingestor deaths

Ids == 1..Entries

ASSUME IngestorAssumption ==
    /\ Entries \in Nat
    /\ KeyOf \in [Ids -> Keys]
    /\ Undecodable \subseteq Ids
    /\ DeliveryLimit \in Nat \ {0}
    /\ MaxFaults \in Nat
    /\ MaxCrashes \in Nat

VARIABLES
    deliveries,  \* the PEL's delivery counter of each entry, up to DeliveryLimit
    stale,       \* pending entries idle for ingestor_reclaim_min_idle_ms
    notices,     \* collection notices: the entry whose document a key holds, or 0
    registry,    \* collection ingested_docs: the entry whose hash a key holds, or 0
    stored,      \* history: entries ever written to notices
    merged,      \* entries whose notice is merged in Neo4j
    dead,        \* entries copied to notices:dead
    parked,      \* history: entries given up by _park_failed_entry
    pc,          \* per ingestor: the await it is at
    job,         \* per ingestor: its process_entries call
    reclaim,     \* per ingestor: its reclaim_pending call
    faults, crashes

storeVars == <<notices, registry, stored, merged>>
vars == <<added, log, group, lastDelivered, pel, acked, deliveries, stale, notices, registry,
          stored, merged, dead, parked, pc, job, reclaim, faults, crashes>>

Labels == {"boot", "idle", "decode", "rejected", "find", "write", "register", "merge", "ack",
           "suspects", "park", "parkAck"}

Jobs == [kind : {"none", "new", "fresh", "suspect"},
         ids : SUBSET Ids,           \* entries still to be handled by this call
         poison : {0} \cup Ids,      \* undecodable entry being rejected
         found : [Keys -> {0} \cup Ids], \* registry as find() returned it
         failed : SUBSET Keys]
Reclaims == [todo : SUBSET Ids, count : Nat, failing : SUBSET Ids, errored : SUBSET Ids]

JobFor(kind, ids) ==
    [kind |-> kind, ids |-> ids, poison |-> 0, found |-> [k \in Keys |-> 0], failed |-> {}]
NoJob == JobFor("none", {})
NoReclaim == [todo |-> {}, count |-> 0, failing |-> {}, errored |-> {}]

Init ==
    /\ StreamInit
    /\ deliveries = [id \in Ids |-> 0]
    /\ stale = {}
    /\ notices = [k \in Keys |-> 0]
    /\ registry = [k \in Keys |-> 0]
    /\ stored = {} /\ merged = {} /\ dead = {} /\ parked = {}
    /\ pc = [i \in Ingestors |-> "boot"]
    /\ job = [i \in Ingestors |-> NoJob]
    /\ reclaim = [i \in Ingestors |-> NoReclaim]
    /\ faults = 0 /\ crashes = 0

-----------------------------------------------------------------------------
(* Helpers *)

Smallest(S) == CHOOSE x \in S : \A y \in S : x <= y

Fault == faults < MaxFaults /\ faults' = faults + 1
NoFault == UNCHANGED faults

Goto(i, label) == pc' = [pc EXCEPT ![i] = label]

Ack(ids) == XACK(ids) /\ stale' = stale \ ids

\* process_entries returns: a new batch ends the iteration, reclaimed entries
\* go on with the suspects, and a suspect's outcome is remembered.
Return(i, outcome) ==
    /\ job' = [job EXCEPT ![i] = NoJob]
    /\ Goto(i, IF job[i].kind = "new" THEN "idle" ELSE "suspects")
    /\ reclaim' = IF job[i].kind = "suspect" /\ outcome # "ok"
                    THEN [reclaim EXCEPT ![i] = [reclaim[i] EXCEPT
                             !.failing = reclaim[i].failing \cup job[i].ids,
                             !.errored = IF outcome = "error"
                                           THEN reclaim[i].errored \cup job[i].ids
                                           ELSE reclaim[i].errored]]
                    ELSE reclaim

\* upsert_batch: the last entry of a key in the batch stands for the key, and is
\* written unless the registry had its hash.
LastOfKey(ids) == {id \in ids : \A other \in ids : KeyOf[other] = KeyOf[id] => other <= id}

\* Seeded bug: a key in the registry counts as unchanged whatever its hash.
UnchangedByKey(i, id) == job[i].found[KeyOf[id]] # 0

Unchanged(i, id) ==
    LET seen == job[i].found[KeyOf[id]] IN seen # 0 /\ HashOf[seen] = HashOf[id]
ToWrite(i) == {id \in LastOfKey(job[i].ids) : ~Unchanged(i, id)}

\* What upsert_batch puts into the registry: what it wrote and MongoDB took.
\* Seeded bug: also what MongoDB refused.
RegistrableAll(i) == ToWrite(i)

Registrable(i) == {id \in ToWrite(i) : KeyOf[id] \notin job[i].failed}

\* Seeded bug: writing replaces the collection.
WrittenAlone(collection, ids) ==
    [k \in {KeyOf[id] : id \in ids} |-> CHOOSE id \in ids : KeyOf[id] = k]

\* A collection after the documents of `ids`, one per key, were written to it.
Written(collection, ids) ==
    [k \in Keys |-> IF \E id \in ids : KeyOf[id] = k
                      THEN CHOOSE id \in ids : KeyOf[id] = k ELSE collection[k]]

KeysOf(ids) == {KeyOf[id] : id \in ids}

\* Seeded bug: acknowledges the whole batch.
AcceptedAll(i) == job[i].ids

Accepted(i) == {id \in job[i].ids : KeyOf[id] \notin job[i].failed}

-----------------------------------------------------------------------------
(* The rest of the world *)

\* An extractor adds a notice (the cap is out of reach: see NoticeStream).
Publish ==
    /\ added < Entries
    /\ XADD(Entries)
    /\ UNCHANGED <<deliveries, stale, storeVars, dead, parked, pc, job, reclaim, faults, crashes>>

\* A minute passes: all that is pending becomes reclaimable, by any consumer.
Age ==
    /\ stale # pel
    /\ stale' = pel
    /\ UNCHANGED <<streamVars, deliveries, storeVars, dead, parked, pc, job, reclaim, faults,
                   crashes>>

\* The process dies, or is stopped by a rollout, wherever it is.
Crash(i) ==
    /\ pc[i] # "boot"
    /\ crashes < MaxCrashes
    /\ crashes' = crashes + 1
    /\ Goto(i, "boot")
    /\ job' = [job EXCEPT ![i] = NoJob]
    /\ reclaim' = [reclaim EXCEPT ![i] = NoReclaim]
    /\ UNCHANGED <<streamVars, deliveries, stale, storeVars, dead, parked, faults>>

-----------------------------------------------------------------------------
(* run_ingestor *)

\* ensure_consumer_group, then the loop
Boot(i) ==
    /\ pc[i] = "boot"
    /\ \/ XGROUP_CREATE(0)
       \/ group /\ UNCHANGED streamVars
    /\ Goto(i, "idle")
    /\ UNCHANGED <<deliveries, stale, storeVars, dead, parked, job, reclaim, faults, crashes>>

\* read_group.  Its reply may be lost after the group delivered the entries.
ReadNew(i) ==
    /\ pc[i] = "idle"
    /\ \E last \in Unread : XREADGROUP(ReadCount, last)
    /\ LET batch == pel' \ pel IN
           /\ deliveries' = [id \in Ids |-> IF id \in batch THEN 1 ELSE deliveries[id]]
           /\ \/ /\ NoFault
                 /\ Goto(i, "decode")
                 /\ job' = [job EXCEPT ![i] = JobFor("new", batch)]
              \/ Fault /\ UNCHANGED <<pc, job>>
    /\ UNCHANGED <<stale, storeVars, dead, parked, reclaim, crashes>>

\* The pages of XAUTOCLAIM that autoclaim_stale asks for: the oldest stale entries.
Claimable == {id \in stale : Cardinality({older \in stale : older < id}) < ReclaimMax}

\* reclaim_pending: XAUTOCLAIM of what is stale, then split on the counters.  A
\* page or the counters may be lost after the claim, which still counts as a
\* delivery of what was on it.
StartReclaim(i) ==
    /\ pc[i] = "idle"
    /\ stale # {}
    /\ deliveries' = [id \in Ids |-> IF id \in Claimable /\ deliveries[id] < DeliveryLimit
                                       THEN deliveries[id] + 1 ELSE deliveries[id]]
    /\ stale' = stale \ Claimable
    /\ \E claimed \in SUBSET Claimable :
           LET suspects == {id \in claimed : deliveries'[id] >= DeliveryLimit}
               fresh == claimed \ suspects
           IN /\ IF claimed = Claimable THEN NoFault ELSE Fault
              /\ reclaim' = [reclaim EXCEPT ![i] =
                     [NoReclaim EXCEPT !.todo = suspects, !.count = Cardinality(suspects)]]
              /\ job' = [job EXCEPT ![i] =
                     IF fresh = {} THEN NoJob ELSE JobFor("fresh", fresh)]
              /\ Goto(i, IF claimed = {} THEN "idle" ELSE IF fresh = {} THEN "suspects" ELSE "decode")
    /\ UNCHANGED <<streamVars, storeVars, dead, parked, crashes>>

-----------------------------------------------------------------------------
(* process_entries *)

\* _reject_poison acknowledges first (a failing ack is only logged) ...
RejectAck(i) ==
    /\ pc[i] = "decode"
    /\ job[i].ids \cap Undecodable # {}
    /\ LET id == Smallest(job[i].ids \cap Undecodable) IN
           /\ job' = [job EXCEPT ![i].poison = id]
           /\ \/ NoFault /\ Ack({id})
              \/ Fault /\ UNCHANGED <<streamVars, stale>>
    /\ Goto(i, "rejected")
    /\ UNCHANGED <<deliveries, storeVars, dead, parked, reclaim, crashes>>

\* ... and copies to notices:dead second, at best effort.
RejectPark(i) ==
    /\ pc[i] = "rejected"
    /\ \/ NoFault /\ dead' = dead \cup {job[i].poison}
       \/ Fault /\ UNCHANGED dead
    /\ job' = [job EXCEPT ![i] = [job[i] EXCEPT !.ids = job[i].ids \ {job[i].poison}, !.poison = 0]]
    /\ Goto(i, "decode")
    /\ UNCHANGED <<streamVars, deliveries, stale, storeVars, parked, reclaim, crashes>>

DecodeDone(i) ==
    /\ pc[i] = "decode"
    /\ job[i].ids \cap Undecodable = {}
    /\ IF job[i].ids = {} THEN Return(i, "ok")
                          ELSE Goto(i, "find") /\ UNCHANGED <<job, reclaim>>
    /\ UNCHANGED <<streamVars, deliveries, stale, storeVars, dead, parked, faults, crashes>>

\* upsert_batch: ingested_docs.find
FindRegistry(i) ==
    /\ pc[i] = "find"
    /\ \/ /\ NoFault
          /\ job' = [job EXCEPT ![i].found = registry]
          /\ Goto(i, "write")
          /\ UNCHANGED reclaim
       \/ Fault /\ Return(i, "error")
    /\ UNCHANGED <<streamVars, deliveries, stale, storeVars, dead, parked, crashes>>

\* upsert_batch: notices.bulk_write, unordered.  Write errors fail their own
\* notice; any other exception fails the batch, with some documents written.
WriteNotices(i) ==
    /\ pc[i] = "write"
    /\ \E ok \in SUBSET ToWrite(i) :
           LET rejected == ToWrite(i) \ ok IN
           /\ ok \cap (MongoRejects \cup MongoRaises) = {}
           /\ notices' = Written(notices, ok)
           /\ stored' = stored \cup ok
           /\ \/ /\ rejected \cap MongoRaises = {}
                 /\ IF rejected \subseteq MongoRejects THEN NoFault ELSE Fault
                 /\ job' = [job EXCEPT ![i].failed = KeysOf(rejected)]
                 /\ Goto(i, "register")
                 /\ UNCHANGED reclaim
              \/ /\ IF rejected \cap MongoRaises # {} THEN NoFault ELSE Fault
                 /\ Return(i, "error")
    /\ UNCHANGED <<streamVars, deliveries, stale, registry, merged, dead, parked, crashes>>

\* upsert_batch: ingested_docs.bulk_write for what was written.  Write errors,
\* a duplicate insert by another ingestor among them, are only logged.
WriteRegistry(i) ==
    /\ pc[i] = "register"
    /\ LET fits == {id \in Registrable(i) : job[i].found[KeyOf[id]] # 0 \/ registry[KeyOf[id]] = 0}
       IN \/ /\ registry' = Written(registry, fits)
             /\ NoFault /\ Goto(i, "merge") /\ UNCHANGED <<job, reclaim>>
          \/ /\ Fault
             /\ \E some \in SUBSET fits : registry' = Written(registry, some)
             /\ \/ Goto(i, "merge") /\ UNCHANGED <<job, reclaim>>
                \/ Return(i, "error")
    /\ UNCHANGED <<streamVars, deliveries, stale, notices, stored, merged, dead, parked, crashes>>

\* merge_notice_batch: every notice in its own try; a Neo4j outage therefore
\* looks like that many failed notices, not like an error of the batch.
MergeGraph(i) ==
    /\ pc[i] = "merge"
    /\ \E ok \in SUBSET Accepted(i) :
           LET rejected == Accepted(i) \ ok IN
           /\ ok \cap GraphRejects = {}
           /\ merged' = merged \cup ok
           /\ \/ /\ IF rejected \subseteq GraphRejects THEN NoFault ELSE Fault
                 /\ job' = [job EXCEPT ![i].failed = job[i].failed \cup KeysOf(rejected)]
                 /\ Goto(i, "ack")
                 /\ UNCHANGED reclaim
              \/ Fault /\ Return(i, "error")
    /\ UNCHANGED <<streamVars, deliveries, stale, notices, registry, stored, dead, parked, crashes>>

\* XACK of what both stores accepted, then PUBLISH notices:written.  Either
\* may raise, before or after the acknowledgement took effect.
AckWritten(i) ==
    /\ pc[i] = "ack"
    /\ \/ /\ NoFault
          /\ Ack(Accepted(i))
          /\ Return(i, IF Accepted(i) = job[i].ids THEN "ok" ELSE "failed")
       \/ /\ Accepted(i) # {}
          /\ Fault
          /\ \/ Ack(Accepted(i))
             \/ UNCHANGED <<streamVars, stale>>
          /\ Return(i, "error")
    /\ UNCHANGED <<deliveries, storeVars, dead, parked, crashes>>

-----------------------------------------------------------------------------
(* reclaim_pending, after the fresh entries: the suspects, one at a time *)

\* Seeded bug: the suspects are retried as a batch.
NextSuspectsTogether(i) == reclaim[i].todo

NextSuspects(i) == {Smallest(reclaim[i].todo)}

ProcessSuspect(i) ==
    /\ pc[i] = "suspects"
    /\ reclaim[i].todo # {}
    /\ job' = [job EXCEPT ![i] = JobFor("suspect", NextSuspects(i))]
    /\ reclaim' = [reclaim EXCEPT ![i].todo = reclaim[i].todo \ NextSuspects(i)]
    /\ Goto(i, "decode")
    /\ UNCHANGED <<streamVars, deliveries, stale, storeVars, dead, parked, faults, crashes>>

\* Seeded bug: a single failing suspect is taken for an outage.
OutageOfOne(i) == Cardinality(reclaim[i].failing) = reclaim[i].count

\* Many suspects, all failing: leave them pending.
Outage(i) ==
    /\ reclaim[i].count >= OutageThreshold
    /\ Cardinality(reclaim[i].failing) = reclaim[i].count

\* Otherwise park those that failed without an infrastructure error.
JudgeSuspects(i) ==
    /\ pc[i] = "suspects"
    /\ reclaim[i].todo = {}
    /\ LET guilty == IF Outage(i) THEN {} ELSE reclaim[i].failing \ reclaim[i].errored IN
           IF guilty = {}
             THEN Goto(i, "idle") /\ reclaim' = [reclaim EXCEPT ![i] = NoReclaim]
             ELSE Goto(i, "park") /\ reclaim' = [reclaim EXCEPT ![i] =
                                         [NoReclaim EXCEPT !.todo = guilty]]
    /\ UNCHANGED <<streamVars, deliveries, stale, storeVars, dead, parked, job, faults, crashes>>

\* _park_failed_entry: the copy is best effort ...
ParkCopy(i) ==
    /\ pc[i] = "park"
    /\ \/ NoFault /\ dead' = dead \cup {Smallest(reclaim[i].todo)}
       \/ Fault /\ UNCHANGED dead
    /\ Goto(i, "parkAck")
    /\ UNCHANGED <<streamVars, deliveries, stale, storeVars, parked, job, reclaim, crashes>>

\* ... the acknowledgement is not: if it raises, the rest of the round is left.
ParkAck(i) ==
    /\ pc[i] = "parkAck"
    /\ LET id == Smallest(reclaim[i].todo)
           rest == reclaim[i].todo \ {id}
       IN \/ /\ NoFault
             /\ Ack({id}) /\ parked' = parked \cup {id}
             /\ reclaim' = [reclaim EXCEPT ![i].todo = rest]
             /\ Goto(i, IF rest = {} THEN "idle" ELSE "park")
          \/ /\ Fault
             /\ \/ Ack({id}) /\ parked' = parked \cup {id}
                \/ UNCHANGED <<streamVars, stale, parked>>
             /\ reclaim' = [reclaim EXCEPT ![i] = NoReclaim]
             /\ Goto(i, "idle")
    /\ UNCHANGED <<deliveries, storeVars, dead, job, crashes>>

-----------------------------------------------------------------------------
ProcessEntries(i) ==
    \/ RejectAck(i) \/ RejectPark(i) \/ DecodeDone(i)
    \/ FindRegistry(i) \/ WriteNotices(i) \/ WriteRegistry(i) \/ MergeGraph(i) \/ AckWritten(i)
Suspects(i) == ProcessSuspect(i) \/ JudgeSuspects(i) \/ ParkCopy(i) \/ ParkAck(i)
Step(i) == Boot(i) \/ ReadNew(i) \/ StartReclaim(i) \/ ProcessEntries(i) \/ Suspects(i)

Next ==
    \/ Publish
    \/ Age
    \/ \E i \in Ingestors : Step(i) \/ Crash(i)

Spec == Init /\ [][Next]_vars

\* The contract the steps above implement.
Promise == INSTANCE Delivery WITH published <- added, givenUp <- parked, settled <- acked

\* The loop never stops stepping; it polls the stream on every turn and reclaims
\* on a timer of its own, whatever the traffic; and idle time passes.
FairSpec ==
    /\ Spec
    /\ WF_vars(Age)
    /\ \A i \in Ingestors : /\ WF_vars(Step(i))
                            /\ SF_vars(ReadNew(i))
                            /\ SF_vars(StartReclaim(i))

-----------------------------------------------------------------------------
(* Properties *)

\* The ingestor's variables keep their types: only pending entries are stale, and
\* both collections and the registry hold entries of the stream.
TypeOK ==
    /\ StreamTypeOK
    /\ deliveries \in [Ids -> 0..DeliveryLimit]
    /\ stale \subseteq pel
    /\ notices \in [Keys -> {0} \cup Ids]
    /\ registry \in [Keys -> {0} \cup Ids]
    /\ stored \subseteq Ids /\ merged \subseteq Ids
    /\ dead \subseteq Ids /\ parked \subseteq Ids
    /\ pc \in [Ingestors -> Labels]
    /\ job \in [Ingestors -> Jobs]
    /\ reclaim \in [Ingestors -> Reclaims]
    /\ faults \in 0..MaxFaults
    /\ crashes \in 0..MaxCrashes

\* An acknowledged entry is in both stores, unless it is no notice or was parked:
\* whatever failed, was redelivered, or was worked on by two ingestors at once.
AckedInBothStores ==
    \A id \in acked : id \in Undecodable \/ id \in parked \/ Promise!InBothStores(id)

\* The registry never runs ahead of the notices: a hash in it is the hash of a
\* document once written, so "unchanged" never skips what was never stored.
RegistryBacked ==
    \A k \in Keys : registry[k] # 0 => registry[k] \in stored /\ notices[k] # 0

\* Only a failure of its own parks an entry: not the failures of its neighbours
\* in a batch, and not the deliveries that crashed ingestors used up.
InnocentNotParked == faults = 0 => parked \subseteq MongoRejects \cup GraphRejects

\* The ingestor keeps the promise of module Delivery.
PromiseKept == Promise!Spec

\* Every notice that was added is eventually settled, good or bad, once faults
\* and crashes stop; one on which MongoDB's driver raises is never given up.
EveryEntrySettles == \A id \in Ids \ MongoRaises : id <= added ~> id \in acked

(* What comments and documentation say and the code does not do *)

\* An outage never gets a good entry dead-lettered (ingestor.py:53).
OutageDiscardsNothing == parked \subseteq MongoRejects \cup GraphRejects

\* Ingestion is idempotent, so a redelivery is harmless (streams.py:204): it does
\* not replace a notice by an older version of it.
RedeliveryHarmless == [][\A k \in Keys : notices'[k] >= notices[k]]_vars
=============================================================================
