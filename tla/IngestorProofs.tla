-------------------------- MODULE IngestorProofs --------------------------
(***************************************************************************)
(* Proofs about Ingestor, for every number of ingestors and entries, every *)
(* assignment of keys and hashes, every set of bad entries and every       *)
(* number of faults and crashes: the acknowledgement discipline, and that  *)
(* the worker implements the contract of module Delivery.                  *)
(***************************************************************************)
EXTENDS Ingestor, FiniteSetTheorems, TLAPS

\* The lemmas about numbers beside those about folds, which take an operator each.
Numbers == INSTANCE Folding WITH Op <- LAMBDA c, value, x : value, Good <- LAMBDA c, value : TRUE

(***************************************************************************)
(* The inductive invariant.                                                *)
(***************************************************************************)

\* Before the group exists nothing was delivered.
GroupInv == ~group => lastDelivered = 0

\* The variables that the ingestors share: their types, and that whatever a
\* store holds was added to the stream.
Shared ==
    /\ StreamTypeOK
    /\ GroupInv
    /\ added <= Entries
    /\ deliveries \in [Ids -> 0..DeliveryLimit]
    /\ stale \subseteq pel
    /\ notices \in [Keys -> {0} \cup Ids]
    /\ registry \in [Keys -> {0} \cup Ids]
    /\ stored \subseteq 1..added /\ merged \subseteq 1..added
    /\ dead \subseteq Ids /\ parked \subseteq Ids
    /\ faults \in 0..MaxFaults
    /\ crashes \in 0..MaxCrashes

\* An ingestor's own: what it holds was added, and the entry it is about to
\* reject or park exists.
Local(i) ==
    /\ pc[i] \in Labels
    /\ job[i] \in Jobs
    /\ reclaim[i] \in Reclaims
    /\ job[i].ids \subseteq 1..added
    /\ reclaim[i].todo \subseteq 1..added
    /\ reclaim[i].failing \subseteq 1..added
    /\ pc[i] = "rejected" => job[i].poison \in Ids
    /\ pc[i] \in {"park", "parkAck"} => reclaim[i].todo # {}

Tables ==
    /\ pc = [i \in Ingestors |-> pc[i]]
    /\ job = [i \in Ingestors |-> job[i]]
    /\ reclaim = [i \in Ingestors |-> reclaim[i]]

\* All the types, and what goes with them.
Types == Tables /\ Shared /\ \A i \in Ingestors : Local(i)

\* Entry e is an entry of key k that was written to MongoDB, which holds a
\* document for k ever since.
Backs(e, k) == e \in stored /\ KeyOf[e] = k /\ notices[k] # 0

RegistryInv == \A k \in Keys : registry[k] # 0 => Backs(registry[k], k)

\* What an ingestor knows of the stores, from the await it is at: the registry it
\* read was backed; past the writes, what did not fail is in MongoDB; past the
\* merges, in Neo4j too.
Work(i) ==
    /\ \A k \in Keys : job[i].found[k] # 0 => Backs(job[i].found[k], k)
    /\ pc[i] = "register" => \A id \in ToWrite(i) :
           KeyOf[id] \notin job[i].failed => Backs(id, KeyOf[id])
    /\ pc[i] \in {"register", "merge", "ack"} => \A id \in Accepted(i) : Promise!InMongo(id)
    /\ pc[i] = "ack" => Accepted(i) \subseteq merged

IInv == Types /\ RegistryInv /\ (\A i \in Ingestors : Work(i)) /\ AckedInBothStores

-----------------------------------------------------------------------------
(* Entries of a batch *)

\* Smallest picks a member.
LEMMA SmallestMember ==
    ASSUME NEW S, S \subseteq Nat, S # {}
    PROVE  Smallest(S) \in S
BY Numbers!HasSmallest DEF Smallest

\* Every entry of a batch has an heir: the last entry of its key in the batch.
LEMMA HasHeir ==
    ASSUME NEW ids, ids \subseteq Ids, NEW e \in ids
    PROVE  \E heir \in LastOfKey(ids) : KeyOf[heir] = KeyOf[e] /\ e <= heir
<1> DEFINE S == {id \in ids : KeyOf[id] = KeyOf[e]}
<1>1. S \subseteq 1..Entries /\ S # {}
  BY DEF Ids
<1>2. PICK heir \in S : \A id \in S : id <= heir
  BY <1>1, Numbers!HasGreatest, IngestorAssumption
<1> QED BY <1>2 DEF LastOfKey

\* ... and only one.
LEMMA OneHeir ==
    ASSUME NEW ids, ids \subseteq Ids, NEW a \in LastOfKey(ids), NEW b \in LastOfKey(ids),
           KeyOf[a] = KeyOf[b]
    PROVE  a = b
<1>1. a \in Nat /\ b \in Nat /\ a <= b /\ b <= a
  BY DEF LastOfKey, Ids
<1> QED BY <1>1

\* Writing documents of entries of the right key.
LEMMA WrittenValue ==
    ASSUME NEW collection, NEW ids, NEW k \in Keys
    PROVE  \/ /\ Written(collection, ids)[k] \in ids
              /\ KeyOf[Written(collection, ids)[k]] = k
           \/ /\ Written(collection, ids)[k] = collection[k]
              /\ \A id \in ids : KeyOf[id] # k
BY DEF Written

-----------------------------------------------------------------------------
(* Type correctness *)

\* A fresh process_entries call is a job.
LEMMA JobForType ==
    ASSUME NEW kind \in {"none", "new", "fresh", "suspect"}, NEW ids, ids \subseteq Ids
    PROVE  JobFor(kind, ids) \in Jobs /\ JobFor(kind, ids).ids = ids
BY DEF JobFor, Jobs

\* No call is a job without entries.
LEMMA NoJobType == NoJob \in Jobs /\ NoJob.ids = {}
BY JobForType DEF NoJob

\* No reclaim is a reclaim record.
LEMMA NoReclaimType == NoReclaim \in Reclaims
BY DEF NoReclaim, Reclaims

\* The commands keep the stream well formed.
LEMMA AckType ==
    ASSUME StreamTypeOK, NEW ids, XACK(ids)
    PROVE  StreamTypeOK' /\ pel' = pel \ ids /\ UNCHANGED <<added, group, lastDelivered>>
<1>1. /\ pel' = pel \ ids /\ acked' = acked \cup (ids \cap pel)
      /\ UNCHANGED <<added, log, group, lastDelivered>>
  BY DEF XACK
<1>2. pel' \subseteq 1..lastDelivered /\ acked' \subseteq 1..lastDelivered
  BY <1>1 DEF StreamTypeOK
<1> QED BY <1>1, <1>2 DEF StreamTypeOK

\* XADD keeps the types of the stream.
LEMMA AddType ==
    ASSUME StreamTypeOK, NEW n, XADD(n)
    PROVE  StreamTypeOK' /\ added' = added + 1 /\ UNCHANGED <<pel, group, lastDelivered, acked>>
<1>1. /\ added' = added + 1 /\ log' \subseteq log \cup {added + 1}
      /\ UNCHANGED <<group, lastDelivered, pel, acked>>
  BY DEF XADD
<1>2. log' \subseteq 1..added' /\ lastDelivered' \in 0..added' /\ added' \in Nat
  BY <1>1 DEF StreamTypeOK
<1> QED BY <1>1, <1>2 DEF StreamTypeOK

\* XGROUP CREATE keeps the types of the stream.
LEMMA CreateType ==
    ASSUME StreamTypeOK, GroupInv, XGROUP_CREATE(0)
    PROVE  StreamTypeOK' /\ group' /\ UNCHANGED <<added, pel, lastDelivered>>
<1>1. ~group /\ group' = TRUE /\ lastDelivered' = 0 /\ UNCHANGED <<added, log, pel, acked>>
  BY DEF XGROUP_CREATE
<1>2. lastDelivered' = lastDelivered
  BY <1>1 DEF GroupInv
<1> QED BY <1>1, <1>2 DEF StreamTypeOK

\* XREADGROUP keeps the types of the stream, and delivers unread entries.
LEMMA ReadType ==
    ASSUME StreamTypeOK, NEW n, NEW last \in Unread, XREADGROUP(n, last)
    PROVE  /\ StreamTypeOK' /\ group' /\ pel \subseteq pel' /\ pel' \subseteq 1..added
           /\ UNCHANGED <<added, group>>
<1>1. /\ group /\ pel' = pel \cup {id \in Unread : id <= last}
      /\ lastDelivered' = last /\ UNCHANGED <<added, log, group, acked>>
  BY DEF XREADGROUP
<1>2. last \in 1..added /\ lastDelivered < last
  BY DEF Unread, StreamTypeOK
<1>3. pel' \subseteq 1..last /\ acked' \subseteq 1..last
  <2>1. pel \subseteq 1..lastDelivered /\ acked \subseteq 1..lastDelivered
        /\ lastDelivered \in Nat /\ log \subseteq Nat \ {0}
    BY DEF StreamTypeOK
  <2>2. pel \subseteq 1..last /\ acked \subseteq 1..last
    BY <1>2, <2>1
  <2>3. {id \in Unread : id <= last} \subseteq 1..last
    <3>1. last \in Nat /\ \A id \in Unread : id \in Nat /\ 1 <= id
      BY <1>2, <2>1 DEF Unread, StreamTypeOK
    <3>2. ASSUME NEW id \in Unread, id <= last PROVE id \in 1..last
      BY <3>1, <3>2
    <3> QED BY <3>2
  <2> QED BY <1>1, <2>2, <2>3
<1>4. pel' \subseteq 1..added
  BY <1>2, <1>3 DEF StreamTypeOK
<1> QED BY <1>1, <1>2, <1>3, <1>4 DEF StreamTypeOK

\* A step of an ingestor changes no other ingestor.
Frame(i) ==
    /\ pc' = [pc EXCEPT ![i] = pc'[i]]
    /\ job' = [job EXCEPT ![i] = job'[i]]
    /\ reclaim' = [reclaim EXCEPT ![i] = reclaim'[i]]

\* A step of one ingestor leaves the job of the others alone.
LEMMA StepFrame ==
    ASSUME Tables, NEW i \in Ingestors, Step(i) \/ Crash(i)
    PROVE  Frame(i)
<1> USE DEF Tables, Frame
<1>1. CASE Boot(i) \/ ReadNew(i) \/ StartReclaim(i) \/ Crash(i)
  BY <1>1 DEF Boot, ReadNew, StartReclaim, Crash, Goto
<1>2. CASE RejectAck(i) \/ RejectPark(i)
  BY <1>2 DEF RejectAck, RejectPark, Goto
<1>3. ASSUME NEW outcome, Return(i, outcome) PROVE Frame(i)
  BY <1>3 DEF Return, Goto
<1>4. CASE DecodeDone(i) \/ FindRegistry(i)
  BY <1>3, <1>4 DEF DecodeDone, FindRegistry, Goto
<1>5. CASE WriteNotices(i)
  BY <1>3, <1>5 DEF WriteNotices, Goto
<1>6. CASE WriteRegistry(i)
  BY <1>3, <1>6 DEF WriteRegistry, Goto
<1>7. CASE MergeGraph(i)
  BY <1>3, <1>7 DEF MergeGraph, Goto
<1>8. CASE AckWritten(i)
  BY <1>3, <1>8 DEF AckWritten
<1>9. CASE Suspects(i)
  BY <1>9 DEF Suspects, ProcessSuspect, JudgeSuspects, ParkCopy, ParkAck, Goto
<1> QED BY <1>1, <1>2, <1>4, <1>5, <1>6, <1>7, <1>8, <1>9 DEF Step, ProcessEntries

-----------------------------------------------------------------------------
(* One action at a time: what is shared, and the ingestor's own *)

\* Goto moves one ingestor to a label.
LEMMA GotoLabel ==
    ASSUME Tables, NEW i \in Ingestors, NEW label, Goto(i, label)
    PROVE  pc'[i] = label
BY DEF Goto, Tables

\* Returning from process_entries forgets the job and nothing else that matters here.
LEMMA ReturnLocal ==
    ASSUME Tables, NEW i \in Ingestors, Local(i), NEW outcome, Return(i, outcome), added' = added
    PROVE  Local(i)'
<1>1. job'[i] = NoJob /\ pc'[i] \in {"idle", "suspects"}
  BY GotoLabel DEF Return, Tables
<1>2. /\ reclaim'[i] \in Reclaims /\ reclaim'[i].todo = reclaim[i].todo
      /\ reclaim'[i].failing \subseteq 1..added
  <2>1. CASE reclaim' = reclaim
    BY <2>1 DEF Local
  <2>2. CASE reclaim' = [reclaim EXCEPT ![i] = [reclaim[i] EXCEPT
                             !.failing = reclaim[i].failing \cup job[i].ids,
                             !.errored = IF outcome = "error"
                                           THEN reclaim[i].errored \cup job[i].ids
                                           ELSE reclaim[i].errored]]
    <3>1. reclaim'[i] = [reclaim[i] EXCEPT
                             !.failing = reclaim[i].failing \cup job[i].ids,
                             !.errored = IF outcome = "error"
                                           THEN reclaim[i].errored \cup job[i].ids
                                           ELSE reclaim[i].errored]
      BY <2>2 DEF Tables
    <3> QED BY <3>1 DEF Local, Reclaims, Jobs
  <2> QED BY <2>1, <2>2 DEF Return
<1>3. NoJob \in Jobs /\ NoJob.ids = {}
  BY NoJobType
<1> QED BY <1>1, <1>2, <1>3 DEF Local, Labels

\* Starting an ingestor keeps the types.
LEMMA BootTypes ==
    ASSUME Tables, Shared, NEW i \in Ingestors, Local(i), Boot(i)
    PROVE  Shared' /\ Local(i)'
<1>1. StreamTypeOK' /\ GroupInv' /\ UNCHANGED <<added, pel>>
  <2>1. CASE XGROUP_CREATE(0)
    BY <2>1, CreateType DEF Shared, GroupInv
  <2>2. CASE UNCHANGED streamVars
    BY <2>2 DEF Shared, GroupInv, streamVars, StreamTypeOK
  <2> QED BY <2>1, <2>2 DEF Boot
<1>2. pc'[i] = "idle" /\ UNCHANGED <<job, reclaim>>
  BY GotoLabel DEF Boot
<1>3. UNCHANGED <<deliveries, stale, storeVars, dead, parked, faults, crashes>>
  BY DEF Boot
<1> QED BY <1>1, <1>2, <1>3 DEF Shared, Local, Labels, storeVars

\* The counter of faults keeps its bound.
LEMMA FaultType ==
    ASSUME faults \in 0..MaxFaults, Fault \/ NoFault
    PROVE  faults' \in 0..MaxFaults
BY IngestorAssumption DEF Fault, NoFault

\* XACK keeps the types of the stream and of what is reclaimable.
LEMMA AckKeeps ==
    ASSUME Shared, (\E ids : Ack(ids)) \/ UNCHANGED <<streamVars, stale>>
    PROVE  StreamTypeOK' /\ GroupInv' /\ added' = added /\ stale' \subseteq pel'
<1>1. ASSUME NEW ids, Ack(ids)
      PROVE  StreamTypeOK' /\ GroupInv' /\ added' = added /\ stale' \subseteq pel'
  <2>1. /\ StreamTypeOK' /\ pel' = pel \ ids /\ stale' = stale \ ids
        /\ UNCHANGED <<added, group, lastDelivered>>
    BY <1>1, AckType DEF Ack, Shared
  <2> QED BY <2>1 DEF Shared, GroupInv
<1>2. CASE UNCHANGED <<streamVars, stale>>
  BY <1>2 DEF Shared, GroupInv, streamVars, StreamTypeOK
<1> QED BY <1>1, <1>2

\* read_group keeps the types.
LEMMA ReadNewTypes ==
    ASSUME Tables, Shared, NEW i \in Ingestors, Local(i), ReadNew(i)
    PROVE  Shared' /\ Local(i)'
<1>1. /\ StreamTypeOK' /\ group' /\ pel \subseteq pel' /\ pel' \subseteq 1..added
      /\ UNCHANGED <<added, group>>
  <2>1. PICK last \in Unread : XREADGROUP(ReadCount, last)
    BY DEF ReadNew
  <2> QED BY <2>1, ReadType DEF Shared
<1>2. /\ deliveries' = [id \in Ids |-> IF id \in pel' \ pel THEN 1 ELSE deliveries[id]]
      /\ Fault \/ NoFault
      /\ UNCHANGED <<stale, storeVars, dead, parked, reclaim, crashes>>
  BY DEF ReadNew
<1>3. deliveries' \in [Ids -> 0..DeliveryLimit]
  BY <1>2, IngestorAssumption DEF Shared
<1>4. Shared'
  BY <1>1, <1>2, <1>3, FaultType DEF Shared, GroupInv, storeVars
<1>5. CASE UNCHANGED <<pc, job>>
  BY <1>1, <1>2, <1>4, <1>5 DEF Local
<1>6. CASE /\ Goto(i, "decode")
           /\ job' = [job EXCEPT ![i] = JobFor("new", pel' \ pel)]
  <2>1. pc'[i] = "decode" /\ job'[i] = JobFor("new", pel' \ pel)
    BY <1>6, GotoLabel DEF Tables
  <2>2. pel' \ pel \subseteq Ids
    BY <1>1, IngestorAssumption DEF Shared, StreamTypeOK, Ids
  <2>3. job'[i] \in Jobs /\ job'[i].ids = pel' \ pel
    BY <2>1, <2>2, JobForType DEF JobFor
  <2> QED BY <1>1, <1>2, <1>4, <2>1, <2>3 DEF Local, Labels
<1>7. \/ Goto(i, "decode") /\ job' = [job EXCEPT ![i] = JobFor("new", pel' \ pel)]
      \/ UNCHANGED <<pc, job>>
  BY DEF ReadNew
<1> QED BY <1>5, <1>6, <1>7, <1>4

\* reclaim_pending's claim keeps the types.
LEMMA StartReclaimTypes ==
    ASSUME Tables, Shared, NEW i \in Ingestors, Local(i), StartReclaim(i)
    PROVE  Shared' /\ Local(i)'
<1>1. /\ deliveries' = [id \in Ids |-> IF id \in Claimable /\ deliveries[id] < DeliveryLimit
                                         THEN deliveries[id] + 1 ELSE deliveries[id]]
      /\ stale' = stale \ Claimable
      /\ Fault \/ NoFault
      /\ UNCHANGED <<streamVars, storeVars, dead, parked, crashes>>
  BY DEF StartReclaim
<1>0. Claimable \subseteq stale
  BY DEF Claimable
<1>2. deliveries' \in [Ids -> 0..DeliveryLimit]
  <2>1. ASSUME NEW d \in 0..DeliveryLimit
        PROVE  d < DeliveryLimit => d + 1 \in 0..DeliveryLimit
    BY <2>1, IngestorAssumption
  <2> QED BY <1>1, <2>1 DEF Shared
<1>3. StreamTypeOK' /\ GroupInv' /\ added' = added
  BY <1>1 DEF Shared, streamVars, StreamTypeOK, GroupInv
<1>4. Shared'
  <2>1. stale' \subseteq pel'
    BY <1>1 DEF Shared, streamVars
  <2> QED BY <1>1, <1>2, <1>3, <2>1, FaultType DEF Shared, storeVars
<1>5. PICK claimed \in SUBSET Claimable :
          LET suspects == {id \in claimed : deliveries'[id] >= DeliveryLimit}
              fresh == claimed \ suspects
          IN /\ reclaim' = [reclaim EXCEPT ![i] =
                    [NoReclaim EXCEPT !.todo = suspects, !.count = Cardinality(suspects)]]
             /\ job' = [job EXCEPT ![i] = IF fresh = {} THEN NoJob ELSE JobFor("fresh", fresh)]
             /\ Goto(i, IF claimed = {} THEN "idle" ELSE IF fresh = {} THEN "suspects" ELSE "decode")
  BY DEF StartReclaim
<1> DEFINE suspects == {id \in claimed : deliveries'[id] >= DeliveryLimit}
           fresh == claimed \ suspects
<1>6. claimed \subseteq 1..added /\ claimed \subseteq Ids
  BY <1>0, IngestorAssumption DEF Shared, StreamTypeOK, Ids
<1>7. Cardinality(suspects) \in Nat
  <2>1. IsFiniteSet(1..Entries)
    BY FS_Interval, IngestorAssumption
  <2>2. IsFiniteSet(suspects)
    BY <1>6, <2>1, FS_Subset DEF Ids
  <2> QED BY <2>2, FS_CardinalityType
<1>8. /\ reclaim'[i] \in Reclaims
      /\ reclaim'[i].todo \subseteq 1..added /\ reclaim'[i].failing \subseteq 1..added
  <2>1. reclaim'[i] = [NoReclaim EXCEPT !.todo = suspects, !.count = Cardinality(suspects)]
    BY <1>5 DEF Tables
  <2> HIDE DEF suspects
  <2>2. suspects \subseteq Ids /\ suspects \subseteq 1..added
    BY <1>6 DEF suspects
  <2> QED BY <1>7, <2>1, <2>2 DEF NoReclaim, Reclaims
<1>9. job'[i] \in Jobs /\ job'[i].ids \subseteq 1..added
  <2>1. job'[i] = IF fresh = {} THEN NoJob ELSE JobFor("fresh", fresh)
    BY <1>5 DEF Tables
  <2> HIDE DEF fresh
  <2>2. fresh \subseteq Ids /\ fresh \subseteq 1..added
    BY <1>6 DEF fresh
  <2>3. /\ NoJob \in Jobs /\ NoJob.ids = {}
        /\ JobFor("fresh", fresh) \in Jobs /\ JobFor("fresh", fresh).ids = fresh
    BY <2>2, NoJobType, JobForType
  <2> QED BY <2>1, <2>2, <2>3
<1>10. pc'[i] \in {"idle", "suspects", "decode"}
  BY <1>5, GotoLabel
<1> QED BY <1>3, <1>4, <1>8, <1>9, <1>10 DEF Local, Labels

\* _reject_poison keeps the types.
LEMMA RejectTypes ==
    ASSUME Tables, Shared, NEW i \in Ingestors, Local(i), RejectAck(i) \/ RejectPark(i)
    PROVE  Shared' /\ Local(i)'
<1>1. CASE RejectAck(i)
  <2> DEFINE id == Smallest(job[i].ids \cap Undecodable)
  <2>1. id \in Ids /\ id \in job[i].ids
    <3>1. job[i].ids \cap Undecodable \subseteq Nat /\ job[i].ids \cap Undecodable # {}
      BY <1>1, IngestorAssumption DEF RejectAck, Local, Jobs, Ids
    <3>2. Smallest(job[i].ids \cap Undecodable) \in job[i].ids \cap Undecodable
      BY <3>1, SmallestMember
    <3> QED BY <3>2 DEF Local, Jobs
  <2>2. job' = [job EXCEPT ![i].poison = id] /\ pc'[i] = "rejected"
    BY <1>1, GotoLabel DEF RejectAck
  <2>3. Ack({id}) \/ UNCHANGED <<streamVars, stale>>
    BY <1>1 DEF RejectAck
  <2>4. /\ Fault \/ NoFault
        /\ UNCHANGED <<deliveries, storeVars, dead, parked, reclaim, crashes>>
    BY <1>1 DEF RejectAck
  <2> HIDE DEF id
  <2>5. StreamTypeOK' /\ GroupInv' /\ added' = added /\ stale' \subseteq pel'
    BY <2>3, AckKeeps
  <2>6. job'[i] \in Jobs /\ job'[i].ids = job[i].ids /\ job'[i].poison \in Ids
    BY <2>1, <2>2 DEF Local, Tables, Jobs
  <2>7. Shared'
    BY <2>4, <2>5, FaultType DEF Shared, storeVars
  <2> QED BY <2>2, <2>4, <2>5, <2>6, <2>7 DEF Local, Labels
<1>2. CASE RejectPark(i)
  <2>1. /\ job' = [job EXCEPT ![i] = [job[i] EXCEPT !.ids = job[i].ids \ {job[i].poison},
                                                    !.poison = 0]]
        /\ pc'[i] = "decode" /\ pc[i] = "rejected"
    BY <1>2, GotoLabel DEF RejectPark
  <2>2. /\ dead' = dead \/ dead' = dead \cup {job[i].poison}
        /\ Fault \/ NoFault
        /\ UNCHANGED <<streamVars, deliveries, stale, storeVars, parked, reclaim, crashes>>
    BY <1>2 DEF RejectPark
  <2>3. dead' \subseteq Ids
    BY <2>1, <2>2 DEF Shared, Local
  <2>4. StreamTypeOK' /\ GroupInv' /\ added' = added /\ stale' \subseteq pel'
    BY <2>2 DEF Shared, GroupInv, streamVars, StreamTypeOK
  <2>5. Shared'
    BY <2>2, <2>3, <2>4, FaultType DEF Shared, storeVars
  <2>6. job'[i] \in Jobs /\ job'[i].ids \subseteq job[i].ids
    BY <2>1 DEF Local, Tables, Jobs
  <2> QED BY <2>1, <2>2, <2>4, <2>5, <2>6 DEF Local, Labels
<1> QED BY <1>1, <1>2

\* Between decoding and acknowledging, a step changes what is shared and where
\* the ingestor is, or returns.
LEMMA MoveLocal ==
    ASSUME Tables, NEW i \in Ingestors, Local(i), added' = added, reclaim' = reclaim,
           job'[i] \in Jobs, job'[i].ids = job[i].ids,
           pc'[i] \in {"find", "write", "register", "merge", "ack"}
    PROVE  Local(i)'
BY DEF Local, Labels

\* The end of the decoding keeps the types.
LEMMA DecodeTypes ==
    ASSUME Tables, Shared, NEW i \in Ingestors, Local(i), DecodeDone(i) \/ FindRegistry(i)
    PROVE  Shared' /\ Local(i)'
<1>1. /\ UNCHANGED <<streamVars, deliveries, stale, storeVars, dead, parked, crashes>>
      /\ Fault \/ NoFault
  BY DEF DecodeDone, FindRegistry, NoFault
<1>2. StreamTypeOK' /\ GroupInv' /\ added' = added /\ stale' \subseteq pel'
  BY <1>1 DEF Shared, GroupInv, streamVars, StreamTypeOK
<1>3. Shared'
  BY <1>1, <1>2, FaultType DEF Shared, storeVars
<1>4. ASSUME NEW outcome, Return(i, outcome) PROVE Local(i)'
  BY <1>2, <1>4, ReturnLocal
<1>5. CASE Goto(i, "find") /\ UNCHANGED <<job, reclaim>>
  <2>1. pc'[i] = "find"
    BY <1>5, GotoLabel
  <2> QED BY <1>2, <1>3, <1>5, <2>1 DEF Local, Labels
<1>6. CASE job' = [job EXCEPT ![i].found = registry] /\ Goto(i, "write") /\ UNCHANGED reclaim
  <2>1. pc'[i] = "write"
    BY <1>6, GotoLabel
  <2>2. job'[i] \in Jobs /\ job'[i].ids = job[i].ids
    BY <1>6 DEF Local, Tables, Jobs, Shared
  <2> QED BY <1>2, <1>3, <1>6, <2>1, <2>2, MoveLocal
<1>7. CASE DecodeDone(i)
  BY <1>3, <1>4, <1>5, <1>7 DEF DecodeDone
<1>8. CASE FindRegistry(i)
  BY <1>3, <1>4, <1>6, <1>8 DEF FindRegistry
<1> QED BY <1>7, <1>8

\* Writing documents to a collection leaves a collection.
LEMMA WrittenType ==
    ASSUME NEW collection \in [Keys -> {0} \cup Ids], NEW ids, ids \subseteq Ids
    PROVE  Written(collection, ids) \in [Keys -> {0} \cup Ids]
BY DEF Written

\* find and the bulk_write of the notices keep the types.
LEMMA WriteTypes ==
    ASSUME Tables, Shared, NEW i \in Ingestors, Local(i), WriteNotices(i)
    PROVE  Shared' /\ Local(i)'
<1>1. UNCHANGED <<streamVars, deliveries, stale, registry, merged, dead, parked, crashes>>
  BY DEF WriteNotices
<1>2. PICK ok \in SUBSET ToWrite(i) :
          LET rejected == ToWrite(i) \ ok IN
          /\ notices' = Written(notices, ok)
          /\ stored' = stored \cup ok
          /\ \/ /\ Fault \/ NoFault
                /\ job' = [job EXCEPT ![i].failed = KeysOf(rejected)]
                /\ Goto(i, "register")
                /\ UNCHANGED reclaim
             \/ /\ Fault \/ NoFault
                /\ Return(i, "error")
  BY DEF WriteNotices
<1>3. ToWrite(i) \subseteq job[i].ids /\ job[i].ids \subseteq 1..added /\ job[i].ids \subseteq Ids
  BY DEF ToWrite, LastOfKey, Local, Jobs
<1>4. notices' \in [Keys -> {0} \cup Ids] /\ stored' \subseteq 1..added
  BY <1>2, <1>3, WrittenType DEF Shared
<1>5. StreamTypeOK' /\ GroupInv' /\ added' = added /\ stale' \subseteq pel'
  BY <1>1 DEF Shared, GroupInv, streamVars, StreamTypeOK
<1>6. faults' \in 0..MaxFaults
  BY <1>2, FaultType DEF Shared
<1>7. Shared'
  BY <1>1, <1>4, <1>5, <1>6 DEF Shared
<1>8. CASE Return(i, "error")
  BY <1>5, <1>7, <1>8, ReturnLocal
<1>9. CASE /\ job' = [job EXCEPT ![i].failed = KeysOf(ToWrite(i) \ ok)]
           /\ Goto(i, "register") /\ UNCHANGED reclaim
  <2>1. pc'[i] = "register"
    BY <1>9, GotoLabel
  <2>2. KeysOf(ToWrite(i) \ ok) \subseteq Keys
    BY <1>3, IngestorAssumption DEF KeysOf
  <2>3. job'[i] \in Jobs /\ job'[i].ids = job[i].ids
    BY <1>9, <2>2 DEF Local, Tables, Jobs
  <2> QED BY <1>5, <1>7, <1>9, <2>1, <2>3, MoveLocal
<1> QED BY <1>2, <1>8, <1>9

\* The bulk_write of the registry keeps the types.
LEMMA RegistryTypes ==
    ASSUME Tables, Shared, NEW i \in Ingestors, Local(i), WriteRegistry(i)
    PROVE  Shared' /\ Local(i)'
<1>1. UNCHANGED <<streamVars, deliveries, stale, notices, stored, merged, dead, parked, crashes>>
  BY DEF WriteRegistry
<1>2. /\ \E ids \in SUBSET ToWrite(i) : registry' = Written(registry, ids)
      /\ Fault \/ NoFault
      /\ \/ Goto(i, "merge") /\ UNCHANGED <<job, reclaim>>
         \/ Return(i, "error")
  BY DEF WriteRegistry, Registrable
<1>3. ToWrite(i) \subseteq Ids
  BY DEF ToWrite, LastOfKey, Local, Jobs
<1>4. registry' \in [Keys -> {0} \cup Ids]
  BY <1>2, <1>3, WrittenType DEF Shared
<1>5. StreamTypeOK' /\ GroupInv' /\ added' = added /\ stale' \subseteq pel'
  BY <1>1 DEF Shared, GroupInv, streamVars, StreamTypeOK
<1>6. Shared'
  BY <1>1, <1>2, <1>4, <1>5, FaultType DEF Shared
<1>7. CASE Return(i, "error")
  BY <1>5, <1>6, <1>7, ReturnLocal
<1>8. CASE Goto(i, "merge") /\ UNCHANGED <<job, reclaim>>
  <2>1. pc'[i] = "merge"
    BY <1>8, GotoLabel
  <2> QED BY <1>5, <1>6, <1>8, <2>1, MoveLocal DEF Local
<1> QED BY <1>2, <1>7, <1>8

\* merge_notice_batch keeps the types.
LEMMA MergeTypes ==
    ASSUME Tables, Shared, NEW i \in Ingestors, Local(i), MergeGraph(i)
    PROVE  Shared' /\ Local(i)'
<1>1. UNCHANGED <<streamVars, deliveries, stale, notices, registry, stored, dead, parked, crashes>>
  BY DEF MergeGraph
<1>2. PICK ok \in SUBSET Accepted(i) :
          LET rejected == Accepted(i) \ ok IN
          /\ merged' = merged \cup ok
          /\ \/ /\ Fault \/ NoFault
                /\ job' = [job EXCEPT ![i].failed = job[i].failed \cup KeysOf(rejected)]
                /\ Goto(i, "ack")
                /\ UNCHANGED reclaim
             \/ /\ Fault \/ NoFault
                /\ Return(i, "error")
  BY DEF MergeGraph
<1>3. Accepted(i) \subseteq 1..added /\ Accepted(i) \subseteq Ids
  BY DEF Accepted, Local, Jobs
<1>4. merged' \subseteq 1..added
  BY <1>2, <1>3 DEF Shared
<1>5. StreamTypeOK' /\ GroupInv' /\ added' = added /\ stale' \subseteq pel'
  BY <1>1 DEF Shared, GroupInv, streamVars, StreamTypeOK
<1>6. faults' \in 0..MaxFaults
  BY <1>2, FaultType DEF Shared
<1>7. Shared'
  BY <1>1, <1>4, <1>5, <1>6 DEF Shared
<1>8. CASE Return(i, "error")
  BY <1>5, <1>7, <1>8, ReturnLocal
<1>9. CASE /\ job' = [job EXCEPT ![i].failed = job[i].failed \cup KeysOf(Accepted(i) \ ok)]
           /\ Goto(i, "ack") /\ UNCHANGED reclaim
  <2>1. pc'[i] = "ack"
    BY <1>9, GotoLabel
  <2>2. KeysOf(Accepted(i) \ ok) \subseteq Keys
    BY <1>3, IngestorAssumption DEF KeysOf
  <2>3. job'[i] \in Jobs /\ job'[i].ids = job[i].ids
    BY <1>9, <2>2 DEF Local, Tables, Jobs
  <2> QED BY <1>5, <1>7, <1>9, <2>1, <2>3, MoveLocal
<1> QED BY <1>2, <1>8, <1>9

\* The acknowledgement of a batch keeps the types.
LEMMA AckTypes ==
    ASSUME Tables, Shared, NEW i \in Ingestors, Local(i), AckWritten(i)
    PROVE  Shared' /\ Local(i)'
<1>1. /\ UNCHANGED <<deliveries, storeVars, dead, parked, crashes>>
      /\ Fault \/ NoFault
      /\ Ack(Accepted(i)) \/ UNCHANGED <<streamVars, stale>>
      /\ \E outcome \in {"ok", "failed", "error"} : Return(i, outcome)
  BY DEF AckWritten
<1>2. StreamTypeOK' /\ GroupInv' /\ added' = added /\ stale' \subseteq pel'
  BY <1>1, AckKeeps
<1>3. Shared'
  BY <1>1, <1>2, FaultType DEF Shared, storeVars
<1> QED BY <1>1, <1>2, <1>3, ReturnLocal

\* Retrying and judging the suspects keeps the types.
LEMMA SuspectTypes ==
    ASSUME Tables, Shared, NEW i \in Ingestors, Local(i), ProcessSuspect(i) \/ JudgeSuspects(i)
    PROVE  Shared' /\ Local(i)'
<1>1. UNCHANGED <<streamVars, deliveries, stale, storeVars, dead, parked, faults, crashes>>
  BY DEF ProcessSuspect, JudgeSuspects
<1>2. StreamTypeOK' /\ GroupInv' /\ added' = added /\ stale' \subseteq pel'
  BY <1>1 DEF Shared, GroupInv, streamVars, StreamTypeOK
<1>3. Shared'
  BY <1>1, <1>2 DEF Shared, storeVars
<1>4. CASE ProcessSuspect(i)
  <2> DEFINE id == Smallest(reclaim[i].todo)
  <2>1. reclaim[i].todo \subseteq Ids /\ reclaim[i].todo \subseteq 1..added
    BY DEF Local, Reclaims
  <2>2. id \in reclaim[i].todo
    <3>1. reclaim[i].todo \subseteq Nat /\ reclaim[i].todo # {}
      BY <1>4, <2>1 DEF ProcessSuspect, Ids
    <3> QED BY <3>1, SmallestMember
  <2>3. /\ job' = [job EXCEPT ![i] = JobFor("suspect", {id})]
        /\ reclaim' = [reclaim EXCEPT ![i].todo = reclaim[i].todo \ {id}]
        /\ pc'[i] = "decode"
    BY <1>4, GotoLabel DEF ProcessSuspect, NextSuspects
  <2> HIDE DEF id
  <2>4. {id} \subseteq Ids /\ {id} \subseteq 1..added
    BY <2>1, <2>2
  <2>5. job'[i] \in Jobs /\ job'[i].ids = {id}
    BY <2>3, <2>4, JobForType DEF Tables
  <2>6. /\ reclaim'[i] \in Reclaims
        /\ reclaim'[i].todo \subseteq 1..added /\ reclaim'[i].failing \subseteq 1..added
    BY <2>1, <2>3 DEF Tables, Local, Reclaims
  <2> QED BY <1>2, <1>3, <2>3, <2>4, <2>5, <2>6 DEF Local, Labels
<1>5. CASE JudgeSuspects(i)
  <2> DEFINE guilty == IF Outage(i) THEN {} ELSE reclaim[i].failing \ reclaim[i].errored
  <2>1. /\ job' = job
        /\ \/ Goto(i, "idle") /\ reclaim' = [reclaim EXCEPT ![i] = NoReclaim]
           \/ /\ guilty # {} /\ Goto(i, "park")
              /\ reclaim' = [reclaim EXCEPT ![i] = [NoReclaim EXCEPT !.todo = guilty]]
    BY <1>5 DEF JudgeSuspects
  <2>2. guilty \subseteq Ids /\ guilty \subseteq 1..added
    BY DEF Local, Reclaims
  <2> HIDE DEF guilty
  <2>3. CASE Goto(i, "idle") /\ reclaim' = [reclaim EXCEPT ![i] = NoReclaim]
    <3>1. pc'[i] = "idle" /\ reclaim'[i] = NoReclaim
      BY <2>3, GotoLabel DEF Tables
    <3>2. NoReclaim \in Reclaims /\ NoReclaim.todo = {} /\ NoReclaim.failing = {}
      BY NoReclaimType DEF NoReclaim
    <3> QED BY <1>2, <1>3, <2>1, <3>1, <3>2 DEF Local, Labels
  <2>4. CASE /\ guilty # {} /\ Goto(i, "park")
             /\ reclaim' = [reclaim EXCEPT ![i] = [NoReclaim EXCEPT !.todo = guilty]]
    <3>1. pc'[i] = "park" /\ reclaim'[i] = [NoReclaim EXCEPT !.todo = guilty]
      BY <2>4, GotoLabel DEF Tables
    <3>2. reclaim'[i] \in Reclaims /\ reclaim'[i].todo = guilty /\ reclaim'[i].failing = {}
      BY <2>2, <3>1 DEF NoReclaim, Reclaims
    <3> QED BY <1>2, <1>3, <2>1, <2>2, <2>4, <3>1, <3>2 DEF Local, Labels
  <2> QED BY <2>1, <2>3, <2>4
<1> QED BY <1>4, <1>5

\* _park_failed_entry keeps the types.
LEMMA ParkTypes ==
    ASSUME Tables, Shared, NEW i \in Ingestors, Local(i), ParkCopy(i) \/ ParkAck(i)
    PROVE  Shared' /\ Local(i)'
<1> DEFINE id == Smallest(reclaim[i].todo)
<1>1. reclaim[i].todo \subseteq Ids /\ reclaim[i].todo # {}
  BY DEF Local, Reclaims, ParkCopy, ParkAck
<1>2. id \in reclaim[i].todo /\ id \in Ids
  BY <1>1, SmallestMember DEF Ids
<1>3. CASE ParkCopy(i)
  <2>1. /\ dead' = dead \/ dead' = dead \cup {id}
        /\ Fault \/ NoFault
        /\ pc'[i] = "parkAck" /\ pc[i] = "park"
        /\ UNCHANGED <<streamVars, deliveries, stale, storeVars, parked, job, reclaim, crashes>>
    BY <1>3, GotoLabel DEF ParkCopy
  <2>2. StreamTypeOK' /\ GroupInv' /\ added' = added /\ stale' \subseteq pel'
    BY <2>1, AckKeeps
  <2>3. Shared'
    BY <1>2, <2>1, <2>2, FaultType DEF Shared, storeVars
  <2> QED BY <2>1, <2>2, <2>3 DEF Local, Labels
<1>4. CASE ParkAck(i)
  <2>1. /\ Ack({id}) \/ UNCHANGED <<streamVars, stale>>
        /\ parked' = parked \/ parked' = parked \cup {id}
        /\ Fault \/ NoFault
        /\ UNCHANGED <<deliveries, storeVars, dead, job, crashes>>
    BY <1>4 DEF ParkAck
  <2>2. \/ /\ reclaim' = [reclaim EXCEPT ![i].todo = reclaim[i].todo \ {id}]
           /\ pc'[i] = IF reclaim[i].todo \ {id} = {} THEN "idle" ELSE "park"
        \/ /\ reclaim' = [reclaim EXCEPT ![i] = NoReclaim]
           /\ pc'[i] = "idle"
    BY <1>4, GotoLabel DEF ParkAck
  <2> HIDE DEF id
  <2>3. StreamTypeOK' /\ GroupInv' /\ added' = added /\ stale' \subseteq pel'
    BY <2>1, AckKeeps
  <2>4. Shared'
    BY <1>2, <2>1, <2>3, FaultType DEF Shared, storeVars
  <2>5. CASE /\ reclaim' = [reclaim EXCEPT ![i].todo = reclaim[i].todo \ {id}]
             /\ pc'[i] = IF reclaim[i].todo \ {id} = {} THEN "idle" ELSE "park"
    <3>1. /\ reclaim'[i] \in Reclaims /\ reclaim'[i].todo = reclaim[i].todo \ {id}
          /\ reclaim'[i].failing = reclaim[i].failing
      BY <2>5 DEF Tables, Local, Reclaims
    <3> QED BY <2>1, <2>3, <2>4, <2>5, <3>1 DEF Local, Labels
  <2>6. CASE reclaim' = [reclaim EXCEPT ![i] = NoReclaim] /\ pc'[i] = "idle"
    <3>1. reclaim'[i] = NoReclaim
      BY <2>6 DEF Tables
    <3>2. NoReclaim \in Reclaims /\ NoReclaim.todo = {} /\ NoReclaim.failing = {}
      BY NoReclaimType DEF NoReclaim
    <3> QED BY <2>1, <2>3, <2>4, <2>6, <3>1, <3>2 DEF Local, Labels
  <2> QED BY <2>2, <2>5, <2>6
<1> QED BY <1>3, <1>4

\* A death of an ingestor keeps the types.
LEMMA CrashTypes ==
    ASSUME Tables, Shared, NEW i \in Ingestors, Local(i), Crash(i)
    PROVE  Shared' /\ Local(i)'
<1>1. /\ crashes < MaxCrashes /\ crashes' = crashes + 1
      /\ pc'[i] = "boot" /\ job'[i] = NoJob /\ reclaim'[i] = NoReclaim
      /\ UNCHANGED <<streamVars, deliveries, stale, storeVars, dead, parked, faults>>
  BY GotoLabel DEF Crash, Tables
<1>2. StreamTypeOK' /\ GroupInv' /\ added' = added /\ stale' \subseteq pel'
  BY <1>1, AckKeeps
<1>3. crashes' \in 0..MaxCrashes
  BY <1>1, IngestorAssumption DEF Shared
<1>4. Shared'
  BY <1>1, <1>2, <1>3 DEF Shared, storeVars
<1>5. /\ NoJob \in Jobs /\ NoJob.ids = {}
      /\ NoReclaim \in Reclaims /\ NoReclaim.todo = {} /\ NoReclaim.failing = {}
  BY NoJobType, NoReclaimType DEF NoReclaim
<1> QED BY <1>1, <1>2, <1>4, <1>5 DEF Local, Labels

\* Every step of an ingestor keeps the types.
LEMMA StepTypes ==
    ASSUME Tables, Shared, NEW i \in Ingestors, Local(i), Step(i) \/ Crash(i)
    PROVE  Shared' /\ Local(i)'
BY BootTypes, ReadNewTypes, StartReclaimTypes, RejectTypes, DecodeTypes, WriteTypes,
   RegistryTypes, MergeTypes, AckTypes, SuspectTypes, ParkTypes, CrashTypes
   DEF Step, ProcessEntries, Suspects

\* What is stored for the others when one ingestor steps: entries added stay added.
LEMMA OthersLocal ==
    ASSUME Tables, NEW i \in Ingestors, Frame(i), NEW j \in Ingestors, j # i
    PROVE  pc'[j] = pc[j] /\ job'[j] = job[j] /\ reclaim'[j] = reclaim[j]
BY DEF Tables, Frame

\* The stream only grows.
LEMMA AddedGrows ==
    ASSUME Shared, [Next]_vars
    PROVE  added' \in Nat /\ added <= added'
<1>1. added \in Nat
  BY DEF Shared, StreamTypeOK
<1>2. ASSUME NEW i \in Ingestors, Step(i) \/ Crash(i) PROVE added' = added
  BY <1>2 DEF Step, Crash, Boot, XGROUP_CREATE, ReadNew, XREADGROUP, StartReclaim, ProcessEntries,
     RejectAck, Ack, XACK, RejectPark, DecodeDone, FindRegistry, WriteNotices, WriteRegistry,
     MergeGraph, AckWritten, Suspects, ProcessSuspect, JudgeSuspects, ParkCopy, ParkAck, streamVars
<1>3. Publish => added' = added + 1
  BY DEF Publish, XADD
<1>4. Age \/ UNCHANGED vars => added' = added
  BY DEF Age, vars, streamVars
<1>5. added' = added \/ added' = added + 1
  BY <1>2, <1>3, <1>4 DEF Next
<1> QED BY <1>1, <1>5

\* Every step keeps the types.
LEMMA NextTypes == Types /\ [Next]_vars => Types'
<1> SUFFICES ASSUME Types, [Next]_vars PROVE Types'
  OBVIOUS
<1> USE DEF Types
<1>1. ASSUME NEW i \in Ingestors, Step(i) \/ Crash(i) PROVE Types'
  <2>1. Frame(i)
    BY <1>1, StepFrame
  <2>2. Tables'
    BY <2>1 DEF Tables, Frame
  <2>3. Shared' /\ Local(i)'
    BY <1>1, StepTypes
  <2>4. ASSUME NEW j \in Ingestors, j # i PROVE Local(j)'
    <3>1. pc'[j] = pc[j] /\ job'[j] = job[j] /\ reclaim'[j] = reclaim[j]
      BY <2>1, <2>4, OthersLocal
    <3>2. 1..added \subseteq 1..added'
      BY AddedGrows DEF Shared, StreamTypeOK
    <3> QED BY <3>1, <3>2 DEF Local
  <2> QED BY <2>2, <2>3, <2>4
<1>2. CASE Publish
  <2>1. added < Entries /\ XADD(Entries)
        /\ UNCHANGED <<deliveries, stale, storeVars, dead, parked, pc, job, reclaim, faults, crashes>>
    BY <1>2 DEF Publish
  <2>2. /\ StreamTypeOK' /\ added' = added + 1 /\ UNCHANGED <<pel, group, lastDelivered>>
        /\ added \in Nat
    BY <2>1, AddType DEF Shared, StreamTypeOK
  <2>3. 1..added \subseteq 1..added' /\ added' <= Entries
    BY <2>1, <2>2, IngestorAssumption
  <2>4. GroupInv'
    BY <2>2 DEF Shared, GroupInv
  <2>5. Shared'
    BY <2>1, <2>2, <2>3, <2>4 DEF Shared, storeVars
  <2>6. \A i \in Ingestors : Local(i)'
    BY <2>1, <2>3 DEF Local
  <2> QED BY <2>1, <2>5, <2>6 DEF Tables
<1>3. CASE Age
  <2>1. stale' = pel /\ UNCHANGED <<streamVars, deliveries, storeVars, dead, parked, pc, job,
                                    reclaim, faults, crashes>>
    BY <1>3 DEF Age
  <2>2. StreamTypeOK' /\ GroupInv' /\ added' = added /\ stale' \subseteq pel'
    BY <2>1 DEF Shared, GroupInv, streamVars, StreamTypeOK
  <2>3. Shared'
    BY <2>1, <2>2 DEF Shared, storeVars
  <2> QED BY <2>1, <2>2, <2>3 DEF Local, Tables
<1>4. CASE UNCHANGED vars
  <2>1. StreamTypeOK' /\ GroupInv' /\ added' = added
    BY <1>4 DEF Shared, GroupInv, vars, StreamTypeOK
  <2>2. Shared'
    BY <1>4, <2>1 DEF Shared, vars
  <2> QED BY <1>4, <2>2 DEF Local, Tables, vars
<1> QED BY <1>1, <1>2, <1>3, <1>4 DEF Next

-----------------------------------------------------------------------------
(* What the stores hold only grows *)

Grow ==
    /\ added \in Nat /\ added' \in Nat /\ added <= added'
    /\ stored \subseteq stored' /\ merged \subseteq merged' /\ parked \subseteq parked'
    /\ \A k \in Keys : notices[k] # 0 => notices'[k] # 0

\* No step forgets what was added, stored, merged or parked.
LEMMA NextGrow ==
    ASSUME Types, [Next]_vars
    PROVE  Grow
<1>1. added \in Nat /\ added' \in Nat /\ added <= added'
  BY AddedGrows DEF Types, Shared, StreamTypeOK
<1>2. ASSUME NEW i \in Ingestors, Step(i) \/ Crash(i), ~WriteNotices(i)
      PROVE  notices' = notices /\ stored \subseteq stored'
  BY <1>2 DEF Step, Crash, Boot, ReadNew, StartReclaim, ProcessEntries, RejectAck, RejectPark,
     DecodeDone, FindRegistry, WriteRegistry, MergeGraph, AckWritten, Suspects, ProcessSuspect,
     JudgeSuspects, ParkCopy, ParkAck, storeVars
<1>3. ASSUME NEW i \in Ingestors, Step(i) \/ Crash(i) PROVE merged \subseteq merged'
  BY <1>3 DEF Step, Crash, Boot, ReadNew, StartReclaim, ProcessEntries, RejectAck, RejectPark,
     DecodeDone, FindRegistry, WriteNotices, WriteRegistry, MergeGraph, AckWritten, Suspects,
     ProcessSuspect, JudgeSuspects, ParkCopy, ParkAck, storeVars
<1>4. ASSUME NEW i \in Ingestors, Step(i) \/ Crash(i) PROVE parked \subseteq parked'
  BY <1>4 DEF Step, Crash, Boot, ReadNew, StartReclaim, ProcessEntries, RejectAck, RejectPark,
     DecodeDone, FindRegistry, WriteNotices, WriteRegistry, MergeGraph, AckWritten, Suspects,
     ProcessSuspect, JudgeSuspects, ParkCopy, ParkAck
<1>5. ASSUME NEW i \in Ingestors, WriteNotices(i)
      PROVE  stored \subseteq stored' /\ \A k \in Keys : notices[k] # 0 => notices'[k] # 0
  <2>1. PICK ok \in SUBSET ToWrite(i) : notices' = Written(notices, ok) /\ stored' = stored \cup ok
    BY <1>5 DEF WriteNotices
  <2>2. \A id \in ok : id \in Nat /\ id # 0
    BY <2>1, IngestorAssumption DEF ToWrite, LastOfKey, Types, Local, Jobs, Ids
  <2> QED BY <2>1, <2>2, WrittenValue
<1>6. CASE Publish \/ Age \/ UNCHANGED vars
  BY <1>1, <1>6 DEF Publish, Age, vars, storeVars, Grow
<1> QED BY <1>1, <1>2, <1>3, <1>4, <1>5, <1>6 DEF Next, Grow

\* What backs a registry entry goes on backing it.
LEMMA BacksStable ==
    ASSUME Grow, NEW e, NEW k \in Keys, Backs(e, k)
    PROVE  Backs(e, k)'
BY DEF Grow, Backs

\* What MongoDB held for an entry it goes on having held.
LEMMA MongoStable ==
    ASSUME Grow, NEW e \in Nat, Promise!InMongo(e)
    PROVE  Promise!InMongo(e)'
<1>1. e..added \subseteq e..added'
  BY DEF Grow
<1> QED BY <1>1 DEF Grow, Promise!InMongo

\* A step of somebody else, or one that leaves the job as it is.
LEMMA WorkStable ==
    ASSUME Types, NEW i \in Ingestors, Work(i), Grow, job'[i] = job[i], pc'[i] = pc[i]
    PROVE  Work(i)'
<1>1. ToWrite(i)' = ToWrite(i) /\ Accepted(i)' = Accepted(i)
  BY DEF ToWrite, Unchanged, Accepted
<1>2. \A id \in job[i].ids : id \in Nat /\ KeyOf[id] \in Keys
  BY IngestorAssumption DEF Types, Local, Jobs, Ids
<1>3. ToWrite(i) \subseteq job[i].ids /\ Accepted(i) \subseteq job[i].ids
  BY DEF ToWrite, LastOfKey, Accepted
<1>4. \A k \in Keys : job[i].found[k] # 0 => Backs(job[i].found[k], k)'
  BY BacksStable DEF Work
<1>5. pc[i] = "register" => \A id \in ToWrite(i) :
          KeyOf[id] \notin job[i].failed => Backs(id, KeyOf[id])'
  BY <1>2, <1>3, BacksStable DEF Work
<1>6. pc[i] \in {"register", "merge", "ack"} => \A id \in Accepted(i) : Promise!InMongo(id)'
  BY <1>2, <1>3, MongoStable DEF Work
<1>7. pc[i] = "ack" => Accepted(i) \subseteq merged'
  BY DEF Work, Grow
<1> QED BY <1>1, <1>4, <1>5, <1>6, <1>7 DEF Work

\* A step to an await that claims nothing about the writes.
LEMMA WorkElsewhere ==
    ASSUME NEW i \in Ingestors, Work(i), Grow,
           job'[i].found = job[i].found \/ job'[i].found = [k \in Keys |-> 0],
           pc'[i] \notin {"register", "merge", "ack"}
    PROVE  Work(i)'
BY BacksStable DEF Work

\* A process_entries call that returns leaves no job behind.
LEMMA ReturnWork ==
    ASSUME Types, NEW i \in Ingestors, Work(i), Grow, NEW outcome, Return(i, outcome)
    PROVE  Work(i)'
<1>1. job'[i] = NoJob /\ pc'[i] \in {"idle", "suspects"}
  BY GotoLabel DEF Return, Types, Tables
<1>2. job'[i].found = [k \in Keys |-> 0]
  BY <1>1 DEF NoJob, JobFor
<1> QED BY <1>1, <1>2, WorkElsewhere

\* The steps that read, reject, return or die end in a job the invariant says nothing of.
LEMMA QuietWork ==
    ASSUME Types, NEW i \in Ingestors, Work(i), Grow,
           \/ Boot(i) \/ ReadNew(i) \/ StartReclaim(i) \/ RejectAck(i) \/ RejectPark(i)
           \/ DecodeDone(i) \/ AckWritten(i) \/ Suspects(i) \/ Crash(i)
    PROVE  Work(i)'
<1> DEFINE Same == job'[i].found = job[i].found
           Fresh == job'[i].found = [k \in Keys |-> 0]
           Elsewhere == pc'[i] \notin {"register", "merge", "ack"}
<1> Tables
  BY DEF Types
<1>0. \A kind, ids : JobFor(kind, ids).found = [k \in Keys |-> 0]
  BY DEF JobFor
<1>1. CASE Boot(i) \/ ParkCopy(i) \/ ParkAck(i) \/ JudgeSuspects(i)
  <2>1. job' = job /\ Elsewhere
    BY <1>1, GotoLabel DEF Boot, ParkCopy, ParkAck, JudgeSuspects
  <2> QED BY <2>1, WorkElsewhere
<1>2. CASE ReadNew(i)
  <2>1. CASE UNCHANGED <<pc, job>>
    BY <2>1, WorkStable
  <2>2. CASE /\ Goto(i, "decode")
             /\ job' = [job EXCEPT ![i] = JobFor("new", pel' \ pel)]
    <3>1. Elsewhere
      BY <2>2, GotoLabel
    <3>2. Fresh
      BY <1>0, <2>2 DEF Tables
    <3> QED BY <3>1, <3>2, WorkElsewhere
  <2>3. \/ Goto(i, "decode") /\ job' = [job EXCEPT ![i] = JobFor("new", pel' \ pel)]
        \/ UNCHANGED <<pc, job>>
    BY <1>2 DEF ReadNew
  <2> QED BY <2>1, <2>2, <2>3
<1>3. CASE StartReclaim(i)
  <2>1. PICK label \in {"idle", "suspects", "decode"}, new \in {"none", "fresh"}, ids \in SUBSET stale :
            Goto(i, label) /\ job' = [job EXCEPT ![i] = JobFor(new, ids)]
    BY <1>3 DEF StartReclaim, Claimable, NoJob
  <2>2. Elsewhere
    BY <2>1, GotoLabel
  <2>3. Fresh
    BY <1>0, <2>1 DEF Tables
  <2> QED BY <2>2, <2>3, WorkElsewhere
<1>4. CASE RejectAck(i) \/ RejectPark(i)
  <2>1. Elsewhere
    BY <1>4, GotoLabel DEF RejectAck, RejectPark
  <2>2. job[i] \in Jobs
    BY DEF Types, Local
  <2>3. ASSUME RejectAck(i) PROVE Same
    BY <2>2, <2>3 DEF RejectAck, Tables, Jobs
  <2>4. ASSUME RejectPark(i) PROVE Same
    BY <2>2, <2>4 DEF RejectPark, Tables, Jobs
  <2>5. Same
    BY <1>4, <2>3, <2>4
  <2> QED BY <2>1, <2>5, WorkElsewhere
<1>5. CASE DecodeDone(i)
  <2>1. CASE Goto(i, "find") /\ UNCHANGED <<job, reclaim>>
    BY <2>1, GotoLabel, WorkElsewhere
  <2> QED BY <1>5, <2>1, ReturnWork DEF DecodeDone
<1>6. CASE AckWritten(i)
  BY <1>6, ReturnWork DEF AckWritten
<1>7. CASE ProcessSuspect(i)
  <2>1. PICK ids : job' = [job EXCEPT ![i] = JobFor("suspect", ids)] /\ Goto(i, "decode")
    BY <1>7 DEF ProcessSuspect
  <2>2. Elsewhere
    BY <2>1, GotoLabel
  <2>3. Fresh
    BY <1>0, <2>1 DEF Tables
  <2> QED BY <2>2, <2>3, WorkElsewhere
<1>8. CASE Crash(i)
  <2>1. Elsewhere
    BY <1>8, GotoLabel DEF Crash
  <2>2. Fresh
    BY <1>0, <1>8 DEF Crash, NoJob, Tables
  <2> QED BY <2>1, <2>2, WorkElsewhere
<1> QED BY <1>1, <1>2, <1>3, <1>4, <1>5, <1>6, <1>7, <1>8 DEF Suspects

\* find: what the registry says is backed.
LEMMA FindWork ==
    ASSUME Types, RegistryInv, NEW i \in Ingestors, Work(i), Grow, FindRegistry(i)
    PROVE  Work(i)'
<1>1. CASE job' = [job EXCEPT ![i].found = registry] /\ Goto(i, "write")
  <2>1. pc'[i] = "write"
    BY <1>1, GotoLabel DEF Types
  <2>2. job'[i].found = registry
    BY <1>1 DEF Types, Tables, Local, Jobs
  <2>3. \A k \in Keys : \A e : e = registry[k] /\ e # 0 => Backs(e, k)'
    BY BacksStable DEF RegistryInv
  <2> QED BY <2>1, <2>2, <2>3 DEF Work
<1> QED BY <1>1, ReturnWork DEF FindRegistry

\* The notices: what was not refused is stored, and an unchanged notice was.
LEMMA WriteWork ==
    ASSUME Types, NEW i \in Ingestors, Work(i), Grow, WriteNotices(i)
    PROVE  Work(i)'
<1>1. PICK ok \in SUBSET ToWrite(i) :
          LET rejected == ToWrite(i) \ ok IN
          /\ notices' = Written(notices, ok)
          /\ stored' = stored \cup ok
          /\ \/ /\ job' = [job EXCEPT ![i].failed = KeysOf(rejected)]
                /\ Goto(i, "register")
             \/ Return(i, "error")
  BY DEF WriteNotices
<1>2. CASE Return(i, "error")
  BY <1>2, ReturnWork
<1>3. CASE /\ job' = [job EXCEPT ![i].failed = KeysOf(ToWrite(i) \ ok)]
           /\ Goto(i, "register")
  <2>1. pc'[i] = "register"
    BY <1>3, GotoLabel DEF Types
  <2>2. /\ job'[i].ids = job[i].ids /\ job'[i].found = job[i].found
        /\ job'[i].failed = KeysOf(ToWrite(i) \ ok)
    BY <1>3 DEF Types, Tables, Local, Jobs
  <2>3. ToWrite(i)' = ToWrite(i)
    BY <2>2 DEF ToWrite, Unchanged
  <2>4. /\ ToWrite(i) \subseteq LastOfKey(job[i].ids) /\ LastOfKey(job[i].ids) \subseteq job[i].ids
        /\ job[i].ids \subseteq Ids /\ job[i].ids \subseteq 1..added /\ added' = added
    BY DEF ToWrite, LastOfKey, Types, Local, Jobs, WriteNotices, streamVars
  <2>5. ASSUME NEW id \in ToWrite(i), KeyOf[id] \notin KeysOf(ToWrite(i) \ ok)
        PROVE  Backs(id, KeyOf[id])'
    <3>1. id \in ok
      BY <2>5 DEF KeysOf
    <3>2. KeyOf[id] \in Keys
      BY <2>4, IngestorAssumption
    <3>3. Written(notices, ok)[KeyOf[id]] \in ok
      BY <3>1, <3>2, WrittenValue
    <3>4. 0 \notin ok
      BY <2>4 DEF Ids
    <3> QED BY <1>1, <3>1, <3>3, <3>4 DEF Backs
  <2>6. \A k \in Keys : \A e : e = job[i].found[k] /\ e # 0 => Backs(e, k)'
    BY BacksStable DEF Work
  <2>7. ASSUME NEW id \in job[i].ids, KeyOf[id] \notin KeysOf(ToWrite(i) \ ok)
        PROVE  Promise!InMongo(id)'
    <3>1. PICK heir \in LastOfKey(job[i].ids) : KeyOf[heir] = KeyOf[id] /\ id <= heir
      BY <2>4, HasHeir
    <3>2. heir \in id..added'
      BY <2>4, <3>1 DEF Types, Shared, StreamTypeOK
    <3>3. CASE heir \in ToWrite(i)
      <4>1. heir \in stored'
        BY <2>5, <2>7, <3>1, <3>3 DEF Backs
      <4> QED BY <3>1, <3>2, <4>1 DEF Promise!InMongo
    <3>4. CASE heir \notin ToWrite(i)
      <4>1. Unchanged(i, heir)
        BY <3>4 DEF ToWrite
      <4>2. KeyOf[heir] \in Keys
        BY <2>4, IngestorAssumption
      <4>3. /\ job[i].found[KeyOf[heir]] \in stored'
            /\ KeyOf[job[i].found[KeyOf[heir]]] = KeyOf[heir]
            /\ HashOf[job[i].found[KeyOf[heir]]] = HashOf[heir]
        BY <2>6, <4>1, <4>2 DEF Unchanged, Backs
      <4> QED BY <3>1, <3>2, <4>3 DEF Promise!InMongo
    <3> QED BY <3>3, <3>4
  <2> QED BY <2>1, <2>2, <2>3, <2>5, <2>6, <2>7 DEF Work, Accepted
<1> QED BY <1>1, <1>2, <1>3

\* upsert_batch's last write keeps the invariant of the job.
LEMMA RegistryWork ==
    ASSUME Types, NEW i \in Ingestors, Work(i), Grow, WriteRegistry(i)
    PROVE  Work(i)'
<1>1. CASE Goto(i, "merge") /\ UNCHANGED job
  <2>1. pc'[i] = "merge"
    BY <1>1, GotoLabel DEF Types
  <2>2. job'[i] = job[i] /\ Accepted(i)' = Accepted(i) /\ pc[i] = "register"
    BY <1>1 DEF Accepted, WriteRegistry
  <2>3. \A id \in Accepted(i) : id \in Nat
    BY DEF Accepted, Types, Local, Jobs, Ids
  <2>4. \A id \in Accepted(i) : Promise!InMongo(id)'
    BY <2>2, <2>3, MongoStable DEF Work
  <2>5. \A k \in Keys : \A e : e = job[i].found[k] /\ e # 0 => Backs(e, k)'
    BY BacksStable DEF Work
  <2> QED BY <2>1, <2>2, <2>4, <2>5 DEF Work
<1> QED BY <1>1, ReturnWork DEF WriteRegistry

\* The registry: only what this call stored goes into it.
LEMMA RegistryBackedStep ==
    ASSUME Types, RegistryInv, NEW i \in Ingestors, Work(i), Grow, WriteRegistry(i)
    PROVE  RegistryInv'
<1>1. PICK ids \in SUBSET Registrable(i) : registry' = Written(registry, ids)
  BY DEF WriteRegistry
<1>2. pc[i] = "register"
  BY DEF WriteRegistry
<1>3. ASSUME NEW k \in Keys, NEW e, e = registry'[k], e # 0 PROVE Backs(e, k)'
  <2>1. CASE e \in ids /\ KeyOf[e] = k
    BY <1>1, <1>2, <1>3, <2>1, BacksStable DEF Work, Registrable
  <2>2. CASE e = registry[k]
    BY <1>3, <2>2, BacksStable DEF RegistryInv
  <2> QED BY <1>1, <1>3, <2>1, <2>2, WrittenValue
<1> QED BY <1>3 DEF RegistryInv

\* The graph: what is still accepted was merged.
LEMMA MergeWork ==
    ASSUME Types, NEW i \in Ingestors, Work(i), Grow, MergeGraph(i)
    PROVE  Work(i)'
<1>1. PICK ok \in SUBSET Accepted(i) :
          LET rejected == Accepted(i) \ ok IN
          /\ merged' = merged \cup ok
          /\ \/ /\ job' = [job EXCEPT ![i].failed = job[i].failed \cup KeysOf(rejected)]
                /\ Goto(i, "ack")
             \/ Return(i, "error")
  BY DEF MergeGraph
<1>2. CASE Return(i, "error")
  BY <1>2, ReturnWork
<1>3. CASE /\ job' = [job EXCEPT ![i].failed = job[i].failed \cup KeysOf(Accepted(i) \ ok)]
           /\ Goto(i, "ack")
  <2>1. pc'[i] = "ack" /\ pc[i] = "merge"
    BY <1>3, GotoLabel DEF Types, MergeGraph
  <2>2. /\ job'[i].ids = job[i].ids /\ job'[i].found = job[i].found
        /\ job'[i].failed = job[i].failed \cup KeysOf(Accepted(i) \ ok)
    BY <1>3 DEF Types, Tables, Local, Jobs
  <2>3. Accepted(i)' \subseteq ok /\ ok \subseteq Accepted(i)
    BY <2>2 DEF Accepted, KeysOf
  <2>4. \A id \in Accepted(i) : id \in Nat
    BY DEF Accepted, Types, Local, Jobs, Ids
  <2>5. \A id \in Accepted(i) : Promise!InMongo(id)'
    BY <2>1, <2>4, MongoStable DEF Work
  <2>6. \A k \in Keys : \A e : e = job[i].found[k] /\ e # 0 => Backs(e, k)'
    BY BacksStable DEF Work
  <2>7. Accepted(i)' \subseteq merged'
    BY <1>1, <2>3
  <2> QED BY <2>1, <2>2, <2>3, <2>5, <2>6, <2>7 DEF Work
<1> QED BY <1>1, <1>2, <1>3

\* Every step keeps the invariant of every job.
LEMMA NextWork ==
    ASSUME Types, RegistryInv, \A i \in Ingestors : Work(i), [Next]_vars
    PROVE  RegistryInv' /\ \A i \in Ingestors : Work(i)'
<1> Grow
  BY NextGrow
<1>1. ASSUME registry' = registry PROVE RegistryInv'
  <2>1. \A k \in Keys : \A e : e = registry[k] /\ e # 0 => Backs(e, k)'
    BY BacksStable DEF RegistryInv
  <2> QED BY <1>1, <2>1 DEF RegistryInv
<1>2. ASSUME NEW i \in Ingestors, Step(i) \/ Crash(i)
      PROVE  RegistryInv' /\ \A j \in Ingestors : Work(j)'
  <2>1. Work(i)'
    BY <1>2, QuietWork, FindWork, WriteWork, RegistryWork, MergeWork
       DEF Step, ProcessEntries
  <2>2. ASSUME NEW j \in Ingestors, j # i PROVE Work(j)'
    BY <1>2, <2>2, StepFrame, OthersLocal, WorkStable DEF Types
  <2>3. ASSUME WriteRegistry(i) PROVE RegistryInv'
    BY <2>3, RegistryBackedStep
  <2>4. ASSUME ~WriteRegistry(i) PROVE RegistryInv'
    <3>1. registry' = registry
      BY <1>2, <2>4 DEF Step, Crash, Boot, ReadNew, StartReclaim, ProcessEntries, RejectAck,
         RejectPark, DecodeDone, FindRegistry, WriteNotices, MergeGraph, AckWritten, Suspects,
         ProcessSuspect, JudgeSuspects, ParkCopy, ParkAck, storeVars
    <3> QED BY <1>1, <3>1
  <2> QED BY <2>1, <2>2, <2>3, <2>4
<1>3. CASE Publish \/ Age \/ UNCHANGED vars
  <2>1. UNCHANGED <<registry, pc, job>>
    BY <1>3 DEF Publish, Age, vars, storeVars
  <2> QED BY <1>1, <2>1, WorkStable
<1> QED BY <1>2, <1>3 DEF Next

-----------------------------------------------------------------------------
(* The contract *)

\* What one acknowledgement adds to the history.
LEMMA AckOf ==
    ASSUME NEW ids, Ack(ids)
    PROVE  acked' = acked \cup (ids \cap pel) /\ added' = added
BY DEF Ack, XACK

\* What each step does to what the contract speaks of.
LEMMA ContractSteps ==
    ASSUME Types, NEW i \in Ingestors, Work(i), Step(i) \/ Crash(i)
    PROVE  \/ UNCHANGED <<added, stored, merged, parked, acked>>
           \/ /\ stored \subseteq stored' /\ UNCHANGED <<added, merged, parked, acked>>
           \/ /\ merged \subseteq merged' /\ UNCHANGED <<added, stored, parked, acked>>
           \/ \E ids \in SUBSET job[i].ids :
                  /\ ids \subseteq Undecodable \/ \A id \in ids : Promise!InBothStores(id)
                  /\ acked' = acked \cup (ids \cap pel)
                  /\ UNCHANGED <<added, stored, merged, parked>>
           \/ \E id \in reclaim[i].todo :
                  /\ acked' = acked \cup ({id} \cap pel)
                  /\ parked' = parked \cup {id}
                  /\ UNCHANGED <<added, stored, merged>>
<1>1. CASE \/ Boot(i) \/ ReadNew(i) \/ StartReclaim(i) \/ Crash(i) \/ DecodeDone(i)
           \/ FindRegistry(i) \/ WriteRegistry(i) \/ RejectPark(i)
           \/ ProcessSuspect(i) \/ JudgeSuspects(i) \/ ParkCopy(i)
  BY <1>1 DEF Boot, XGROUP_CREATE, ReadNew, XREADGROUP, StartReclaim, Crash, DecodeDone,
     FindRegistry, WriteRegistry, RejectPark, ProcessSuspect, JudgeSuspects, ParkCopy,
     streamVars, storeVars
<1>2. CASE WriteNotices(i)
  BY <1>2 DEF WriteNotices, streamVars
<1>3. CASE MergeGraph(i)
  BY <1>3 DEF MergeGraph, streamVars
<1>4. CASE RejectAck(i)
  <2> DEFINE id == Smallest(job[i].ids \cap Undecodable)
  <2>1. id \in job[i].ids /\ id \in Undecodable
    <3>1. job[i].ids \cap Undecodable \subseteq Nat /\ job[i].ids \cap Undecodable # {}
      BY <1>4, IngestorAssumption DEF RejectAck, Types, Local, Jobs, Ids
    <3>2. Smallest(job[i].ids \cap Undecodable) \in job[i].ids \cap Undecodable
      BY <3>1, SmallestMember
    <3> QED BY <3>2
  <2>2. /\ Ack({id}) \/ UNCHANGED <<streamVars, stale>>
        /\ UNCHANGED <<storeVars, parked>>
    BY <1>4 DEF RejectAck
  <2> HIDE DEF id
  <2>3. {id} \in SUBSET job[i].ids /\ {id} \subseteq Undecodable
    BY <2>1
  <2>4. CASE UNCHANGED <<streamVars, stale>>
    BY <2>2, <2>4 DEF streamVars, storeVars
  <2>5. CASE Ack({id})
    <3>1. acked' = acked \cup ({id} \cap pel) /\ added' = added
      BY <2>5, AckOf
    <3> QED BY <2>2, <2>3, <3>1 DEF storeVars
  <2> QED BY <2>2, <2>4, <2>5
<1>5. CASE AckWritten(i)
  <2>1. /\ Ack(Accepted(i)) \/ UNCHANGED <<streamVars, stale>>
        /\ UNCHANGED <<storeVars, parked>> /\ pc[i] = "ack"
    BY <1>5 DEF AckWritten
  <2>2. Accepted(i) \in SUBSET job[i].ids /\ \A id \in Accepted(i) : Promise!InBothStores(id)
    BY <2>1 DEF Accepted, Work, Promise!InBothStores
  <2>3. CASE UNCHANGED <<streamVars, stale>>
    BY <2>1, <2>3 DEF streamVars, storeVars
  <2>4. CASE Ack(Accepted(i))
    <3>1. acked' = acked \cup (Accepted(i) \cap pel) /\ added' = added
      BY <2>4, AckOf
    <3> QED BY <2>1, <2>2, <3>1 DEF storeVars
  <2> QED BY <2>1, <2>3, <2>4
<1>6. CASE ParkAck(i)
  <2> DEFINE id == Smallest(reclaim[i].todo)
  <2>1. id \in reclaim[i].todo
    <3>1. reclaim[i].todo \subseteq Nat /\ reclaim[i].todo # {}
      BY <1>6 DEF ParkAck, Types, Local, Reclaims, Ids
    <3> QED BY <3>1, SmallestMember
  <2>2. /\ \/ Ack({id}) /\ parked' = parked \cup {id}
           \/ UNCHANGED <<streamVars, stale, parked>>
        /\ UNCHANGED storeVars
    BY <1>6 DEF ParkAck
  <2> HIDE DEF id
  <2>3. CASE UNCHANGED <<streamVars, stale, parked>>
    BY <2>2, <2>3 DEF streamVars, storeVars
  <2>4. CASE Ack({id}) /\ parked' = parked \cup {id}
    <3>1. acked' = acked \cup ({id} \cap pel) /\ added' = added
      BY <2>4, AckOf
    <3> QED BY <2>1, <2>2, <2>4, <3>1 DEF storeVars
  <2> QED BY <2>2, <2>3, <2>4
<1> QED BY <1>1, <1>2, <1>3, <1>4, <1>5, <1>6 DEF Step, ProcessEntries, Suspects

\* Where the entries of a job, or of a reclaim, come from.
LEMMA HeldWasAdded ==
    ASSUME Types, NEW i \in Ingestors
    PROVE  job[i].ids \subseteq 1..added /\ reclaim[i].todo \subseteq 1..added
BY DEF Types, Local

\* Every step keeps the promise about acknowledged entries.
LEMMA NextAcked ==
    ASSUME IInv, [Next]_vars
    PROVE  AckedInBothStores'
<1> Types /\ Grow /\ acked \subseteq Nat
  BY NextGrow DEF IInv, Types, Shared, StreamTypeOK
<1>1. ASSUME NEW id \in Nat, Promise!InBothStores(id) PROVE Promise!InBothStores(id)'
  BY <1>1, MongoStable DEF Promise!InBothStores, Grow
<1>2. ASSUME NEW id \in acked
      PROVE  id \in Undecodable \/ id \in parked' \/ Promise!InBothStores(id)'
  BY <1>1, <1>2 DEF IInv, AckedInBothStores, Grow
<1>3. CASE acked' = acked
  BY <1>2, <1>3 DEF AckedInBothStores
<1>4. ASSUME NEW i \in Ingestors, Step(i) \/ Crash(i) PROVE AckedInBothStores'
  <2>1. ASSUME NEW ids \in SUBSET job[i].ids,
               ids \subseteq Undecodable \/ \A id \in ids : Promise!InBothStores(id),
               acked' = acked \cup (ids \cap pel)
        PROVE  AckedInBothStores'
    <3>1. ids \subseteq Nat
      BY HeldWasAdded
    <3>2. \A id \in ids : id \in Undecodable \/ Promise!InBothStores(id)'
      BY <1>1, <2>1, <3>1
    <3> QED BY <1>2, <2>1, <3>2 DEF AckedInBothStores
  <2>2. ASSUME NEW id, acked' = acked \cup ({id} \cap pel), parked' = parked \cup {id}
        PROVE  AckedInBothStores'
    BY <1>2, <2>2 DEF AckedInBothStores
  <2>3. Work(i)
    BY DEF IInv
  <2> QED BY <1>3, <1>4, <2>1, <2>2, <2>3, ContractSteps
<1>5. CASE Publish \/ Age \/ UNCHANGED vars
  <2>1. acked' = acked
    BY <1>5 DEF Publish, XADD, Age, streamVars, vars
  <2> QED BY <1>3, <2>1
<1> QED BY <1>4, <1>5 DEF Next

\* Every step is a step of the contract, or stutters.
LEMMA StepKeepsPromise ==
    ASSUME IInv, IInv', [Next]_vars
    PROVE  [Promise!Next]_(Promise!deliveryVars)
<1> Types /\ Grow
  BY NextGrow DEF IInv
<1> USE DEF Promise!Next, Promise!deliveryVars
<1>1. CASE UNCHANGED <<added, stored, merged, parked, acked>>
  BY <1>1
<1>2. CASE Publish
  <2>1. added' = added + 1 /\ UNCHANGED <<stored, merged, parked, acked>>
    BY <1>2 DEF Publish, XADD, storeVars
  <2> QED BY <2>1 DEF Promise!Publish
<1>3. CASE Age \/ UNCHANGED vars
  BY <1>1, <1>3 DEF Age, vars, streamVars, storeVars
<1>4. ASSUME NEW i \in Ingestors, Step(i) \/ Crash(i)
      PROVE  [Promise!Next]_(Promise!deliveryVars)
  <2>1. CASE stored \subseteq stored' /\ UNCHANGED <<added, merged, parked, acked>>
    <3>1. stored' \subseteq 1..added
      BY <2>1 DEF IInv, Types, Shared
    <3> QED BY <2>1, <3>1 DEF Promise!Store
  <2>2. CASE merged \subseteq merged' /\ UNCHANGED <<added, stored, parked, acked>>
    <3>1. merged' \subseteq 1..added
      BY <2>2 DEF IInv, Types, Shared
    <3> QED BY <2>2, <3>1 DEF Promise!Merge
  <2>3. ASSUME NEW ids \in SUBSET job[i].ids,
               ids \subseteq Undecodable \/ \A id \in ids : Promise!InBothStores(id),
               acked' = acked \cup (ids \cap pel),
               UNCHANGED <<added, stored, merged, parked>>
        PROVE  Promise!Settle
    <3> DEFINE batch == (ids \cap pel) \ acked
    <3>1. batch \in SUBSET Promise!Outstanding
      BY HeldWasAdded DEF Promise!Outstanding
    <3>2. \A e \in batch : e \in Undecodable \/ Promise!InBothStores(e)
      BY <2>3
    <3>3. acked' = acked \cup batch
      BY <2>3
    <3> HIDE DEF batch
    <3> QED BY <2>3, <3>1, <3>2, <3>3 DEF Promise!Settle
  <2>4. ASSUME NEW id \in reclaim[i].todo,
               acked' = acked \cup ({id} \cap pel),
               parked' = parked \cup {id},
               UNCHANGED <<added, stored, merged>>
        PROVE  Promise!GiveUp
    <3>1. id \in 1..added
      BY HeldWasAdded
    <3>2. acked' \in {acked, acked \cup {id}}
      BY <2>4
    <3> QED BY <2>4, <3>1, <3>2 DEF Promise!GiveUp
  <2>5. Work(i)
    BY DEF IInv
  <2> QED BY <1>1, <1>4, <2>1, <2>2, <2>3, <2>4, <2>5, ContractSteps
<1> QED BY <1>2, <1>3, <1>4 DEF Next

-----------------------------------------------------------------------------
(* The theorems *)

\* The inductive invariant holds at the start.
LEMMA InitIInv == Init => IInv
<1> SUFFICES ASSUME Init PROVE IInv
  OBVIOUS
<1>1. /\ added = 0 /\ log = {} /\ lastDelivered = 0 /\ pel = {} /\ acked = {}
      /\ stored = {} /\ merged = {} /\ dead = {} /\ parked = {} /\ stale = {}
      /\ faults = 0 /\ crashes = 0
  BY DEF Init, StreamInit
<1>2. StreamTypeOK
  <2>1. group \in BOOLEAN
    BY DEF Init, StreamInit
  <2> QED BY <1>1, <2>1 DEF StreamTypeOK
<1>3. Shared
  <2>1. GroupInv
    BY <1>1 DEF GroupInv
  <2>2. /\ deliveries \in [Ids -> 0..DeliveryLimit]
        /\ notices \in [Keys -> {0} \cup Ids] /\ registry \in [Keys -> {0} \cup Ids]
    BY IngestorAssumption DEF Init
  <2> QED BY <1>1, <1>2, <2>1, <2>2, IngestorAssumption DEF Shared
<1>4. Tables
  BY DEF Init, Tables
<1>5. \A i \in Ingestors : pc[i] = "boot" /\ job[i] = NoJob /\ reclaim[i] = NoReclaim
  BY DEF Init
<1>6. /\ NoJob \in Jobs /\ NoJob.ids = {} /\ NoJob.found = [k \in Keys |-> 0]
      /\ NoReclaim \in Reclaims /\ NoReclaim.todo = {} /\ NoReclaim.failing = {}
  BY NoJobType, NoReclaimType DEF NoJob, JobFor, NoReclaim
<1>7. Types
  BY <1>3, <1>4, <1>5, <1>6 DEF Types, Local, Labels
<1>8. RegistryInv
  BY DEF Init, RegistryInv
<1>9. \A i \in Ingestors : Work(i)
  BY <1>5, <1>6 DEF Work
<1>10. AckedInBothStores
  BY <1>1 DEF AckedInBothStores
<1> QED BY <1>7, <1>8, <1>9, <1>10 DEF IInv

\* The parts of the inductive invariant carry each other over a step.
LEMMA Inductive == IInv /\ [Next]_vars => IInv'
<1> SUFFICES ASSUME IInv, [Next]_vars PROVE IInv'
  OBVIOUS
<1>1. Types'
  BY NextTypes DEF IInv
<1>2. RegistryInv' /\ \A i \in Ingestors : Work(i)'
  BY NextWork DEF IInv
<1>3. AckedInBothStores'
  BY NextAcked
<1> QED BY <1>1, <1>2, <1>3 DEF IInv

\* The inductive invariant holds throughout.
LEMMA Invariant == Spec => []IInv
BY InitIInv, Inductive, PTL DEF Spec

\* Every variable keeps its type.
THEOREM TypeCorrect == Spec => []TypeOK
<1>1. IInv => TypeOK
  <2> SUFFICES ASSUME IInv PROVE TypeOK
    OBVIOUS
  <2>1. 1..added \subseteq Ids
    BY IngestorAssumption DEF IInv, Types, Shared, StreamTypeOK, Ids
  <2>2. /\ pc \in [Ingestors -> Labels] /\ job \in [Ingestors -> Jobs]
        /\ reclaim \in [Ingestors -> Reclaims]
    <3>1. \A i \in Ingestors : pc[i] \in Labels /\ job[i] \in Jobs /\ reclaim[i] \in Reclaims
      BY DEF IInv, Types, Local
    <3> QED BY <3>1 DEF IInv, Types, Tables
  <2> QED BY <2>1, <2>2 DEF IInv, Types, Shared, TypeOK
<1> QED BY <1>1, Invariant, PTL

\* What is acknowledged is in both stores, undecodable or parked, whatever
\* fails, crashes or is redelivered, and however many ingestors share the group.
THEOREM AckedAreStored == Spec => []AckedInBothStores
<1>1. IInv => AckedInBothStores
  BY DEF IInv
<1> QED BY <1>1, Invariant, PTL

\* The registry never names a hash that was not stored as a notice first.
THEOREM RegistryNeverAhead == Spec => []RegistryBacked
<1>1. IInv => RegistryBacked
  BY DEF IInv, RegistryInv, Backs, RegistryBacked
<1> QED BY <1>1, Invariant, PTL

\* The ingestor implements the delivery contract.
THEOREM KeepsPromise == Spec => PromiseKept
<1>1. Init => Promise!Init
  BY DEF Init, StreamInit, Promise!Init
<1>2. IInv /\ IInv' /\ [Next]_vars => [Promise!Next]_(Promise!deliveryVars)
  BY StepKeepsPromise
<1> QED BY <1>1, <1>2, Invariant, PTL DEF Spec, PromiseKept, Promise!Spec

-----------------------------------------------------------------------------
(* What is parked: while no call fails for a reason of its own, entries that       *)
(* MongoDB or Neo4j refuses alone, whatever batches they came in and however often  *)
(* ingestors died over them.                                                        *)

Refused == MongoRejects \cup GraphRejects

\* Suspects are tried alone, so one that failed was refused itself; one that
\* failed without an infrastructure error, and one to be parked, likewise.
Blameless(i) ==
    /\ job[i].kind = "suspect" =>
          /\ \A a, b \in job[i].ids : a = b
          /\ \A id \in job[i].ids : KeyOf[id] \in job[i].failed => id \in Refused
    /\ reclaim[i].failing \ reclaim[i].errored \subseteq Refused
    /\ pc[i] \in {"park", "parkAck"} => reclaim[i].todo \subseteq Refused

ParkInv == faults = 0 => parked \subseteq Refused /\ \A i \in Ingestors : Blameless(i)

\* Without a fault so far, the step was none.
LEMMA NoFaultSoFar ==
    ASSUME Types, [Next]_vars, faults' = 0
    PROVE  faults = 0
<1>1. faults \in Nat
  BY IngestorAssumption DEF Types, Shared
<1>2. Fault \/ UNCHANGED faults
  BY DEF NoFault, Next, Publish, Age, Step, Crash, Boot, ReadNew, StartReclaim, ProcessEntries,
     RejectAck, RejectPark, DecodeDone, FindRegistry, WriteNotices, WriteRegistry,
     MergeGraph, AckWritten, Suspects, ProcessSuspect, JudgeSuspects, ParkCopy, ParkAck, vars
<1> QED BY <1>1, <1>2 DEF Fault

\* A call that returns leaves no job; what it says of a suspect is remembered.
LEMMA ReturnBlame ==
    ASSUME Types, NEW i \in Ingestors, Blameless(i), NEW outcome \in {"ok", "failed", "error"},
           Return(i, outcome), outcome = "failed" /\ job[i].kind = "suspect" => job[i].ids \subseteq Refused
    PROVE  Blameless(i)'
<1>1. Tables /\ Local(i)
  BY DEF Types
<1>2. job'[i] = NoJob /\ pc'[i] \in {"idle", "suspects"}
  BY <1>1, GotoLabel DEF Return, Tables
<1>3. job'[i].kind = "none"
  BY <1>2 DEF NoJob, JobFor
<1>4. reclaim'[i].failing \ reclaim'[i].errored \subseteq Refused
  <2>1. CASE reclaim' = reclaim
    BY <2>1 DEF Blameless
  <2>2. CASE reclaim' # reclaim
    <3> DEFINE errored == IF outcome = "error" THEN reclaim[i].errored \cup job[i].ids
                                               ELSE reclaim[i].errored
               failing == reclaim[i].failing \cup job[i].ids
    <3>1. job[i].kind = "suspect" /\ outcome # "ok"
      BY <2>2 DEF Return
    <3>2. reclaim'[i] = [reclaim[i] EXCEPT !.failing = failing, !.errored = errored]
      BY <1>1, <3>1 DEF Return, Tables
    <3>3. reclaim'[i].failing = failing /\ reclaim'[i].errored = errored
      <4> HIDE DEF failing, errored
      <4> QED BY <1>1, <3>2 DEF Local, Reclaims
    <3>4. failing \ errored \subseteq Refused
      <4>1. CASE outcome = "error"
        BY <4>1 DEF Blameless
      <4>2. CASE outcome = "failed"
        BY <3>1, <4>2 DEF Blameless
      <4> QED BY <3>1, <4>1, <4>2
    <3> QED BY <3>3, <3>4
  <2> QED BY <2>1, <2>2
<1> QED BY <1>2, <1>3, <1>4 DEF Blameless

\* Steps that touch neither what failed nor what is to be parked.
LEMMA QuietBlame ==
    ASSUME Types, NEW i \in Ingestors, Blameless(i), faults' = 0, faults = 0,
           Boot(i) \/ ReadNew(i) \/ StartReclaim(i) \/ RejectAck(i) \/ RejectPark(i)
           \/ DecodeDone(i) \/ FindRegistry(i) \/ WriteRegistry(i) \/ Crash(i)
    PROVE  Blameless(i)'
<1>1. Tables /\ Local(i)
  BY DEF Types
<1>2. NoReclaim.failing = {} /\ NoJob.kind = "none"
  BY DEF NoReclaim, NoJob, JobFor
<1>3. CASE Boot(i)
  BY <1>1, <1>3, GotoLabel DEF Boot, Blameless
<1>4. CASE ReadNew(i)
  <2>1. \/ pc'[i] = "decode" /\ job'[i].kind = "new"
        \/ pc'[i] = pc[i] /\ job'[i] = job[i]
    BY <1>1, <1>4, GotoLabel DEF ReadNew, JobFor, Tables
  <2> QED BY <1>4, <2>1 DEF ReadNew, Blameless
<1>5. CASE StartReclaim(i)
  <2>1. pc'[i] \in {"idle", "suspects", "decode"}
    BY <1>1, <1>5, GotoLabel DEF StartReclaim
  <2>3. job'[i] = NoJob \/ \E fresh : job'[i] = JobFor("fresh", fresh)
    <3>1. \/ job' = [job EXCEPT ![i] = NoJob]
          \/ \E fresh : job' = [job EXCEPT ![i] = JobFor("fresh", fresh)]
      BY <1>5, Zenon DEF StartReclaim
    <3> QED BY <1>1, <3>1 DEF Tables
  <2>4. job'[i].kind \in {"none", "fresh"}
    <3>1. \A fresh : JobFor("fresh", fresh).kind = "fresh"
      BY DEF JobFor
    <3> QED BY <1>2, <2>3, <3>1
  <2>2. reclaim'[i].failing = {}
    BY <1>1, <1>2, <1>5 DEF StartReclaim, Tables, NoReclaim
  <2> QED BY <2>1, <2>2, <2>4 DEF Blameless
<1>6. CASE RejectAck(i)
  <2>1. pc'[i] = "rejected" /\ reclaim' = reclaim
    BY <1>1, <1>6, GotoLabel DEF RejectAck
  <2>2. job'[i].ids = job[i].ids /\ job'[i].kind = job[i].kind /\ job'[i].failed = job[i].failed
    BY <1>1, <1>6 DEF RejectAck, Tables, Local, Jobs
  <2> QED BY <2>1, <2>2 DEF Blameless
<1>7. CASE RejectPark(i)
  <2>1. pc'[i] = "decode" /\ reclaim' = reclaim
    BY <1>1, <1>7, GotoLabel DEF RejectPark
  <2>2. /\ job'[i].ids \subseteq job[i].ids /\ job'[i].kind = job[i].kind
        /\ job'[i].failed = job[i].failed
    BY <1>1, <1>7 DEF RejectPark, Tables, Local, Jobs
  <2> QED BY <2>1, <2>2 DEF Blameless
<1>8. CASE DecodeDone(i)
  <2>1. CASE Return(i, "ok")
    BY <2>1, ReturnBlame
  <2>2. CASE Goto(i, "find") /\ UNCHANGED <<job, reclaim>>
    BY <1>1, <2>2, GotoLabel DEF Blameless
  <2> QED BY <1>8, <2>1, <2>2 DEF DecodeDone
<1>9. CASE FindRegistry(i)
  <2>1. CASE Return(i, "error")
    BY <2>1, ReturnBlame
  <2>2. CASE job' = [job EXCEPT ![i].found = registry] /\ Goto(i, "write") /\ UNCHANGED reclaim
    <3>1. pc'[i] = "write"
      BY <1>1, <2>2, GotoLabel
    <3>2. job'[i].ids = job[i].ids /\ job'[i].kind = job[i].kind /\ job'[i].failed = job[i].failed
      BY <1>1, <2>2 DEF Tables, Local, Jobs
    <3> QED BY <2>2, <3>1, <3>2 DEF Blameless
  <2> QED BY <1>9, <2>1, <2>2 DEF FindRegistry
<1>10. CASE WriteRegistry(i)
  <2>1. CASE Return(i, "error")
    BY <2>1, ReturnBlame
  <2>2. CASE Goto(i, "merge") /\ UNCHANGED <<job, reclaim>>
    BY <1>1, <2>2, GotoLabel DEF Blameless
  <2> QED BY <1>10, <2>1, <2>2 DEF WriteRegistry
<1>11. CASE Crash(i)
  BY <1>1, <1>2, <1>11, GotoLabel DEF Crash, Tables, Blameless
<1> QED BY <1>3, <1>4, <1>5, <1>6, <1>7, <1>8, <1>9, <1>10, <1>11

\* With one entry in the batch, what fails is that entry.
LEMMA AloneBlame ==
    ASSUME Types, NEW i \in Ingestors, Blameless(i), job[i].kind = "suspect",
           NEW rejected \in SUBSET job[i].ids, rejected \subseteq Refused,
           NEW id \in job[i].ids, KeyOf[id] \in job[i].failed \cup KeysOf(rejected)
    PROVE  id \in Refused
<1>1. CASE KeyOf[id] \in job[i].failed
  BY <1>1 DEF Blameless
<1>2. CASE KeyOf[id] \in KeysOf(rejected)
  <2>1. PICK r \in rejected : KeyOf[r] = KeyOf[id]
    BY <1>2 DEF KeysOf
  <2>2. r = id
    BY <2>1 DEF Blameless
  <2> QED BY <2>1, <2>2
<1> QED BY <1>1, <1>2

\* The writes: only what a store refuses fails.
LEMMA WriteBlame ==
    ASSUME Types, NEW i \in Ingestors, Blameless(i), faults' = 0, faults = 0,
           WriteNotices(i) \/ MergeGraph(i)
    PROVE  Blameless(i)'
<1>1. Tables /\ Local(i)
  BY DEF Types
<1>2. ~Fault
  BY DEF Fault
<1>3. ASSUME NEW rejected \in SUBSET job[i].ids, rejected \subseteq Refused, NEW failed,
             failed \subseteq job[i].failed \cup KeysOf(rejected),
             job' = [job EXCEPT ![i].failed = failed], pc'[i] \in {"register", "ack"},
             reclaim' = reclaim
      PROVE  Blameless(i)'
  <2>1. job'[i].ids = job[i].ids /\ job'[i].kind = job[i].kind /\ job'[i].failed = failed
    BY <1>1, <1>3 DEF Tables, Local, Jobs
  <2>2. ASSUME job[i].kind = "suspect", NEW id \in job[i].ids, KeyOf[id] \in failed
        PROVE  id \in Refused
    BY <1>3, <2>2, AloneBlame
  <2> QED BY <1>3, <2>1, <2>2 DEF Blameless
<1>4. CASE WriteNotices(i)
  <2>1. CASE Return(i, "error")
    BY <2>1, ReturnBlame
  <2>2. CASE ~Return(i, "error")
    <3>1. PICK ok \in SUBSET ToWrite(i) :
              /\ ToWrite(i) \ ok \subseteq MongoRejects
              /\ job' = [job EXCEPT ![i].failed = KeysOf(ToWrite(i) \ ok)]
              /\ Goto(i, "register") /\ UNCHANGED reclaim
      BY <1>2, <1>4, <2>2 DEF WriteNotices
    <3>2. ToWrite(i) \ ok \in SUBSET job[i].ids /\ ToWrite(i) \ ok \subseteq Refused
      BY <3>1 DEF ToWrite, LastOfKey, Refused
    <3>3. pc'[i] = "register"
      BY <1>1, <3>1, GotoLabel
    <3> DEFINE rejected == ToWrite(i) \ ok
    <3> HIDE DEF rejected
    <3> QED BY <1>3, <3>1, <3>2, <3>3 DEF rejected
  <2> QED BY <2>1, <2>2
<1>5. CASE MergeGraph(i)
  <2>1. PICK ok \in SUBSET Accepted(i) :
            /\ Accepted(i) \ ok \subseteq GraphRejects
            /\ job' = [job EXCEPT ![i].failed = job[i].failed \cup KeysOf(Accepted(i) \ ok)]
            /\ Goto(i, "ack") /\ UNCHANGED reclaim
    BY <1>2, <1>5 DEF MergeGraph
  <2>2. Accepted(i) \ ok \in SUBSET job[i].ids /\ Accepted(i) \ ok \subseteq Refused
    BY <2>1 DEF Accepted, Refused
  <2>3. pc'[i] = "ack"
    BY <1>1, <2>1, GotoLabel
  <2> QED BY <1>3, <2>1, <2>2, <2>3
<1> QED BY <1>4, <1>5

\* The rest of a reclaim round: one suspect after the other, the judgement, parking.
LEMMA ParkBlame ==
    ASSUME Types, NEW i \in Ingestors, Blameless(i), faults' = 0, faults = 0,
           AckWritten(i) \/ Suspects(i)
    PROVE  Blameless(i)'
<1>1. Tables /\ Local(i)
  BY DEF Types
<1>2. ~Fault /\ NoReclaim.failing = {} /\ NoReclaim.errored = {}
  BY DEF Fault, NoReclaim
<1>3. CASE AckWritten(i)
  <2>1. Return(i, IF Accepted(i) = job[i].ids THEN "ok" ELSE "failed")
    BY <1>2, <1>3 DEF AckWritten
  <2>2. ASSUME Accepted(i) # job[i].ids, job[i].kind = "suspect" PROVE job[i].ids \subseteq Refused
    <3>1. PICK id \in job[i].ids : KeyOf[id] \in job[i].failed
      BY <2>2 DEF Accepted
    <3>2. id \in Refused /\ \A other \in job[i].ids : other = id
      BY <2>2, <3>1 DEF Blameless
    <3> QED BY <3>2
  <2>3. CASE Accepted(i) = job[i].ids
    BY <2>1, <2>3, ReturnBlame
  <2>4. CASE Accepted(i) # job[i].ids
    BY <2>1, <2>2, <2>4, ReturnBlame
  <2> QED BY <2>3, <2>4
<1>4. CASE ProcessSuspect(i)
  <2>1. /\ job'[i] = JobFor("suspect", NextSuspects(i)) /\ pc'[i] = "decode"
        /\ reclaim'[i].failing = reclaim[i].failing /\ reclaim'[i].errored = reclaim[i].errored
    BY <1>1, <1>4, GotoLabel DEF ProcessSuspect, Tables, Local, Reclaims
  <2>2. job'[i].failed = {} /\ job'[i].ids = {Smallest(reclaim[i].todo)}
    BY <2>1 DEF JobFor, NextSuspects
  <2> QED BY <2>1, <2>2 DEF Blameless
<1>5. CASE JudgeSuspects(i)
  <2> DEFINE guilty == IF Outage(i) THEN {} ELSE reclaim[i].failing \ reclaim[i].errored
  <2>1. guilty \subseteq Refused
    BY DEF Blameless
  <2>2. \/ pc'[i] = "idle" /\ reclaim'[i] = NoReclaim
        \/ pc'[i] = "park" /\ reclaim'[i] = [NoReclaim EXCEPT !.todo = guilty]
    <3> HIDE DEF guilty
    <3> QED BY <1>1, <1>5, GotoLabel DEF JudgeSuspects, Tables, guilty
  <2>3. /\ reclaim'[i].failing = {} /\ (pc'[i] = "park" => reclaim'[i].todo = guilty)
        /\ pc'[i] # "parkAck" /\ job' = job
    <3> HIDE DEF guilty
    <3> QED BY <1>5, <2>2 DEF JudgeSuspects, NoReclaim
  <2> QED BY <2>1, <2>2, <2>3 DEF Blameless
<1>6. CASE ParkCopy(i)
  BY <1>1, <1>6, GotoLabel DEF ParkCopy, Blameless
<1>7. CASE ParkAck(i)
  <2>1. reclaim[i].todo \subseteq Refused /\ job' = job
    BY <1>7 DEF ParkAck, Blameless
  <2>2. /\ reclaim'[i].todo \subseteq reclaim[i].todo
        /\ reclaim'[i].failing = reclaim[i].failing /\ reclaim'[i].errored = reclaim[i].errored
    BY <1>1, <1>2, <1>7 DEF ParkAck, Tables, Local, Reclaims
  <2> QED BY <2>1, <2>2 DEF Blameless
<1> QED BY <1>3, <1>4, <1>5, <1>6, <1>7 DEF Suspects

\* Whoever steps, nobody parks what was not refused.
LEMMA NextParkInv ==
    ASSUME Types, ParkInv, [Next]_vars
    PROVE  ParkInv'
<1> SUFFICES ASSUME faults' = 0 PROVE parked' \subseteq Refused /\ \A i \in Ingestors : Blameless(i)'
  BY DEF ParkInv, Refused
<1>1. faults = 0 /\ ~Fault
  BY NoFaultSoFar DEF Fault
<1>2. parked \subseteq Refused /\ \A i \in Ingestors : Blameless(i)
  BY <1>1 DEF ParkInv
<1>3. ASSUME NEW i \in Ingestors, Step(i) \/ Crash(i), NEW j \in Ingestors PROVE Blameless(j)'
  <2>1. CASE j = i
    BY <1>1, <1>2, <1>3, <2>1, QuietBlame, WriteBlame, ParkBlame DEF Step, ProcessEntries
  <2>2. CASE j # i
    <3>1. pc'[j] = pc[j] /\ job'[j] = job[j] /\ reclaim'[j] = reclaim[j]
      BY <1>3, <2>2, StepFrame, OthersLocal DEF Types
    <3> QED BY <1>2, <3>1 DEF Blameless, Refused
  <2> QED BY <2>1, <2>2
<1>4. ASSUME Publish \/ Age \/ UNCHANGED vars, NEW j \in Ingestors PROVE Blameless(j)'
  <2>1. UNCHANGED <<pc, job, reclaim>>
    BY <1>4 DEF Publish, Age, vars
  <2> QED BY <1>2, <2>1 DEF Blameless, Refused
<1>5. parked' \subseteq Refused
  <2>1. CASE \E i \in Ingestors : ParkAck(i)
    <3>1. PICK i \in Ingestors : ParkAck(i)
      BY <2>1
    <3>2. parked' \subseteq parked \cup {Smallest(reclaim[i].todo)}
      BY <3>1 DEF ParkAck
    <3>3. reclaim[i].todo \subseteq Refused
      BY <1>2, <3>1 DEF Blameless, ParkAck
    <3>4. Smallest(reclaim[i].todo) \in reclaim[i].todo
      <4>1. reclaim[i].todo \subseteq Nat /\ reclaim[i].todo # {}
        BY <3>1 DEF ParkAck, Types, Local, Shared, StreamTypeOK
      <4> QED BY <4>1, SmallestMember
    <3> QED BY <1>2, <3>2, <3>3, <3>4
  <2>2. CASE ~ \E i \in Ingestors : ParkAck(i)
    <3>1. parked' = parked
      BY <2>2 DEF Next, Publish, Age, Step, Crash, Boot, ReadNew, StartReclaim, ProcessEntries,
         RejectAck, RejectPark, DecodeDone, FindRegistry, WriteNotices, WriteRegistry,
         MergeGraph, AckWritten, Suspects, ProcessSuspect, JudgeSuspects, ParkCopy, vars
    <3> QED BY <1>2, <3>1
  <2> QED BY <2>1, <2>2
<1> QED BY <1>3, <1>4, <1>5 DEF Next

\* While no infrastructure call has failed, only what a store refuses is parked.
THEOREM InnocentsNotParked == Spec => []InnocentNotParked
<1>1. Init => ParkInv
  BY DEF Init, ParkInv, Blameless, NoJob, JobFor, NoReclaim
<1>2. IInv /\ ParkInv /\ [Next]_vars => ParkInv'
  BY NextParkInv DEF IInv
<1>3. ParkInv => InnocentNotParked
  BY DEF ParkInv, Refused, InnocentNotParked
<1> QED BY <1>1, <1>2, <1>3, Invariant, PTL DEF Spec
=============================================================================
