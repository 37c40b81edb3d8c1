-------------------------- MODULE ExtractorProofs --------------------------
(***************************************************************************)
(* Proofs about Extractor, for every number of worker processes of a        *)
(* source, records, page and flush sizes, overlap, faults and instants:     *)
(* the lock is released by its owner only, and the checkpoint never passes  *)
(* a record that is not in the stream, provided that a MaxModified listing  *)
(* fits into one page (the run extractor_offset shows what happens if not). *)
(***************************************************************************)
EXTENDS Extractor, FiniteSetTheorems, TLAPS

\* The lemmas about numbers beside those about folds, which take an operator each.
Numbers == INSTANCE Folding WITH Op <- LAMBDA c, value, x : value, Good <- LAMBDA c, value : TRUE

-----------------------------------------------------------------------------
(* The inductive invariant *)

\* What the source promises: stamps are past, what is hidden was hidden for
\* Overlap at most, ids are given in order.
SourceInv ==
    /\ \A n \in Ids : stamp[n] <= clock /\ shown[n] <= stamp[n]
    /\ strategy # "WallClock" => shown = stamp
    /\ \A n \in Ids : shown[n] # stamp[n] => clock <= stamp[n] + Overlap
    /\ \A m, n \in Ids : m < n /\ stamp[n] # 0 => stamp[m] # 0

\* Whoever still watches the key when it deletes it is its holder.
WatchInv == \A i \in Instances : pc[i] = "exec" /\ i \in watching => holder = i

Safe(n) == n \in Untransformable \/ InStream(n)

\* A cycle may start from this mark.
Good(mark) ==
    IF strategy = "MinId"
      THEN \A n \in Ids : n < mark => stamp[n] # 0 /\ Safe(n)
      ELSE mark <= clock /\ \A n \in Ids : stamp[n] # 0 /\ stamp[n] < DateOf(mark) => Safe(n)

\* Every mark anybody may start from, whoever has overtaken whom, is good.
MarksInv ==
    /\ Good(checkpoint)
    /\ \A i \in Instances : Good(memory[i]) /\ Good(cycle[i].stored)

\* Record n is on its way: listed or buffered by i, as it is now for CRZ and TED.
Held(i, n) ==
    \E r \in cycle[i].page \cup cycle[i].buffer :
        r.id = n /\ (strategy = "WallClock" => r.version >= stamp[n])

Kept(i, n) == Safe(n) \/ Held(i, n)

Begun(i) == cycle[i].position > 0 \/ cycle[i].ending

\* All that was modified well before the cycle started was listed by it.
WallClockCycle(i) ==
    Begun(i) =>
        \A n \in Ids : stamp[n] # 0 /\ stamp[n] + Overlap < cycle[i].started => Kept(i, n)

\* All that was modified before the newest modification it has seen was listed.
MaxModifiedCycle(i) ==
    /\ cycle[i].reached <= clock
    /\ \A r \in cycle[i].page : r.version <= clock
    /\ ~Begun(i) => cycle[i].page = {} /\ cycle[i].reached = 0
    /\ cycle[i].position > 0 => cycle[i].position >= PageSize
    /\ Begun(i) =>
          \A n \in Ids : stamp[n] # 0 =>
              \/ Kept(i, n)
              \/ cycle[i].reached <= stamp[n] /\ \A r \in cycle[i].page : r.version <= stamp[n]

\* All ids before the place in the listing exist and were listed.
MinIdCycle(i) ==
    /\ cycle[i].reached < cycle[i].position
    /\ \A r \in cycle[i].page : cycle[i].reached < r.id /\ r.id < cycle[i].position
    /\ \A q, r \in cycle[i].page : q.id = r.id => q = r
    /\ \A n \in Ids : n < cycle[i].position => stamp[n] # 0 /\ Kept(i, n)

\* The shape of a cycle at each label.
ShapeInv(i) ==
    /\ pc[i] = "load" => cycle[i].buffer = {} /\ cycle[i].page = {} /\ ~cycle[i].ending
    /\ pc[i] = "fetch" => Cardinality(cycle[i].buffer) < FlushBatch /\ ~cycle[i].ending
    /\ pc[i] = "save" => cycle[i].buffer = {}
    /\ cycle[i].ending => cycle[i].page = {}
    /\ cycle[i].started <= clock
    /\ pc[i] \notin {"load", "fetch", "flush", "save"} => cycle[i] = NoCycle

Working(i) == pc[i] \in {"fetch", "flush", "save"}

CycleInv(i) ==
    Working(i) =>
        /\ strategy # "MinId" => cycle[i].since = DateOf(cycle[i].stored)
        /\ strategy = "WallClock" => WallClockCycle(i)
        /\ strategy = "MaxModified" => MaxModifiedCycle(i)
        /\ strategy = "MinId" => MinIdCycle(i)

Types == TypeOK /\ \A i \in Instances : ShapeInv(i)

IInv == Types /\ SourceInv /\ WatchInv /\ MarksInv /\ \A i \in Instances : CycleInv(i)

-----------------------------------------------------------------------------
(* Days, pages, buffers *)

\* A day begins before its instants.
LEMMA DateFacts ==
    ASSUME NEW t \in Nat
    PROVE  DateOf(t) \in Nat /\ DateOf(t) <= t
<1>1. t % Day \in Nat /\ t % Day <= t
  BY ExtractorAssumption
<1> QED BY <1>1 DEF DateOf

\* There are finitely many versions.
LEMMA FiniteVersions == IsFiniteSet(Versions) /\ IsFiniteSet(Ids)
<1>1. IsFiniteSet(Ids) /\ IsFiniteSet(1..MaxClock)
  BY FS_Interval, ExtractorAssumption DEF Ids
<1>2. IsFiniteSet(Ids \X (1..MaxClock))
  BY <1>1, FS_Product
<1> DEFINE F == [p \in Ids \X (1..MaxClock) |-> [id |-> p[1], version |-> p[2]]]
<1>3. \A v \in Versions : \E p \in Ids \X (1..MaxClock) : F[p] = v
  <2> SUFFICES ASSUME NEW v \in Versions PROVE F[<<v.id, v.version>>] = v
    BY DEF Versions
  <2> QED BY DEF Versions
<1>4. F \in Surjection(Ids \X (1..MaxClock), Versions)
  BY <1>3 DEF Surjection, Versions
<1> QED BY <1>1, <1>2, <1>4, FS_Surjection

\* A buffer that is not full yet has room for one more.
LEMMA BufferGrows ==
    ASSUME NEW buffer \in SUBSET Versions, NEW r \in Versions
    PROVE  /\ Cardinality(buffer) \in Nat /\ Cardinality(buffer \cup {r}) \in Nat
           /\ Cardinality(buffer \cup {r}) <= Cardinality(buffer) + 1
<1>1. IsFiniteSet(buffer)
  BY FiniteVersions, FS_Subset
<1>2. Cardinality(buffer) \in Nat
  BY <1>1, FS_CardinalityType
<1>3. Cardinality(buffer \cup {r}) = IF r \in buffer THEN Cardinality(buffer)
                                                    ELSE Cardinality(buffer) + 1
  BY <1>1, FS_AddElement
<1> QED BY <1>2, <1>3

\* A page lists records as they are shown.
LEMMA PageFacts ==
    ASSUME TypeOK, NEW i \in Instances
    PROVE  /\ Page(i) \subseteq Versions
           /\ \A r \in Page(i) : r.id \in Listed(i) /\ r.version = shown[r.id]
<1>1. \A r \in Page(i) : \E n \in Listed(i) : r = [id |-> n, version |-> shown[n]]
  BY DEF Page
<1>2. \A n \in Listed(i) : n \in Ids /\ shown[n] \in 1..MaxClock
  BY ExtractorAssumption DEF Listed, TypeOK
<1> QED BY <1>1, <1>2 DEF Versions

\* The earliest record of a page is one of it.
LEMMA EarliestFacts ==
    ASSUME NEW page \in SUBSET Versions, page # {}
    PROVE  Earliest(page) \in page /\ \A r \in page : Earliest(page).id <= r.id
<1> DEFINE S == {r.id : r \in page}
<1>1. S \subseteq Nat /\ S # {}
  BY ExtractorAssumption DEF Versions, Ids
<1>2. PICK x \in S : \A y \in S : x <= y
  BY <1>1, Numbers!HasSmallest
<1>3. PICK e \in page : \A r \in page : e.id <= r.id
  BY <1>2
<1> QED BY <1>3 DEF Earliest

\* The next id is the one after the last on the page.
LEMMA NextIdFacts ==
    ASSUME TypeOK, NEW i \in Instances, strategy = "MinId", NEW page \in SUBSET Versions, page # {}
    PROVE  \E r \in page : NextPosition(i, page) = r.id + 1 /\ \A q \in page : q.id <= r.id
<1> DEFINE S == {r.id : r \in page}
<1>1. S \subseteq 1..Records /\ S # {}
  BY DEF Versions, Ids
<1>2. PICK x \in S : \A y \in S : y <= x
  BY <1>1, Numbers!HasGreatest, ExtractorAssumption
<1>3. PICK g \in page : \A q \in page : q.id <= g.id
  BY <1>2
<1>4. \A q \in page : q.id \in Nat
  BY <1>1
<1>5. g.id + 1 \in {r.id + 1 : r \in page} /\ \A q \in page : q.id < g.id + 1
  BY <1>3, <1>4
<1>6. /\ NextPosition(i, page) \in {r.id + 1 : r \in page}
      /\ \A q \in page : q.id < NextPosition(i, page)
  BY <1>5 DEF NextPosition
<1> QED BY <1>4, <1>6

-----------------------------------------------------------------------------
(* Types *)

\* The fields of a cycle.
LEMMA CycleFields ==
    ASSUME NEW c \in Cycles
    PROVE  /\ c.started \in 0..MaxClock /\ c.stored \in Nat /\ c.since \in Nat
           /\ c.position \in Nat /\ c.page \in SUBSET Versions /\ c.buffer \in SUBSET Versions
           /\ Cardinality(c.buffer) <= FlushBatch /\ c.reached \in Nat /\ c.ending \in BOOLEAN
BY DEF Cycles, Marks

\* A worker between two cycles has an empty one.
LEMMA NoCycleFacts == NoCycle \in Cycles /\ Cardinality(NoCycle.buffer) = 0
<1>1. Cardinality({}) = 0
  BY FS_EmptySet
<1> QED BY <1>1, ExtractorAssumption DEF NoCycle, Cycles, Marks

\* Where a cycle resumes, and the mark it leaves, are marks.
LEMMA MarkFacts ==
    ASSUME TypeOK, NEW i \in Instances
    PROVE  /\ Since(i) \in Nat /\ (strategy = "MinId" => Since(i) > 0)
           /\ StateToSave(i) \in Nat
<1>1. checkpoint \in Nat /\ memory[i] \in Nat /\ cycle[i] \in Cycles
  BY DEF TypeOK, Marks
<1>2. Since(i) \in Nat /\ (strategy = "MinId" => Since(i) > 0)
  BY <1>1, DateFacts DEF Since
<1>3. /\ cycle[i].started \in Nat /\ cycle[i].reached \in Nat /\ cycle[i].stored \in Nat
  BY <1>1, CycleFields, ExtractorAssumption
<1>4. strategy \in KnownStrategies
  BY ExtractorAssumption DEF TypeOK
<1>5. ResumePoint(i) \in Nat
  BY <1>3, <1>4, ExtractorAssumption DEF ResumePoint, KnownStrategies
<1> QED BY <1>2, <1>5 DEF StateToSave

\* What a flush adds is newer than what was there.
LEMMA AddedFacts ==
    ASSUME TypeOK, NEW versions \in SUBSET Versions, Added(versions)
    PROVE  /\ extracted' \in [Ids -> 0..MaxClock]
           /\ \A n \in Ids : extracted'[n] >= extracted[n]
           /\ \A r \in versions : extracted'[r.id] >= r.version
<1>1. extracted \in [Ids -> 0..MaxClock] /\ MaxClock \in Nat
  BY ExtractorAssumption DEF TypeOK
<1>2. \A r \in versions : r.id \in Ids /\ r.version \in 1..MaxClock
  BY DEF Versions
<1>3. ASSUME NEW n \in Ids
      PROVE  /\ extracted'[n] \in 0..MaxClock
             /\ extracted'[n] >= extracted[n]
             /\ \A r \in versions : r.id = n => extracted'[n] >= r.version
  <2> DEFINE ofn == {r \in versions : r.id = n}
             best(r) == r.id = n /\ \A q \in versions : q.id = n => q.version <= r.version
             S == {r.version : r \in ofn}
  <2>1. extracted'[n] = IF \E r \in versions : r.id = n /\ r.version > extracted[n]
                          THEN (CHOOSE r \in versions : best(r)).version ELSE extracted[n]
    BY DEF Added
  <2>2. CASE \E r \in versions : r.id = n /\ r.version > extracted[n]
    <3>1. S \subseteq 1..MaxClock /\ S # {}
      BY <1>2, <2>2
    <3>2. PICK x \in S : \A y \in S : y <= x
      BY <1>1, <3>1, Numbers!HasGreatest
    <3>3. \E r \in versions : best(r)
      BY <3>2
    <3>4. PICK r \in versions : best(r) /\ extracted'[n] = r.version
      BY <2>1, <2>2, <3>3
    <3>5. r.version \in 1..MaxClock /\ extracted[n] \in 0..MaxClock /\ r.version > extracted[n]
      BY <1>1, <1>2, <2>2, <3>4
    <3> QED BY <1>1, <3>4, <3>5
  <2>3. CASE ~ \E r \in versions : r.id = n /\ r.version > extracted[n]
    <3>1. extracted'[n] = extracted[n] /\ extracted[n] \in 0..MaxClock
      BY <1>1, <2>1, <2>3
    <3> QED BY <1>1, <1>2, <2>3, <3>1
  <2> QED BY <2>2, <2>3
<1>4. extracted' = [n \in Ids |-> extracted'[n]]
  BY DEF Added
<1> QED BY <1>2, <1>3, <1>4

\* The steps of the source.
LEMMA SourceTypeOK ==
    ASSUME Types, Source
    PROVE  TypeOK'
<1> USE ExtractorAssumption DEF Types, TypeOK
<1>1. UNCHANGED <<strategy, lockVars, checkpoint, extracted, pc, cycle, memory, faults>>
  BY DEF Source, Tick, Modify, Show
<1>2. LockTypeOK' /\ Cycles' = Cycles
  BY <1>1 DEF LockTypeOK, lockVars, Cycles, Versions, Ids, Marks
<1>3. clock' \in 1..MaxClock
  BY DEF Source, Tick, Modify, Show
<1>4. stamp' \in [Ids -> 0..MaxClock] /\ shown' \in [Ids -> 0..MaxClock]
  BY DEF Source, Tick, Modify, Show
<1> QED BY <1>1, <1>2, <1>3, <1>4

\* A step of a worker: its own label and cycle, a mark, what it added, the lock.
LEMMA WorkerTypeOK ==
    ASSUME Types, NEW i \in Instances, Step(i) \/ CycleFails(i) \/ Crash(i)
    PROVE  TypeOK'
<1> USE ExtractorAssumption
<1>1. cycle \in [Instances -> Cycles] /\ cycle[i] \in Cycles /\ NoCycle \in Cycles
  BY NoCycleFacts DEF Types, TypeOK
<1>2. UNCHANGED sourceVars
  BY DEF Step, Extract, Release, Acquire, LoadCheckpoint, FetchPage, TakeRecord, Flush,
         SaveCheckpoint, CycleFails, ReleaseWatch, ReleaseGet, ReleaseExec, Crash
<1>3. /\ strategy' \in Strategies /\ clock' \in 1..MaxClock
      /\ stamp' \in [Ids -> 0..MaxClock] /\ shown' \in [Ids -> 0..MaxClock]
  BY <1>2 DEF sourceVars, Types, TypeOK
<1>4. LockTypeOK'
  BY DEF Types, TypeOK, LockTypeOK, Step, Extract, Release, Acquire, LoadCheckpoint, FetchPage,
         TakeRecord, Flush, SaveCheckpoint, CycleFails, ReleaseWatch, ReleaseGet, ReleaseExec,
         DeleteKey, Crash, SET_NX, WATCH, UNWATCH, EXEC_DEL, ABANDON, lockVars
<1>5. pc' \in [Instances -> Labels]
  BY DEF Types, TypeOK, Labels, Goto, Step, Extract, Release, Acquire, LoadCheckpoint, FetchPage,
         TakeRecord, Flush, SaveCheckpoint, CycleFails, ReleaseWatch, ReleaseGet, ReleaseExec, Crash
<1>6. faults' \in 0..MaxFaults
  <2>1. Fault \/ UNCHANGED faults
    BY DEF NoFault, Step, Extract, Release, Acquire, LoadCheckpoint, FetchPage, TakeRecord, Flush,
           SaveCheckpoint, CycleFails, ReleaseWatch, ReleaseGet, ReleaseExec, Crash
  <2> QED BY <2>1 DEF Fault, Types, TypeOK
<1>7. checkpoint' \in Nat /\ memory' \in [Instances -> Nat]
  <2>1. CASE SaveCheckpoint(i)
    BY <2>1, MarkFacts DEF SaveCheckpoint, Types, TypeOK, Marks
  <2>2. CASE ~SaveCheckpoint(i)
    <3>1. checkpoint' = checkpoint
      BY <2>2 DEF Step, Extract, Release, Acquire, LoadCheckpoint, FetchPage, TakeRecord, Flush,
                  CycleFails, ReleaseWatch, ReleaseGet, ReleaseExec, Crash
    <3>2. memory' = memory \/ memory' = [memory EXCEPT ![i] = 0]
      BY <2>2 DEF Step, Extract, Release, Acquire, LoadCheckpoint, FetchPage, TakeRecord, Flush,
                  CycleFails, ReleaseWatch, ReleaseGet, ReleaseExec, Crash
    <3> QED BY <3>1, <3>2 DEF Types, TypeOK, Marks
  <2> QED BY <2>1, <2>2
<1>8. extracted' \in [Ids -> 0..MaxClock]
  <2>1. CASE Flush(i)
    <3>1. PICK versions \in SUBSET cycle[i].buffer : Added(versions)
      BY <2>1 DEF Flush
    <3>2. versions \in SUBSET Versions
      BY <1>1, <3>1, CycleFields
    <3> QED BY <3>1, <3>2, AddedFacts DEF Types
  <2>2. CASE ~Flush(i)
    <3>1. extracted' = extracted
      BY <2>2 DEF Step, Extract, Release, Acquire, LoadCheckpoint, FetchPage, TakeRecord,
                  SaveCheckpoint, CycleFails, ReleaseWatch, ReleaseGet, ReleaseExec, Crash
    <3> QED BY <3>1 DEF Types, TypeOK
  <2> QED BY <2>1, <2>2
<1>9. \E c \in Cycles : cycle' = [cycle EXCEPT ![i] = c]
  <2>1. CASE Acquire(i)
    <3>1. [NoCycle EXCEPT !.started = clock] \in Cycles
      BY <1>1 DEF Cycles, Types, TypeOK
    <3> QED BY <2>1, <3>1 DEF Acquire
  <2>2. CASE LoadCheckpoint(i)
    <3> DEFINE c == [cycle[i] EXCEPT !.stored = checkpoint,
                        !.since = Since(i),
                        !.position = IF strategy = "MinId" THEN Since(i) ELSE 0,
                        !.reached = IF strategy = "MinId" THEN Since(i) - 1 ELSE 0]
    <3>1. checkpoint \in Nat /\ Since(i) \in Nat /\ (strategy = "MinId" => Since(i) > 0)
      BY MarkFacts DEF Types, TypeOK, Marks
    <3> DEFINE position == IF strategy = "MinId" THEN Since(i) ELSE 0
               reached == IF strategy = "MinId" THEN Since(i) - 1 ELSE 0
    <3>2. position \in Nat /\ reached \in Nat
      BY <3>1
    <3>3. c = [cycle[i] EXCEPT !.stored = checkpoint, !.since = Since(i),
                               !.position = position, !.reached = reached]
      OBVIOUS
    <3> HIDE DEF c, position, reached
    <3>4. c \in Cycles
      BY <1>1, <3>1, <3>2, <3>3 DEF Cycles, Marks
    <3> QED BY <2>2, <3>4 DEF LoadCheckpoint, c
  <2>3. CASE FetchPage(i)
    <3>1. CASE Page(i) = {}
      <4>1. [cycle[i] EXCEPT !.ending = TRUE] \in Cycles
        BY <1>1 DEF Cycles
      <4> QED BY <1>1, <2>3, <3>1, <4>1 DEF FetchPage
    <3>2. CASE Page(i) # {}
      <4> DEFINE c == [cycle[i] EXCEPT !.page = Page(i), !.position = NextPosition(i, Page(i))]
      <4>1. Page(i) \in SUBSET Versions
        BY PageFacts DEF Types
      <4>2. NextPosition(i, Page(i)) \in Nat
        <5>1. CASE strategy = "MinId"
          <6>1. PICK r \in Page(i) : NextPosition(i, Page(i)) = r.id + 1
            BY <3>2, <4>1, <5>1, NextIdFacts DEF Types
          <6>2. r.id \in Nat
            BY <4>1 DEF Versions, Ids
          <6> QED BY <6>1, <6>2
        <5>2. CASE strategy # "MinId"
          BY <1>1, <5>2, CycleFields DEF NextPosition
        <5> QED BY <5>1, <5>2
      <4>3. c \in Cycles
        BY <1>1, <4>1, <4>2 DEF Cycles
      <4> QED BY <2>3, <3>2, <4>3 DEF FetchPage
    <3> QED BY <3>1, <3>2
  <2>4. CASE TakeRecord(i)
    <3> DEFINE r == Earliest(cycle[i].page)
               buffer == IF r.id \in Untransformable THEN cycle[i].buffer
                                                     ELSE cycle[i].buffer \cup {r}
               c == [cycle[i] EXCEPT !.page = cycle[i].page \ {r},
                                     !.buffer = buffer, !.reached = Reached(i, r)]
    <3>1. /\ cycle[i].page \in SUBSET Versions /\ cycle[i].page # {}
          /\ cycle[i].buffer \in SUBSET Versions /\ cycle[i].reached \in Nat
      BY <1>1, <2>4, CycleFields DEF TakeRecord
    <3>2. r \in Versions /\ r.id \in Nat /\ r.version \in Nat
      BY <3>1, EarliestFacts DEF Versions, Ids
    <3>3. Cardinality(cycle[i].buffer) < FlushBatch
      BY <2>4 DEF TakeRecord, Types, ShapeInv
    <3>4. buffer \in SUBSET Versions /\ Cardinality(buffer) <= FlushBatch
      BY <3>1, <3>2, <3>3, BufferGrows
    <3>5. Reached(i, r) \in Nat
      <4>1. strategy \in KnownStrategies
        BY DEF Types, TypeOK
      <4> QED BY <3>1, <3>2, <4>1 DEF Reached, Greater, KnownStrategies
    <3>6. c \in Cycles
      BY <1>1, <3>1, <3>4, <3>5 DEF Cycles, Marks
    <3> QED BY <2>4, <3>6 DEF TakeRecord
  <2>5. CASE Flush(i)
    <3>1. [cycle[i] EXCEPT !.buffer = {}] \in Cycles
      <4>1. Cardinality({}) = 0
        BY FS_EmptySet
      <4> QED BY <1>1, <4>1 DEF Cycles
    <3> QED BY <1>1, <2>5, <3>1 DEF Flush
  <2>6. CASE SaveCheckpoint(i) \/ CycleFails(i) \/ Crash(i) \/ Release(i)
    <3>1. cycle' = [cycle EXCEPT ![i] = NoCycle] \/ cycle' = cycle
      BY <2>6 DEF SaveCheckpoint, CycleFails, Crash, Release, ReleaseWatch, ReleaseGet, ReleaseExec
    <3>2. cycle = [cycle EXCEPT ![i] = cycle[i]]
      BY <1>1
    <3> QED BY <1>1, <3>1, <3>2
  <2> QED BY <2>1, <2>2, <2>3, <2>4, <2>5, <2>6 DEF Step, Extract
<1>10. cycle' \in [Instances -> Cycles]
  BY <1>1, <1>9
<1>11. Cycles' = Cycles
  BY DEF Cycles, Versions, Ids, Marks
<1> QED BY <1>3, <1>4, <1>5, <1>6, <1>7, <1>8, <1>10, <1>11 DEF TypeOK, Marks

\* Every step keeps the types.
LEMMA NextTypeOK ==
    ASSUME Types, [Next]_vars
    PROVE  TypeOK'
<1>1. CASE LockExpires
  BY <1>1 DEF LockExpires, EXPIRE, sourceVars, Types, TypeOK, LockTypeOK
<1>2. CASE UNCHANGED vars
  BY <1>2 DEF vars, Types, TypeOK, LockTypeOK
<1> QED BY <1>1, <1>2, SourceTypeOK, WorkerTypeOK DEF Next

\* The steps of worker i leave the others' labels and cycles alone.
LEMMA OthersStay ==
    ASSUME Types, NEW i \in Instances, Step(i) \/ CycleFails(i) \/ Crash(i),
           NEW j \in Instances, j # i
    PROVE  cycle'[j] = cycle[j] /\ pc'[j] = pc[j]
<1> USE DEF Types, TypeOK
<1>1. cycle' = cycle \/ \E c : cycle' = [cycle EXCEPT ![i] = c]
  BY DEF Step, Extract, Release, Acquire, LoadCheckpoint, FetchPage, TakeRecord, Flush,
         SaveCheckpoint, CycleFails, ReleaseWatch, ReleaseGet, ReleaseExec, Crash
<1>2. pc' = pc \/ \E label : pc' = [pc EXCEPT ![i] = label]
  BY DEF Goto, Step, Extract, Release, Acquire, LoadCheckpoint, FetchPage, TakeRecord, Flush,
         SaveCheckpoint, CycleFails, ReleaseWatch, ReleaseGet, ReleaseExec, Crash
<1> QED BY <1>1, <1>2

\* A worker's step ends in a cycle of the shape of its new label.
LEMMA OwnShapeInv ==
    ASSUME Types, NEW i \in Instances, Step(i) \/ CycleFails(i) \/ Crash(i)
    PROVE  ShapeInv(i)'
<1> USE DEF ShapeInv
<1>1. /\ cycle \in [Instances -> Cycles] /\ cycle[i] \in Cycles /\ pc \in [Instances -> Labels]
      /\ ShapeInv(i) /\ clock' = clock /\ clock \in Nat
  BY ExtractorAssumption
  DEF Types, TypeOK, Step, Extract, Release, Acquire, LoadCheckpoint, FetchPage, TakeRecord, Flush,
      SaveCheckpoint, CycleFails, ReleaseWatch, ReleaseGet, ReleaseExec, Crash, sourceVars
<1>2. NoCycle.buffer = {} /\ NoCycle.page = {} /\ ~NoCycle.ending /\ NoCycle.started = 0
  BY DEF NoCycle
<1>3. CASE Acquire(i)
  <2>1. /\ pc'[i] = "load"
        /\ cycle'[i] = [NoCycle EXCEPT !.started = clock]
    BY <1>1, <1>3 DEF Acquire, Goto
  <2> QED BY <1>1, <2>1 DEF NoCycle
<1>4. CASE LoadCheckpoint(i)
  <2>1. /\ pc[i] = "load" /\ pc'[i] = "fetch"
        /\ cycle'[i].buffer = cycle[i].buffer /\ cycle'[i].page = cycle[i].page
        /\ cycle'[i].ending = cycle[i].ending /\ cycle'[i].started = cycle[i].started
    BY <1>1, <1>4 DEF LoadCheckpoint, Goto, Cycles
  <2>2. Cardinality({}) = 0
    BY FS_EmptySet
  <2> QED BY <1>1, <2>1, <2>2, ExtractorAssumption
<1>5. CASE FetchPage(i)
  <2>1. CASE Page(i) = {}
    <3>1. /\ pc'[i] = "flush" /\ cycle[i].page = {}
          /\ cycle'[i].page = cycle[i].page /\ cycle'[i].started = cycle[i].started
      BY <1>1, <1>5, <2>1 DEF FetchPage, Goto, Cycles
    <3> QED BY <1>1, <3>1
  <2>2. CASE Page(i) # {}
    <3>1. /\ pc'[i] = "fetch" /\ pc[i] = "fetch" /\ cycle'[i].buffer = cycle[i].buffer
          /\ cycle'[i].ending = cycle[i].ending /\ cycle'[i].started = cycle[i].started
      <4>1. pc' = pc /\ pc[i] = "fetch" /\ \E page, position :
                cycle' = [cycle EXCEPT ![i] =
                             [cycle[i] EXCEPT !.page = page, !.position = position]]
        BY <1>5, <2>2 DEF FetchPage
      <4> QED BY <1>1, <4>1 DEF Cycles
    <3> QED BY <1>1, <3>1
  <2> QED BY <2>1, <2>2
<1>6. CASE TakeRecord(i)
  <2> DEFINE r == Earliest(cycle[i].page)
             buffer == IF r.id \in Untransformable THEN cycle[i].buffer
                                                   ELSE cycle[i].buffer \cup {r}
  <2>1. /\ pc[i] = "fetch" /\ cycle[i].page # {}
        /\ pc'[i] = IF Full(buffer) THEN "flush" ELSE "fetch"
        /\ cycle'[i].buffer = buffer /\ cycle'[i].ending = cycle[i].ending
        /\ cycle'[i].started = cycle[i].started
    BY <1>1, <1>6 DEF TakeRecord, Goto, Cycles
  <2>2. Cardinality(buffer) \in Nat
    <3>1. r \in Versions /\ cycle[i].buffer \in SUBSET Versions
      BY <1>1, <2>1, CycleFields, EarliestFacts
    <3> QED BY <3>1, BufferGrows
  <2> HIDE DEF buffer
  <2> QED BY <1>1, <2>1, <2>2, ExtractorAssumption DEF Full
<1>7. CASE Flush(i)
  <2>1. \/ /\ pc'[i] = "save" /\ cycle'[i].buffer = {} /\ cycle'[i].page = cycle[i].page
           /\ cycle'[i].ending = cycle[i].ending /\ cycle'[i].started = cycle[i].started
        \/ pc'[i] = "release" /\ cycle'[i] = NoCycle
    BY <1>1, <1>7 DEF Flush, Goto, Cycles
  <2> QED BY <1>1, <1>2, <2>1
<1>8. CASE SaveCheckpoint(i)
  <2>1. \/ pc[i] = "save" /\ pc'[i] = "fetch" /\ cycle'[i] = cycle[i] /\ ~cycle[i].ending
        \/ pc'[i] = "release" /\ cycle'[i] = NoCycle
    BY <1>1, <1>8 DEF SaveCheckpoint, Goto
  <2>2. Cardinality({}) = 0
    BY FS_EmptySet
  <2> QED BY <1>1, <1>2, <2>1, <2>2, ExtractorAssumption
<1>9. CASE CycleFails(i) \/ Crash(i)
  <2>1. pc'[i] \in {"release", "idle"} /\ cycle'[i] = NoCycle
    BY <1>1, <1>9 DEF CycleFails, Crash, Goto
  <2> QED BY <1>1, <1>2, <2>1
<1>10. CASE Release(i)
  <2>1. /\ pc[i] \in {"release", "get", "exec"} /\ pc'[i] \in {"get", "exec", "idle"}
        /\ cycle' = cycle
    BY <1>1, <1>10 DEF Release, ReleaseWatch, ReleaseGet, ReleaseExec, Goto
  <2> QED BY <1>1, <1>2, <2>1
<1> QED BY <1>3, <1>4, <1>5, <1>6, <1>7, <1>8, <1>9, <1>10 DEF Step, Extract

\* Every step keeps the types and the shapes.
LEMMA NextTypes ==
    ASSUME Types, [Next]_vars
    PROVE  Types'
<1>1. TypeOK'
  BY NextTypeOK
<1>2. ASSUME NEW i \in Instances, Step(i) \/ CycleFails(i) \/ Crash(i), NEW j \in Instances
      PROVE  ShapeInv(j)'
  <2>1. CASE j = i
    BY <1>2, <2>1, OwnShapeInv
  <2>2. CASE j # i
    <3>1. clock' = clock
      BY <1>2 DEF Step, Extract, Release, Acquire, LoadCheckpoint, FetchPage, TakeRecord, Flush,
                  SaveCheckpoint, CycleFails, ReleaseWatch, ReleaseGet, ReleaseExec, Crash, sourceVars
    <3> QED BY <1>2, <2>2, <3>1, OthersStay DEF Types, ShapeInv
  <2> QED BY <2>1, <2>2
<1>3. ASSUME Source \/ LockExpires \/ UNCHANGED vars, NEW j \in Instances
      PROVE  ShapeInv(j)'
  <2>1. UNCHANGED <<pc, cycle>> /\ (clock' = clock \/ clock' = clock + 1)
    BY <1>3 DEF Source, Tick, Modify, Show, LockExpires, sourceVars, vars
  <2>2. clock \in Nat /\ cycle[j].started \in Nat
    BY CycleFields, ExtractorAssumption DEF Types, TypeOK
  <2> QED BY <2>1, <2>2 DEF Types, ShapeInv
<1> QED BY <1>1, <1>2, <1>3 DEF Next, Types

-----------------------------------------------------------------------------
(* The lock *)

\* A change of the key ends every watch on it.
LEMMA NextWatchInv ==
    ASSUME Types, WatchInv, [Next]_vars
    PROVE  WatchInv'
<1> USE DEF WatchInv, Types, TypeOK, Labels
<1>1. ASSUME NEW i \in Instances, Acquire(i) PROVE WatchInv'
  BY <1>1 DEF Acquire, SET_NX
<1>2. ASSUME NEW i \in Instances, Extract(i) \/ CycleFails(i) PROVE WatchInv'
  <2>1. UNCHANGED lockVars /\ \E label \in Labels \ {"exec"} : Goto(i, label) \/ UNCHANGED pc
    BY <1>2 DEF Extract, LoadCheckpoint, FetchPage, TakeRecord, Flush, SaveCheckpoint, CycleFails
  <2> QED BY <2>1 DEF Goto, lockVars
<1>3. ASSUME NEW i \in Instances, ReleaseWatch(i) PROVE WatchInv'
  BY <1>3 DEF ReleaseWatch, WATCH, Goto
<1>4. ASSUME NEW i \in Instances, ReleaseGet(i) PROVE WatchInv'
  BY <1>4 DEF ReleaseGet, UNWATCH, Goto, lockVars
<1>5. ASSUME NEW i \in Instances, ReleaseExec(i) PROVE WatchInv'
  BY <1>5 DEF ReleaseExec, DeleteKey, EXEC_DEL, Goto, lockVars
<1>6. ASSUME NEW i \in Instances, Crash(i) PROVE WatchInv'
  BY <1>6 DEF Crash, ABANDON, Goto
<1>7. CASE LockExpires
  BY <1>7 DEF LockExpires, EXPIRE
<1>8. CASE Source \/ UNCHANGED vars
  BY <1>8 DEF Source, Tick, Modify, Show, vars, lockVars
<1> QED BY <1>1, <1>2, <1>3, <1>4, <1>5, <1>6, <1>7, <1>8 DEF Next, Step, Release

\* At first nobody works.
LEMMA InitTypes == Init => Types /\ WatchInv
<1> SUFFICES ASSUME Init PROVE Types /\ WatchInv
  OBVIOUS
<1>1. NoCycle \in Cycles
  BY NoCycleFacts
<1>2. TypeOK
  BY <1>1, ExtractorAssumption DEF Init, LockInit, TypeOK, LockTypeOK, Marks, Labels
<1>3. \A i \in Instances : ShapeInv(i)
  <2>1. NoCycle.page = {} /\ NoCycle.started = 0
    BY DEF NoCycle
  <2>2. ASSUME NEW i \in Instances PROVE ShapeInv(i)
    <3>1. pc[i] = "idle" /\ cycle[i] = NoCycle /\ clock = 1
      BY DEF Init
    <3>2. cycle[i].page = {} /\ cycle[i].started <= clock
      BY <2>1, <3>1
    <3> QED BY <3>1, <3>2 DEF ShapeInv
  <2> QED BY <2>2
<1>4. WatchInv
  BY DEF Init, WatchInv
<1> QED BY <1>2, <1>3, <1>4 DEF Types

\* Types and watches hold throughout.
LEMMA TypesInvariant == Spec => [](Types /\ WatchInv)
<1>1. Types /\ WatchInv /\ [Next]_vars => Types' /\ WatchInv'
  BY NextTypes, NextWatchInv
<1> QED BY <1>1, InitTypes, PTL DEF Spec

\* Every variable keeps its type, and no buffer outgrows a flush.
THEOREM TypeCorrect == Spec => []TypeOK
<1>1. Types => TypeOK
  BY DEF Types
<1> QED BY <1>1, TypesInvariant, PTL

\* release_lock deletes no lock but its own, whatever happens between its commands.
THEOREM ReleasesOwnLock == Spec => ReleaseOwnOnly
<1> DEFINE A == \A i \in Instances :
                    pc[i] = "exec" /\ pc'[i] = "idle" /\ holder # i => holder' = holder
<1>1. ASSUME Types, WatchInv, Next PROVE A
  <2>1. ASSUME NEW j \in Instances, NEW i \in Instances,
               Step(j) \/ CycleFails(j) \/ Crash(j), i # j
        PROVE  pc'[i] = pc[i]
    BY <1>1, <2>1, OthersStay
  <2>2. ASSUME NEW i \in Instances, pc[i] = "exec", holder # i,
               Step(i) \/ CycleFails(i) \/ Crash(i)
        PROVE  holder' = holder
    <3>1. ReleaseExec(i) \/ Crash(i)
      BY <2>2 DEF Step, Extract, Release, Acquire, LoadCheckpoint, FetchPage, TakeRecord, Flush,
                  SaveCheckpoint, CycleFails, ReleaseWatch, ReleaseGet
    <3>2. i \notin watching
      BY <1>1, <2>2 DEF WatchInv
    <3> QED BY <2>2, <3>1, <3>2 DEF ReleaseExec, DeleteKey, EXEC_DEL, Crash, ABANDON, lockVars
  <2>3. ASSUME Source \/ LockExpires, NEW i \in Instances PROVE pc'[i] = pc[i]
    BY <2>3 DEF Source, Tick, Modify, Show, LockExpires
  <2> QED BY <1>1, <2>1, <2>2, <2>3 DEF Next
<1>2. Types /\ WatchInv /\ [Next]_vars => [A]_vars
  BY <1>1
<1> QED BY <1>2, TypesInvariant, PTL DEF Spec, ReleaseOwnOnly

-----------------------------------------------------------------------------
(* The source, and what is monotone *)

\* The source steps, or stays as it is.
LEMMA SourceStays ==
    ASSUME [Next]_vars
    PROVE  Source \/ UNCHANGED sourceVars
BY DEF Next, Source, Step, Extract, Release, Acquire, LoadCheckpoint, FetchPage, TakeRecord, Flush,
       SaveCheckpoint, CycleFails, ReleaseWatch, ReleaseGet, ReleaseExec, Crash, LockExpires, vars,
       sourceVars

\* The source keeps its promises.
LEMMA NextSourceInv ==
    ASSUME TypeOK, SourceInv, [Next]_vars
    PROVE  SourceInv'
<1>1. /\ clock \in Nat /\ clock > 0 /\ Overlap \in Nat /\ Ids \subseteq Nat
      /\ \A n \in Ids : stamp[n] \in Nat /\ shown[n] \in Nat
  BY ExtractorAssumption DEF TypeOK, Ids
<1>2. /\ \A n \in Ids : stamp[n] <= clock /\ shown[n] <= stamp[n]
      /\ \A n \in Ids : shown[n] # stamp[n] => clock <= stamp[n] + Overlap
      /\ \A m, n \in Ids : m < n /\ stamp[n] # 0 => stamp[m] # 0
      /\ strategy # "WallClock" => shown = stamp
  BY DEF SourceInv
<1>3. ASSUME Tick PROVE SourceInv'
  <2>1. UNCHANGED <<strategy, stamp, shown>> /\ clock' = clock + 1
    BY <1>3 DEF Tick
  <2>2. \A n \in Ids : stamp'[n] <= clock' /\ shown'[n] <= stamp'[n]
    BY <1>1, <1>2, <2>1
  <2>3. \A n \in Ids : shown[n] # stamp[n] => clock < stamp[n] + Overlap
    BY <1>3 DEF Tick
  <2>4. \A n \in Ids : shown'[n] # stamp'[n] => clock' <= stamp'[n] + Overlap
    BY <1>1, <2>1, <2>3
  <2>5. (\A m, n \in Ids : m < n /\ stamp[n] # 0 => stamp[m] # 0)'
    BY <1>2, <2>1
  <2> QED BY <1>2, <2>1, <2>2, <2>4, <2>5 DEF SourceInv
<1>4. ASSUME NEW n \in Ids, Modify(n) PROVE SourceInv'
  <2>1. /\ UNCHANGED <<strategy, clock>>
        /\ stamp'[n] = clock /\ \A m \in Ids : m # n => stamp'[m] = stamp[m]
    BY <1>4 DEF Modify, TypeOK
  <2>2. /\ shown'[n] \in {shown[n], clock} /\ \A m \in Ids : m # n => shown'[m] = shown[m]
    BY <1>4 DEF Modify, TypeOK
  <2>3. \A m \in Ids : stamp'[m] <= clock' /\ shown'[m] <= stamp'[m]
    <3>1. shown[n] <= clock
      BY <1>1, <1>2
    <3> QED BY <1>1, <1>2, <2>1, <2>2, <3>1
  <2>4. \A m \in Ids : shown'[m] # stamp'[m] => clock' <= stamp'[m] + Overlap
    BY <1>1, <1>2, <2>1, <2>2
  <2>5. \A m \in Ids : m < n => stamp[m] # 0
    BY <1>4 DEF Modify
  <2>6. ASSUME NEW m \in Ids, NEW k \in Ids, m < k, stamp'[k] # 0 PROVE stamp'[m] # 0
    <3>1. CASE m = n
      BY <1>1, <2>1, <3>1
    <3>2. CASE m # n /\ k = n
      BY <2>1, <2>5, <2>6, <3>2
    <3>3. CASE m # n /\ k # n
      BY <1>2, <2>1, <2>6, <3>3
    <3> QED BY <3>1, <3>2, <3>3
  <2>7. ASSUME strategy # "WallClock" PROVE shown' = stamp'
    BY <1>2, <1>4, <2>7 DEF Modify
  <2> QED BY <2>1, <2>3, <2>4, <2>6, <2>7 DEF SourceInv, Ids
<1>5. ASSUME NEW n \in Ids, Show(n) PROVE SourceInv'
  <2>1. /\ UNCHANGED <<strategy, clock, stamp>> /\ strategy = "WallClock"
        /\ shown'[n] = stamp[n] /\ \A m \in Ids : m # n => shown'[m] = shown[m]
    BY <1>2, <1>5 DEF Show, TypeOK
  <2>2. \A m \in Ids : stamp'[m] <= clock' /\ shown'[m] <= stamp'[m]
    BY <1>1, <1>2, <2>1
  <2>3. \A m \in Ids : shown'[m] # stamp'[m] => clock' <= stamp'[m] + Overlap
    BY <1>2, <2>1
  <2>4. (\A m, k \in Ids : m < k /\ stamp[k] # 0 => stamp[m] # 0)'
    BY <1>2, <2>1
  <2> QED BY <2>1, <2>2, <2>3, <2>4 DEF SourceInv
<1>6. ASSUME UNCHANGED sourceVars PROVE SourceInv'
  BY <1>6 DEF sourceVars, SourceInv
<1> QED BY <1>3, <1>4, <1>5, <1>6, SourceStays DEF Source

\* Time goes on, a modification is stamped with it, and nothing leaves the stream.
LEMMA Monotone ==
    ASSUME Types, [Next]_vars
    PROVE  /\ strategy' = strategy
           /\ clock \in Nat /\ clock > 0 /\ clock' \in Nat /\ clock <= clock'
           /\ \A n \in Ids : /\ stamp[n] \in Nat /\ stamp'[n] \in {stamp[n], clock}
                             /\ extracted[n] \in Nat /\ extracted'[n] \in Nat
                             /\ extracted[n] <= extracted'[n]
<1> USE ExtractorAssumption
<1>1. strategy' = strategy
  BY SourceStays DEF Source, Tick, Modify, Show, sourceVars
<1>2. clock \in Nat /\ clock > 0 /\ clock' \in Nat /\ clock <= clock'
  BY SourceStays DEF Source, Tick, Modify, Show, sourceVars, Types, TypeOK
<1>3. \A n \in Ids : stamp[n] \in Nat /\ stamp'[n] \in {stamp[n], clock}
  BY SourceStays DEF Source, Tick, Modify, Show, sourceVars, Types, TypeOK
<1>4. \A n \in Ids : extracted[n] \in Nat /\ extracted'[n] \in Nat
  <2>1. extracted' \in [Ids -> 0..MaxClock]
    BY NextTypeOK DEF TypeOK
  <2> QED BY <2>1 DEF Types, TypeOK
<1>5. ASSUME NEW n \in Ids PROVE extracted[n] <= extracted'[n]
  <2>1. CASE \E i \in Instances : Flush(i)
    <3>1. PICK i \in Instances : Flush(i)
      BY <2>1
    <3>2. PICK versions \in SUBSET cycle[i].buffer : Added(versions)
      BY <3>1 DEF Flush
    <3>3. versions \in SUBSET Versions
      BY <3>2, CycleFields DEF Types, TypeOK
    <3> QED BY <1>4, <3>2, <3>3, AddedFacts DEF Types
  <2>2. CASE ~ \E i \in Instances : Flush(i)
    <3>1. extracted' = extracted
      BY <2>2 DEF Next, Source, Tick, Modify, Show, Step, Extract, Release, Acquire, LoadCheckpoint,
         FetchPage, TakeRecord, SaveCheckpoint, CycleFails, ReleaseWatch, ReleaseGet, ReleaseExec,
         Crash, LockExpires, vars
    <3> QED BY <1>4, <3>1
  <2> QED BY <2>1, <2>2
<1> QED BY <1>1, <1>2, <1>3, <1>4, <1>5

\* What is in the stream stays there; only for CRZ and TED a change is to follow.
LEMMA SafeStays ==
    ASSUME Types, [Next]_vars, NEW n \in Ids, Safe(n), strategy = "WallClock" => stamp'[n] = stamp[n]
    PROVE  Safe(n)'
BY Monotone DEF Safe, InStream

\* A mark from which a cycle may start stays one.
LEMMA GoodStays ==
    ASSUME Types, [Next]_vars, NEW mark \in Nat, Good(mark)
    PROVE  Good(mark)'
<1>1. strategy' = strategy
  BY Monotone
<1>2. CASE strategy = "MinId"
  <2>1. ASSUME NEW n \in Ids, n < mark PROVE stamp'[n] # 0 /\ Safe(n)'
    <3>1. stamp[n] # 0 /\ Safe(n)
      BY <1>2, <2>1 DEF Good
    <3> QED BY <1>2, <3>1, Monotone, SafeStays
  <2> QED BY <1>1, <1>2, <2>1 DEF Good
<1>3. CASE strategy # "MinId"
  <2>1. mark <= clock'
    BY <1>3, Monotone DEF Good
  <2>2. DateOf(mark) \in Nat /\ DateOf(mark) <= clock
    BY <1>3, Monotone, DateFacts DEF Good
  <2>3. ASSUME NEW n \in Ids, stamp'[n] # 0, stamp'[n] < DateOf(mark) PROVE Safe(n)'
    <3>1. stamp'[n] = stamp[n]
      BY <2>2, <2>3, Monotone
    <3>2. Safe(n)
      BY <1>3, <2>3, <3>1 DEF Good
    <3> QED BY <3>1, <3>2, SafeStays
  <2> QED BY <1>1, <1>3, <2>1, <2>3 DEF Good, DateOf
<1> QED BY <1>2, <1>3

\* No mark at all is one from which a cycle may start.
LEMMA GoodZero ==
    ASSUME Types
    PROVE  Good(0)
<1>1. DateOf(0) = 0
  BY DateFacts
<1>2. clock \in Nat /\ \A n \in Ids : stamp[n] \in Nat
  BY ExtractorAssumption DEF Types, TypeOK
<1> QED BY <1>1, <1>2 DEF Good, Ids

-----------------------------------------------------------------------------
(* A cycle, while others step *)

\* What i keeps it keeps, unless the record changes and its strategy is to see that.
LEMMA KeptStays ==
    ASSUME Types, [Next]_vars, NEW i \in Instances, NEW n \in Ids, Kept(i, n),
           cycle'[i].page = cycle[i].page, cycle'[i].buffer = cycle[i].buffer,
           strategy = "WallClock" => stamp'[n] = stamp[n]
    PROVE  Kept(i, n)'
<1>1. CASE Safe(n)
  BY <1>1, SafeStays DEF Kept
<1>2. CASE Held(i, n)
  <2>1. strategy' = strategy
    BY Monotone
  <2> QED BY <1>2, <2>1 DEF Kept, Held
<1> QED BY <1>1, <1>2 DEF Kept

\* Whatever others do, a cycle that does not move keeps what it has.
LEMMA CycleStays ==
    ASSUME Types, [Next]_vars, NEW i \in Instances, Working(i), CycleInv(i), cycle'[i] = cycle[i]
    PROVE  CycleInv(i)'
<1>1. strategy' = strategy /\ clock \in Nat /\ clock' \in Nat /\ clock <= clock'
  BY Monotone
<1>2. \A n \in Ids : stamp[n] \in Nat /\ stamp'[n] \in {stamp[n], clock} /\ clock > 0
  BY Monotone
<1>3. /\ cycle[i].started \in Nat /\ cycle[i].reached \in Nat /\ cycle[i].page \in SUBSET Versions
      /\ cycle[i].started <= clock
  BY CycleFields, ExtractorAssumption DEF Types, TypeOK, ShapeInv
<1>4. \A r \in cycle[i].page : r.version \in Nat
  BY <1>3 DEF Versions
<1>5. Begun(i)' = Begun(i)
  BY DEF Begun
<1>6. ASSUME strategy # "MinId" PROVE cycle'[i].since = DateOf(cycle'[i].stored)
  BY <1>6 DEF CycleInv
<1>7. ASSUME strategy = "WallClock" PROVE WallClockCycle(i)'
  <2> SUFFICES ASSUME Begun(i), NEW n \in Ids, stamp'[n] # 0, stamp'[n] + Overlap < cycle[i].started
               PROVE  Kept(i, n)'
    BY <1>5 DEF WallClockCycle
  <2>1. stamp'[n] = stamp[n]
    BY <1>1, <1>2, <1>3, ExtractorAssumption
  <2>2. Kept(i, n)
    BY <1>7, <2>1 DEF CycleInv, WallClockCycle
  <2> QED BY <2>1, <2>2, KeptStays
<1>8. ASSUME strategy = "MaxModified" PROVE MaxModifiedCycle(i)'
  <2>1. MaxModifiedCycle(i)
    BY <1>8 DEF CycleInv
  <2>2. cycle[i].reached <= clock /\ \A r \in cycle[i].page : r.version <= clock
    BY <2>1 DEF MaxModifiedCycle
  <2>3. cycle'[i].reached <= clock' /\ \A r \in cycle'[i].page : r.version <= clock'
    BY <1>1, <1>3, <1>4, <2>2
  <2>4. ASSUME Begun(i), NEW n \in Ids, stamp'[n] # 0
        PROVE  \/ Kept(i, n)'
               \/ cycle[i].reached <= stamp'[n] /\ \A r \in cycle[i].page : r.version <= stamp'[n]
    <3>1. CASE stamp'[n] = clock
      BY <2>2, <3>1
    <3>2. CASE stamp'[n] = stamp[n]
      <4>1. CASE Kept(i, n)
        BY <1>8, <4>1, KeptStays
      <4>2. CASE ~Kept(i, n)
        BY <2>1, <2>4, <3>2, <4>2 DEF MaxModifiedCycle
      <4> QED BY <4>1, <4>2
    <3> QED BY <1>2, <3>1, <3>2
  <2> QED BY <1>5, <2>1, <2>3, <2>4 DEF MaxModifiedCycle
<1>9. ASSUME strategy = "MinId" PROVE MinIdCycle(i)'
  <2>1. MinIdCycle(i)
    BY <1>9 DEF CycleInv
  <2>2. ASSUME NEW n \in Ids, n < cycle[i].position PROVE stamp'[n] # 0 /\ Kept(i, n)'
    <3>1. stamp[n] # 0 /\ Kept(i, n)
      BY <2>1, <2>2 DEF MinIdCycle
    <3> QED BY <1>2, <1>9, <3>1, KeptStays
  <2> QED BY <2>1, <2>2 DEF MinIdCycle
<1> QED BY <1>1, <1>6, <1>7, <1>8, <1>9 DEF CycleInv, DateOf

-----------------------------------------------------------------------------
(* A cycle, one step of its own at a time *)

\* A MaxModified listing fits into one page; MaxModifiedCheckpoint with OFFSET
\* pages loses records otherwise.
OnePage == "MaxModified" \in Strategies => Records <= PageSize

\* The steps between a fetch and a save leave the source and the stream alone.
LEMMA QuietSteps ==
    ASSUME Types, NEW i \in Instances, LoadCheckpoint(i) \/ FetchPage(i) \/ TakeRecord(i)
    PROVE  /\ UNCHANGED <<strategy, clock, stamp, shown, extracted>>
           /\ \A n \in Ids : Safe(n) => Safe(n)'
<1>1. UNCHANGED <<strategy, clock, stamp, shown, extracted>>
  BY DEF LoadCheckpoint, FetchPage, TakeRecord, sourceVars
<1> QED BY <1>1 DEF Safe, InStream

\* A cycle resumes from a mark all of whose predecessors are safe.
LEMMA LoadCycle ==
    ASSUME IInv, NEW i \in Instances, LoadCheckpoint(i)
    PROVE  CycleInv(i)'
<1>1. cycle \in [Instances -> Cycles] /\ cycle[i] \in Cycles /\ checkpoint \in Nat
      /\ memory[i] \in Nat /\ clock \in Nat /\ clock > 0
  BY ExtractorAssumption DEF IInv, Types, TypeOK, Marks
<1>2. cycle[i].buffer = {} /\ cycle[i].page = {} /\ ~cycle[i].ending
  BY DEF IInv, Types, ShapeInv, LoadCheckpoint
<1>3. UNCHANGED <<strategy, clock, stamp, shown, extracted>> /\ \A n \in Ids : Safe(n) => Safe(n)'
  BY QuietSteps DEF IInv
<1> DEFINE position == IF strategy = "MinId" THEN Since(i) ELSE 0
           reached == IF strategy = "MinId" THEN Since(i) - 1 ELSE 0
<1>4. /\ cycle'[i].stored = checkpoint /\ cycle'[i].since = Since(i)
      /\ cycle'[i].position = position /\ cycle'[i].reached = reached
      /\ cycle'[i].buffer = {} /\ cycle'[i].page = {} /\ ~cycle'[i].ending
  <2>1. cycle'[i] = [cycle[i] EXCEPT !.stored = checkpoint, !.since = Since(i),
                                     !.position = position, !.reached = reached]
    BY <1>1 DEF LoadCheckpoint
  <2> HIDE DEF position, reached
  <2> QED BY <1>1, <1>2, <2>1 DEF Cycles
<1>5. ASSUME strategy # "MinId"
      PROVE  /\ cycle'[i].since = DateOf(cycle'[i].stored)
             /\ ~Begun(i)' /\ cycle'[i].reached = 0 /\ cycle'[i].position = 0
  BY <1>4, <1>5 DEF Since, Begun
<1>6. ASSUME strategy = "WallClock" PROVE WallClockCycle(i)'
  BY <1>5, <1>6 DEF WallClockCycle
<1>7. ASSUME strategy = "MaxModified" PROVE MaxModifiedCycle(i)'
  <2>1. cycle'[i].reached <= clock'
    BY <1>1, <1>3, <1>5, <1>7
  <2> QED BY <1>4, <1>5, <1>7, <2>1 DEF MaxModifiedCycle
<1>8. ASSUME strategy = "MinId" PROVE MinIdCycle(i)'
  <2>1. Since(i) \in Nat /\ position = Since(i) /\ reached = Since(i) - 1
    BY <1>8, MarkFacts DEF IInv, Types
  <2>2. cycle'[i].reached < cycle'[i].position
    BY <1>4, <2>1
  <2>3. ASSUME NEW n \in Ids, n < Since(i) PROVE stamp[n] # 0 /\ Safe(n)
    <3>1. Good(checkpoint) /\ Good(memory[i])
      BY DEF IInv, MarksInv
    <3>2. Since(i) \in {checkpoint, memory[i], 1}
      BY <1>8 DEF Since
    <3>3. n \in Nat /\ n >= 1
      BY ExtractorAssumption DEF Ids
    <3> QED BY <1>8, <2>3, <3>1, <3>2, <3>3 DEF Good
  <2>4. ASSUME NEW n \in Ids, n < cycle'[i].position PROVE stamp'[n] # 0 /\ Kept(i, n)'
    BY <1>3, <1>4, <2>1, <2>3, <2>4 DEF Kept
  <2> QED BY <1>4, <2>2, <2>4 DEF MinIdCycle
<1> QED BY <1>3, <1>5, <1>6, <1>7, <1>8 DEF CycleInv, DateOf

\* What a fetch does to a cycle.
LEMMA FetchFields ==
    ASSUME Types, NEW i \in Instances, FetchPage(i)
    PROVE  /\ pc[i] = "fetch" /\ cycle[i].page = {} /\ ~cycle[i].ending
           /\ cycle'[i].page = Page(i)
           /\ cycle'[i].stored = cycle[i].stored /\ cycle'[i].since = cycle[i].since
           /\ cycle'[i].started = cycle[i].started /\ cycle'[i].reached = cycle[i].reached
           /\ cycle'[i].buffer = cycle[i].buffer
           /\ \/ Page(i) = {} /\ cycle'[i].ending /\ cycle'[i].position = cycle[i].position
              \/ /\ Page(i) # {} /\ ~cycle'[i].ending
                 /\ cycle'[i].position = NextPosition(i, Page(i))
<1>1. cycle \in [Instances -> Cycles] /\ cycle[i] \in Cycles
  BY DEF Types, TypeOK
<1>2. pc[i] = "fetch" /\ cycle[i].page = {} /\ ~cycle[i].ending
  BY DEF FetchPage, Types, ShapeInv
<1>3. CASE Page(i) = {}
  <2>1. cycle'[i] = [cycle[i] EXCEPT !.ending = TRUE]
    BY <1>1, <1>3 DEF FetchPage
  <2> QED BY <1>1, <1>2, <1>3, <2>1 DEF Cycles
<1>4. CASE Page(i) # {}
  <2> DEFINE page == Page(i)
             position == NextPosition(i, page)
  <2>1. cycle'[i] = [cycle[i] EXCEPT !.page = page, !.position = position]
    BY <1>1, <1>4 DEF FetchPage
  <2>2. page # {}
    BY <1>4
  <2>3. /\ cycle'[i].page = page /\ cycle'[i].position = position
        /\ cycle'[i].stored = cycle[i].stored /\ cycle'[i].since = cycle[i].since
        /\ cycle'[i].started = cycle[i].started /\ cycle'[i].reached = cycle[i].reached
        /\ cycle'[i].buffer = cycle[i].buffer /\ cycle'[i].ending = cycle[i].ending
    <3> HIDE DEF page, position
    <3> QED BY <1>1, <2>1 DEF Cycles
  <2> QED BY <1>2, <2>2, <2>3
<1> QED BY <1>2, <1>3, <1>4

\* What was kept before a fetch is kept after it.
LEMMA FetchKeeps ==
    ASSUME Types, NEW i \in Instances, FetchPage(i), NEW n \in Ids, Kept(i, n)
    PROVE  Kept(i, n)'
<1>1. UNCHANGED <<strategy, stamp>> /\ (Safe(n) => Safe(n)')
  BY QuietSteps
<1>2. cycle[i].page = {} /\ cycle'[i].buffer = cycle[i].buffer
  BY FetchFields
<1> QED BY <1>1, <1>2 DEF Kept, Held

\* A record of the page is held.
LEMMA PageHeld ==
    ASSUME Types, NEW i \in Instances, FetchPage(i), NEW n \in Ids,
           [id |-> n, version |-> shown[n]] \in Page(i), strategy = "WallClock" => shown[n] = stamp[n]
    PROVE  Kept(i, n)'
<1>1. UNCHANGED <<strategy, stamp>> /\ cycle'[i].page = Page(i)
  BY QuietSteps, FetchFields
<1>2. stamp[n] \in Nat
  BY ExtractorAssumption DEF Types, TypeOK
<1> DEFINE r == [id |-> n, version |-> shown[n]]
<1>3. r.id = n /\ (strategy = "WallClock" => r.version >= stamp[n])
  BY <1>2
<1> HIDE DEF r
<1>4. r \in cycle'[i].page
  BY <1>1 DEF r
<1> QED BY <1>1, <1>3, <1>4 DEF Kept, Held

\* A complete WallClock listing finds all that was modified Overlap before it started.
LEMMA FetchWallClock ==
    ASSUME IInv, NEW i \in Instances, FetchPage(i), strategy = "WallClock"
    PROVE  WallClockCycle(i)'
<1>1. UNCHANGED <<strategy, clock, stamp, shown, extracted>> /\ \A n \in Ids : Safe(n) => Safe(n)'
  BY QuietSteps DEF IInv
<1>2. /\ pc[i] = "fetch" /\ ~cycle[i].ending /\ cycle'[i].started = cycle[i].started
  BY FetchFields DEF IInv
<1>3. /\ cycle[i].started \in Nat /\ cycle[i].started <= clock /\ clock \in Nat /\ Overlap \in Nat
      /\ cycle[i].position \in Nat /\ cycle[i].since \in Nat
  BY CycleFields, ExtractorAssumption DEF IInv, Types, TypeOK, ShapeInv
<1>4. cycle[i].since = DateOf(cycle[i].stored) /\ WallClockCycle(i) /\ Good(cycle[i].stored)
  BY <1>2 DEF IInv, CycleInv, Working, MarksInv
<1>5. ASSUME NEW n \in Ids, stamp[n] # 0, stamp[n] + Overlap < cycle[i].started PROVE Kept(i, n)'
  <2>1. stamp[n] \in Nat /\ shown[n] = stamp[n]
    BY <1>3, <1>5, ExtractorAssumption DEF IInv, SourceInv, Types, TypeOK
  <2>2. CASE cycle[i].position # 0
    <3>1. Kept(i, n)
      BY <1>3, <1>4, <1>5, <2>2 DEF WallClockCycle, Begun
    <3> QED BY <3>1, FetchKeeps DEF IInv
  <2>3. CASE cycle[i].position = 0 /\ stamp[n] >= cycle[i].since
    <3>1. n \in Listed(i)
      BY <1>5, <2>1, <2>3 DEF Listed
    <3>2. [id |-> n, version |-> shown[n]] \in Page(i)
      BY <2>3, <3>1 DEF Page
    <3> QED BY <2>1, <3>2, PageHeld DEF IInv
  <2>4. CASE stamp[n] < cycle[i].since
    <3>1. Safe(n)
      BY <1>4, <1>5, <2>4 DEF Good
    <3> QED BY <1>1, <3>1 DEF Kept
  <2> QED BY <1>3, <2>1, <2>2, <2>3, <2>4
<1> QED BY <1>1, <1>2, <1>5 DEF WallClockCycle

\* What precedes a record in a listing is fewer than all records.
LEMMA BeforeFacts ==
    ASSUME TypeOK, NEW i \in Instances, NEW n \in Ids
    PROVE  /\ IsFiniteSet(Before(i, n)) /\ Cardinality(Before(i, n)) \in Nat
           /\ Cardinality(Before(i, n)) < Records
<1>1. Ids \subseteq Nat /\ Records \in Nat
  BY ExtractorAssumption DEF Ids
<1>2. Before(i, n) \subseteq Ids \ {n}
  BY <1>1, ExtractorAssumption DEF Before, Listed, TypeOK
<1>3. IsFiniteSet(Ids) /\ Cardinality(Ids) = Records
  <2>1. Cardinality(1..Records) = IF 1 > Records THEN 0 ELSE Records - 1 + 1
    BY <1>1, FS_Interval
  <2> QED BY <1>1, <2>1, FiniteVersions DEF Ids
<1>4. IsFiniteSet(Ids \ {n}) /\ Cardinality(Ids \ {n}) = Records - 1
  <2>1. Cardinality(Ids \ {n}) = IF n \in Ids THEN Cardinality(Ids) - 1 ELSE Cardinality(Ids)
    BY <1>3, FS_RemoveElement
  <2> QED BY <1>3, <2>1, FS_RemoveElement
<1>5. /\ IsFiniteSet(Before(i, n)) /\ Cardinality(Before(i, n)) <= Cardinality(Ids \ {n})
  BY <1>2, <1>4, FS_Subset
<1>6. Cardinality(Before(i, n)) \in Nat
  BY <1>5, FS_CardinalityType
<1> QED BY <1>1, <1>4, <1>5, <1>6

\* A MaxModified listing that fits into a page finds all of it; the next is empty.
LEMMA FetchMaxModified ==
    ASSUME IInv, OnePage, NEW i \in Instances, FetchPage(i), strategy = "MaxModified"
    PROVE  MaxModifiedCycle(i)'
<1>1. UNCHANGED <<strategy, clock, stamp, shown, extracted>> /\ \A n \in Ids : Safe(n) => Safe(n)'
  BY QuietSteps DEF IInv
<1>2. /\ pc[i] = "fetch" /\ ~cycle[i].ending /\ cycle[i].page = {} /\ cycle'[i].page = Page(i)
      /\ cycle'[i].reached = cycle[i].reached /\ cycle'[i].buffer = cycle[i].buffer
  BY FetchFields DEF IInv
<1>3. /\ cycle[i].position \in Nat /\ cycle[i].since \in Nat /\ cycle[i].reached \in Nat
      /\ clock \in Nat /\ PageSize \in Nat /\ PageSize > 0 /\ TypeOK
  BY CycleFields, ExtractorAssumption DEF IInv, Types, TypeOK
<1>4. cycle[i].since = DateOf(cycle[i].stored) /\ MaxModifiedCycle(i) /\ Good(cycle[i].stored)
  BY <1>2 DEF IInv, CycleInv, Working, MarksInv
<1>5. Records <= PageSize
  BY <1>3 DEF OnePage, TypeOK
<1>6. \A n \in Ids : /\ stamp[n] \in Nat /\ stamp[n] <= clock /\ shown[n] = stamp[n]
                     /\ Cardinality(Before(i, n)) \in Nat /\ Cardinality(Before(i, n)) < PageSize
  <2>1. shown = stamp
    BY DEF IInv, SourceInv
  <2>2. \A n \in Ids : stamp[n] \in Nat /\ stamp[n] <= clock
    BY ExtractorAssumption DEF IInv, SourceInv, Types, TypeOK
  <2>3. \A n \in Ids : Cardinality(Before(i, n)) \in Nat /\ Cardinality(Before(i, n)) < PageSize
    BY <1>3, <1>5, BeforeFacts, ExtractorAssumption
  <2> QED BY <2>1, <2>2, <2>3
<1>7. /\ cycle'[i].ending /\ cycle'[i].position = cycle[i].position
      \/ cycle'[i].position = cycle[i].position + PageSize
  BY FetchFields DEF IInv, NextPosition
<1>8. Begun(i)' /\ (cycle'[i].position > 0 => cycle'[i].position >= PageSize)
  <2>1. cycle[i].position > 0 => cycle[i].position >= PageSize
    BY <1>4 DEF MaxModifiedCycle
  <2>2. cycle'[i].position > 0 \/ cycle'[i].ending
    BY <1>3, <1>7
  <2>3. cycle'[i].position > 0 => cycle'[i].position >= PageSize
    BY <1>3, <1>7, <2>1
  <2> QED BY <2>2, <2>3 DEF Begun
<1>9. cycle'[i].reached <= clock'
  BY <1>1, <1>2, <1>4 DEF MaxModifiedCycle
<1>10. \A r \in cycle'[i].page : r.version <= clock'
  <2>1. \A r \in Page(i) : r.id \in Ids /\ r.version = shown[r.id]
    BY <1>3, PageFacts DEF Listed
  <2> QED BY <1>1, <1>2, <1>6, <2>1
<1>11. ASSUME cycle[i].position # 0 PROVE Page(i) = {}
  <2>1. cycle[i].position >= PageSize
    BY <1>3, <1>4, <1>11 DEF MaxModifiedCycle
  <2>2. \A n \in Listed(i) : Cardinality(Before(i, n)) < cycle[i].position
    BY <1>3, <1>6, <2>1 DEF Listed
  <2>3. \A n \in Listed(i) : ~(Cardinality(Before(i, n)) >= cycle[i].position)
    BY <1>3, <1>6, <2>2 DEF Listed
  <2> QED BY <2>3 DEF Page
<1>12. ASSUME NEW n \in Ids, stamp[n] # 0
       PROVE  \/ Kept(i, n)'
              \/ cycle'[i].reached <= stamp'[n] /\ \A r \in cycle'[i].page : r.version <= stamp'[n]
  <2>1. CASE cycle[i].position # 0
    <3>1. Kept(i, n) \/ cycle[i].reached <= stamp[n]
      BY <1>3, <1>4, <1>12, <2>1 DEF MaxModifiedCycle, Begun
    <3>2. CASE Kept(i, n)
      BY <3>2, FetchKeeps DEF IInv
    <3>3. CASE cycle[i].reached <= stamp[n]
      BY <1>1, <1>2, <1>11, <2>1, <3>3
    <3> QED BY <3>1, <3>2, <3>3
  <2>2. CASE cycle[i].position = 0 /\ stamp[n] >= cycle[i].since
    <3>1. n \in Listed(i)
      BY <1>6, <1>12, <2>2 DEF Listed
    <3>2. /\ Cardinality(Before(i, n)) >= cycle[i].position
          /\ Cardinality(Before(i, n)) < cycle[i].position + PageSize
      BY <1>3, <1>6, <2>2
    <3>3. [id |-> n, version |-> shown[n]] \in Page(i)
      BY <3>1, <3>2 DEF Page
    <3> QED BY <3>3, PageHeld DEF IInv
  <2>3. CASE stamp[n] < cycle[i].since
    <3>1. Safe(n)
      BY <1>4, <1>12, <2>3 DEF Good
    <3> QED BY <1>1, <3>1 DEF Kept
  <2> QED BY <1>3, <1>6, <2>1, <2>2, <2>3
<1> QED BY <1>1, <1>8, <1>9, <1>10, <1>12 DEF MaxModifiedCycle

\* A MinId page lists every id up to its last.
LEMMA FetchMinId ==
    ASSUME IInv, NEW i \in Instances, FetchPage(i), strategy = "MinId"
    PROVE  MinIdCycle(i)'
<1>1. UNCHANGED <<strategy, clock, stamp, shown, extracted>>
  BY QuietSteps DEF IInv
<1>2. /\ pc[i] = "fetch" /\ cycle[i].page = {} /\ cycle'[i].page = Page(i)
      /\ cycle'[i].reached = cycle[i].reached /\ TypeOK
  BY FetchFields DEF IInv, Types
<1>3. /\ cycle[i].position \in Nat /\ cycle[i].reached \in Nat /\ PageSize \in Nat
      /\ Ids \subseteq Nat
  BY <1>2, CycleFields, ExtractorAssumption DEF TypeOK, Ids
<1>4. MinIdCycle(i)
  BY <1>2 DEF IInv, CycleInv, Working
<1>5. cycle[i].reached < cycle[i].position
  BY <1>4 DEF MinIdCycle
<1>6. \A n \in Ids : n < cycle[i].position => stamp[n] # 0 /\ Kept(i, n)'
  BY <1>4, FetchKeeps DEF MinIdCycle, IInv
<1>7. /\ Page(i) \in SUBSET Versions
      /\ \A r \in Page(i) : r.id \in Listed(i) /\ r.version = shown[r.id]
  BY <1>2, PageFacts
<1>8. \A r \in Page(i) : r.id \in Nat /\ cycle[i].position <= r.id
  BY <1>3, <1>7 DEF Listed
<1>9. \A q, r \in Page(i) : q.id = r.id => q = r
  BY <1>7 DEF Versions
<1>10. CASE Page(i) = {}
  <2>1. cycle'[i].position = cycle[i].position
    BY <1>10, FetchFields DEF IInv
  <2> QED BY <1>1, <1>2, <1>5, <1>6, <1>10, <2>1 DEF MinIdCycle
<1>11. CASE Page(i) # {}
  <2>1. cycle'[i].position = NextPosition(i, Page(i))
    BY <1>11, FetchFields DEF IInv
  <2>2. PICK last \in Page(i) : /\ cycle'[i].position = last.id + 1
                                /\ \A r \in Page(i) : r.id <= last.id
    BY <1>2, <1>7, <1>11, <2>1, NextIdFacts
  <2>3. /\ cycle'[i].reached < cycle'[i].position
        /\ \A r \in cycle'[i].page : cycle'[i].reached < r.id /\ r.id < cycle'[i].position
    BY <1>2, <1>3, <1>5, <1>8, <2>2
  <2>4. ASSUME NEW n \in Ids, n <= last.id, n >= cycle[i].position PROVE stamp[n] # 0 /\ Kept(i, n)'
    <3>1. last.id \in Ids /\ shown[last.id] # 0 /\ last.id \in Listed(i)
      BY <1>7 DEF Listed
    <3>0. last.id \in Nat /\ n \in Nat /\ (n = last.id \/ n < last.id)
      <4>1. last.id \in Nat /\ n \in Nat
        BY <1>3, <3>1
      <4> QED BY <2>4, <4>1
    <3>2. shown = stamp /\ stamp[n] # 0
      <4>1. shown = stamp
        BY DEF IInv, SourceInv
      <4>2. CASE n = last.id
        BY <3>1, <4>1, <4>2
      <4>3. CASE n < last.id
        BY <3>1, <4>1, <4>3 DEF IInv, SourceInv
      <4> QED BY <3>0, <4>1, <4>2, <4>3
    <3>3. n \in Listed(i)
      BY <2>4, <3>2 DEF Listed
    <3>4. Before(i, n) \subseteq Before(i, last.id)
      <4>1. ASSUME NEW m \in Ids, m < n PROVE m < last.id
        <5>1. m \in Nat
          BY <1>3
        <5> QED BY <3>0, <4>1, <5>1
      <4>2. Listed(i) \subseteq Ids
        BY DEF Listed
      <4> QED BY <4>1, <4>2 DEF Before
    <3>5. Cardinality(Before(i, n)) <= Cardinality(Before(i, last.id))
      BY <1>2, <3>1, <3>4, BeforeFacts, FS_Subset
    <3>6. Cardinality(Before(i, last.id)) < PageSize
      BY <2>2, <3>1 DEF Page
    <3>7. Cardinality(Before(i, n)) \in Nat /\ Cardinality(Before(i, last.id)) \in Nat
      BY <1>2, <3>1, BeforeFacts
    <3>8. Cardinality(Before(i, n)) < PageSize
      BY <1>3, <3>5, <3>6, <3>7
    <3>9. [id |-> n, version |-> shown[n]] \in Page(i)
      BY <3>3, <3>8 DEF Page
    <3> QED BY <3>2, <3>9, PageHeld DEF IInv
  <2>5. last.id \in Nat
    BY <1>8
  <2>6. ASSUME NEW n \in Ids, n < cycle'[i].position PROVE stamp[n] # 0 /\ Kept(i, n)'
    BY <1>3, <1>6, <2>2, <2>4, <2>5, <2>6
  <2> QED BY <1>1, <1>2, <1>9, <2>3, <2>6 DEF MinIdCycle
<1> QED BY <1>10, <1>11

\* What was kept before a record is taken is kept after it.
LEMMA TakeKeeps ==
    ASSUME Types, NEW i \in Instances, TakeRecord(i)
    PROVE  LET r == Earliest(cycle[i].page) IN
           /\ r \in cycle[i].page /\ \A q \in cycle[i].page : r.id <= q.id
           /\ cycle'[i].page = cycle[i].page \ {r}
           /\ cycle'[i].reached = Reached(i, r)
           /\ cycle'[i].started = cycle[i].started /\ cycle'[i].stored = cycle[i].stored
           /\ cycle'[i].since = cycle[i].since /\ cycle'[i].position = cycle[i].position
           /\ cycle'[i].ending = cycle[i].ending
           /\ \A n \in Ids : Kept(i, n) => Kept(i, n)'
<1> DEFINE r == Earliest(cycle[i].page)
           buffer == IF r.id \in Untransformable THEN cycle[i].buffer
                                                 ELSE cycle[i].buffer \cup {r}
           page == cycle[i].page \ {r}
           reached == Reached(i, r)
<1>1. cycle \in [Instances -> Cycles] /\ cycle[i] \in Cycles
  BY DEF Types, TypeOK
<1>2. r \in cycle[i].page /\ \A q \in cycle[i].page : r.id <= q.id
  BY <1>1, CycleFields, EarliestFacts DEF TakeRecord
<1>3. cycle'[i] = [cycle[i] EXCEPT !.page = page, !.buffer = buffer, !.reached = reached]
  BY <1>1 DEF TakeRecord
<1>4. /\ cycle'[i].page = page /\ cycle'[i].buffer = buffer /\ cycle'[i].reached = reached
      /\ cycle'[i].started = cycle[i].started /\ cycle'[i].stored = cycle[i].stored
      /\ cycle'[i].since = cycle[i].since /\ cycle'[i].position = cycle[i].position
      /\ cycle'[i].ending = cycle[i].ending
  <2> HIDE DEF page, buffer, reached
  <2> QED BY <1>1, <1>3 DEF Cycles
<1>5. UNCHANGED <<strategy, stamp>> /\ \A n \in Ids : Safe(n) => Safe(n)'
  BY QuietSteps
<1>6. ASSUME NEW n \in Ids, Kept(i, n) PROVE Kept(i, n)'
  <2>1. CASE Safe(n)
    BY <1>5, <2>1 DEF Kept
  <2>2. CASE Held(i, n) /\ ~Safe(n)
    <3>1. PICK q \in cycle[i].page \cup cycle[i].buffer :
              q.id = n /\ (strategy = "WallClock" => q.version >= stamp[n])
      BY <2>2 DEF Held
    <3>2. n \notin Untransformable
      BY <2>2 DEF Safe
    <3>3. q \in page \cup buffer
      <4>1. CASE q = r
        BY <3>1, <3>2, <4>1
      <4>2. CASE q # r
        BY <4>2
      <4> QED BY <4>1, <4>2
    <3>4. q \in cycle'[i].page \cup cycle'[i].buffer
      BY <1>4, <3>3
    <3> QED BY <1>5, <3>1, <3>4 DEF Kept, Held
  <2> QED BY <1>6, <2>1, <2>2 DEF Kept
<1> QED BY <1>2, <1>4, <1>6

\* A record that is taken moves what was reached to it, and leaves nothing behind.
LEMMA TakeCycle ==
    ASSUME IInv, NEW i \in Instances, TakeRecord(i)
    PROVE  CycleInv(i)'
<1> DEFINE r == Earliest(cycle[i].page)
<1>1. UNCHANGED <<strategy, clock, stamp, shown, extracted>>
  BY QuietSteps DEF IInv
<1>2. /\ r \in cycle[i].page /\ \A q \in cycle[i].page : r.id <= q.id
      /\ cycle'[i].page = cycle[i].page \ {r}
      /\ cycle'[i].reached = Reached(i, r)
      /\ cycle'[i].started = cycle[i].started /\ cycle'[i].stored = cycle[i].stored
      /\ cycle'[i].since = cycle[i].since /\ cycle'[i].position = cycle[i].position
      /\ cycle'[i].ending = cycle[i].ending
      /\ \A n \in Ids : Kept(i, n) => Kept(i, n)'
  BY TakeKeeps DEF IInv
<1> HIDE DEF r
<1>3. CycleInv(i) /\ Working(i)
  BY DEF IInv, TakeRecord, Working
<1>4. /\ cycle[i].page \in SUBSET Versions /\ cycle[i].reached \in Nat /\ cycle[i].position \in Nat
      /\ clock \in Nat /\ \A n \in Ids : stamp[n] \in Nat
  BY CycleFields, ExtractorAssumption DEF IInv, Types, TypeOK
<1>5. \A q \in cycle[i].page : q.id \in Nat /\ q.version \in Nat
  BY <1>4, ExtractorAssumption DEF Versions, Ids
<1>6. Begun(i)' = Begun(i)
  BY <1>2 DEF Begun
<1>7. strategy # "MinId" => cycle'[i].since = DateOf(cycle'[i].stored)
  BY <1>2, <1>3 DEF CycleInv
<1>8. ASSUME strategy = "WallClock" PROVE WallClockCycle(i)'
  <2>1. WallClockCycle(i)
    BY <1>3, <1>8 DEF CycleInv
  <2> QED BY <1>1, <1>2, <1>6, <2>1 DEF WallClockCycle
<1>9. ASSUME strategy = "MaxModified" PROVE MaxModifiedCycle(i)'
  <2>1. MaxModifiedCycle(i)
    BY <1>3, <1>9 DEF CycleInv
  <2>2. cycle'[i].reached = Greater(cycle[i].reached, r.version)
    BY <1>2, <1>9 DEF Reached
  <2>3. r.version \in Nat /\ r.version <= clock /\ cycle[i].reached <= clock
    BY <1>2, <1>5, <2>1 DEF MaxModifiedCycle
  <2>4. cycle'[i].reached \in {cycle[i].reached, r.version}
    BY <2>2 DEF Greater
  <2>5. Begun(i)
    BY <1>2, <2>1 DEF MaxModifiedCycle
  <2>6. cycle'[i].reached <= clock'
    BY <1>1, <2>3, <2>4
  <2>7. \A q \in cycle'[i].page : q.version <= clock'
    BY <1>1, <1>2, <2>1 DEF MaxModifiedCycle
  <2>8. ASSUME NEW n \in Ids, stamp[n] # 0
        PROVE  \/ Kept(i, n)'
               \/ cycle'[i].reached <= stamp[n] /\ \A q \in cycle'[i].page : q.version <= stamp[n]
    <3>1. CASE Kept(i, n)
      BY <1>2, <3>1
    <3>2. CASE cycle[i].reached <= stamp[n] /\ \A q \in cycle[i].page : q.version <= stamp[n]
      BY <1>2, <2>4, <3>2
    <3> QED BY <2>1, <2>5, <2>8, <3>1, <3>2 DEF MaxModifiedCycle
  <2>9. cycle'[i].position > 0 => cycle'[i].position >= PageSize
    BY <1>2, <2>1 DEF MaxModifiedCycle
  <2> QED BY <1>1, <1>6, <2>5, <2>6, <2>7, <2>8, <2>9 DEF MaxModifiedCycle
<1>10. ASSUME strategy = "MinId" PROVE MinIdCycle(i)'
  <2>1. MinIdCycle(i)
    BY <1>3, <1>10 DEF CycleInv
  <2>2. cycle'[i].reached \in {cycle[i].reached, r.id}
    BY <1>2, <1>10 DEF Reached, Greater
  <2>3. cycle[i].reached < cycle[i].position /\ r.id < cycle[i].position
    BY <1>2, <2>1 DEF MinIdCycle
  <2>4. ASSUME NEW q \in cycle[i].page, q # r PROVE cycle[i].reached < q.id /\ r.id < q.id
    <3>1. cycle[i].reached < q.id /\ q.id # r.id
      BY <1>2, <2>1, <2>4 DEF MinIdCycle
    <3> QED BY <1>2, <1>5, <2>4, <3>1
  <2>5. \A q \in cycle'[i].page : cycle'[i].reached < q.id /\ q.id < cycle'[i].position
    BY <1>2, <2>1, <2>2, <2>4 DEF MinIdCycle
  <2>6. \A p, q \in cycle'[i].page : p.id = q.id => p = q
    BY <1>2, <2>1 DEF MinIdCycle
  <2>7. \A n \in Ids : n < cycle'[i].position => stamp'[n] # 0 /\ Kept(i, n)'
    BY <1>1, <1>2, <2>1 DEF MinIdCycle
  <2>8. cycle'[i].reached < cycle'[i].position
    BY <1>2, <2>2, <2>3
  <2> QED BY <2>5, <2>6, <2>7, <2>8 DEF MinIdCycle
<1> QED BY <1>1, <1>7, <1>8, <1>9, <1>10 DEF CycleInv, DateOf

\* What a successful flush adds is safe, and nothing else is forgotten.
LEMMA FlushCycle ==
    ASSUME IInv, [Next]_vars, NEW i \in Instances, Flush(i), pc'[i] = "save"
    PROVE  CycleInv(i)'
<1>1. cycle \in [Instances -> Cycles] /\ cycle[i] \in Cycles /\ pc \in [Instances -> Labels]
      /\ TypeOK /\ Types
  BY DEF IInv, Types, TypeOK
<1>2. Added(cycle[i].buffer) /\ cycle'[i] = [cycle[i] EXCEPT !.buffer = {}]
  BY <1>1 DEF Flush, Goto
<1>3. /\ cycle'[i].page = cycle[i].page /\ cycle'[i].buffer = {}
      /\ cycle'[i].reached = cycle[i].reached /\ cycle'[i].started = cycle[i].started
      /\ cycle'[i].stored = cycle[i].stored /\ cycle'[i].since = cycle[i].since
      /\ cycle'[i].position = cycle[i].position /\ cycle'[i].ending = cycle[i].ending
  BY <1>1, <1>2 DEF Cycles
<1>4. UNCHANGED <<strategy, clock, stamp, shown>>
  BY DEF Flush, sourceVars
<1>5. CycleInv(i) /\ Working(i)
  BY DEF IInv, Flush, Working
<1>6. cycle[i].buffer \in SUBSET Versions
  BY <1>1, CycleFields
<1>7. /\ extracted' \in [Ids -> 0..MaxClock]
      /\ \A r \in cycle[i].buffer : extracted'[r.id] >= r.version
  BY <1>1, <1>2, <1>6, AddedFacts
<1>8. ASSUME NEW n \in Ids, Kept(i, n) PROVE Kept(i, n)'
  <2>1. CASE Safe(n)
    BY <1>1, <1>4, <2>1, SafeStays DEF Kept
  <2>2. CASE \E r \in cycle[i].page : r.id = n /\ (strategy = "WallClock" => r.version >= stamp[n])
    BY <1>3, <1>4, <2>2 DEF Kept, Held
  <2>3. CASE \E r \in cycle[i].buffer : r.id = n /\ (strategy = "WallClock" => r.version >= stamp[n])
    <3>1. PICK r \in cycle[i].buffer : r.id = n /\ (strategy = "WallClock" => r.version >= stamp[n])
      BY <2>3
    <3>2. r.version \in Nat /\ r.version > 0
      BY <1>6, <3>1, ExtractorAssumption DEF Versions
    <3>3. extracted'[n] >= r.version /\ extracted'[n] \in Nat /\ stamp[n] \in Nat
      BY <1>1, <1>7, <3>1, ExtractorAssumption DEF TypeOK
    <3>4. ASSUME strategy = "WallClock" PROVE extracted'[n] >= stamp[n]
      BY <3>1, <3>2, <3>3, <3>4
    <3>5. extracted'[n] # 0
      BY <3>2, <3>3
    <3> QED BY <1>4, <3>4, <3>5 DEF Kept, Safe, InStream
  <2> QED BY <1>8, <2>1, <2>2, <2>3 DEF Kept, Held
<1>9. Begun(i)' = Begun(i)
  BY <1>3 DEF Begun
<1>10. strategy # "MinId" => cycle'[i].since = DateOf(cycle'[i].stored)
  BY <1>3, <1>5 DEF CycleInv
<1>11. ASSUME strategy = "WallClock" PROVE WallClockCycle(i)'
  <2>1. WallClockCycle(i)
    BY <1>5, <1>11 DEF CycleInv
  <2> QED BY <1>3, <1>4, <1>8, <1>9, <2>1 DEF WallClockCycle
<1>12. ASSUME strategy = "MaxModified" PROVE MaxModifiedCycle(i)'
  <2>1. MaxModifiedCycle(i)
    BY <1>5, <1>12 DEF CycleInv
  <2> QED BY <1>3, <1>4, <1>8, <1>9, <2>1 DEF MaxModifiedCycle
<1>13. ASSUME strategy = "MinId" PROVE MinIdCycle(i)'
  <2>1. MinIdCycle(i)
    BY <1>5, <1>13 DEF CycleInv
  <2> QED BY <1>3, <1>4, <1>8, <2>1 DEF MinIdCycle
<1> QED BY <1>4, <1>10, <1>11, <1>12, <1>13 DEF CycleInv, DateOf

-----------------------------------------------------------------------------
(* The marks *)

\* The mark a cycle leaves has nothing before it that is not in the stream.
LEMMA SavedGood ==
    ASSUME IInv, NEW i \in Instances, pc[i] = "save"
    PROVE  Good(StateToSave(i))
<1>1. /\ cycle[i].started \in Nat /\ cycle[i].reached \in Nat /\ cycle[i].stored \in Nat
      /\ cycle[i].position \in Nat /\ cycle[i].page \in SUBSET Versions
      /\ clock \in Nat /\ Overlap \in Nat /\ \A n \in Ids : stamp[n] \in Nat
  BY CycleFields, ExtractorAssumption DEF IInv, Types, TypeOK
<1>2. /\ cycle[i].buffer = {} /\ (cycle[i].ending => cycle[i].page = {})
      /\ cycle[i].started <= clock
  BY DEF IInv, Types, ShapeInv
<1>3. CycleInv(i) /\ Working(i) /\ Good(cycle[i].stored) /\ Types
  BY DEF IInv, MarksInv, Working
<1>4. \A n \in Ids : Kept(i, n) /\ cycle[i].ending => Safe(n)
  BY <1>2 DEF Kept, Held
<1>5. CASE strategy = "WallClock" /\ cycle[i].ending
  <2>1. CASE cycle[i].started > Overlap
    <3> DEFINE mark == cycle[i].started - Overlap
    <3>1. mark \in Nat /\ mark <= clock
      BY <1>1, <1>2, <2>1
    <3>2. DateOf(mark) \in Nat /\ DateOf(mark) <= mark
      BY <3>1, DateFacts
    <3>3. ASSUME NEW n \in Ids, stamp[n] # 0, stamp[n] < DateOf(mark) PROVE Safe(n)
      <4>1. stamp[n] + Overlap < cycle[i].started
        <5> HIDE DEF mark
        <5>1. stamp[n] < mark
          BY <1>1, <3>1, <3>2, <3>3
        <5> QED BY <1>1, <5>1 DEF mark
      <4>2. Kept(i, n)
        BY <1>3, <1>5, <3>3, <4>1 DEF CycleInv, WallClockCycle, Begun
      <4> QED BY <1>4, <1>5, <4>2
    <3>4. Good(mark)
      BY <1>5, <3>1, <3>3 DEF Good
    <3> QED BY <1>5, <2>1, <3>4 DEF StateToSave, ResumePoint
  <2>2. CASE ~(cycle[i].started > Overlap)
    <3>1. StateToSave(i) = 0
      BY <1>5, <2>2 DEF StateToSave, ResumePoint
    <3> QED BY <1>3, <3>1, GoodZero
  <2> QED BY <2>1, <2>2
<1>6. CASE strategy = "MaxModified" /\ cycle[i].ending
  <2>1. MaxModifiedCycle(i)
    BY <1>3, <1>6 DEF CycleInv
  <2>2. CASE cycle[i].reached # 0
    <3>1. DateOf(cycle[i].reached) \in Nat /\ DateOf(cycle[i].reached) <= cycle[i].reached
      BY <1>1, DateFacts
    <3>2. ASSUME NEW n \in Ids, stamp[n] # 0, stamp[n] < DateOf(cycle[i].reached) PROVE Safe(n)
      <4>1. ~(cycle[i].reached <= stamp[n])
        BY <1>1, <3>1, <3>2
      <4>2. Kept(i, n)
        BY <1>6, <2>1, <3>2, <4>1 DEF MaxModifiedCycle, Begun
      <4> QED BY <1>4, <1>6, <4>2
    <3>3. Good(cycle[i].reached)
      BY <1>6, <2>1, <3>2 DEF Good, MaxModifiedCycle
    <3> QED BY <1>6, <2>2, <3>3 DEF StateToSave, ResumePoint
  <2>3. CASE cycle[i].reached = 0
    BY <1>3, <1>6, <2>3 DEF StateToSave, ResumePoint
  <2> QED BY <2>2, <2>3
<1>7. CASE strategy = "MinId"
  <2>1. MinIdCycle(i)
    BY <1>3, <1>7 DEF CycleInv
  <2>2. ASSUME NEW n \in Ids, n < cycle[i].reached + 1 PROVE stamp[n] # 0 /\ Safe(n)
    <3>1. n \in Nat /\ n <= cycle[i].reached
      BY <1>1, <2>2, ExtractorAssumption DEF Ids
    <3>2. cycle[i].reached < cycle[i].position
      BY <2>1 DEF MinIdCycle
    <3>3. n < cycle[i].position
      BY <1>1, <3>1, <3>2
    <3>4. stamp[n] # 0 /\ Kept(i, n)
      BY <2>1, <3>3 DEF MinIdCycle
    <3>5. \A r \in cycle[i].page : r.id # n
      <4>1. ASSUME NEW r \in cycle[i].page PROVE r.id # n
        <5>1. cycle[i].reached < r.id /\ r.id \in Nat
          BY <1>1, <2>1, ExtractorAssumption DEF MinIdCycle, Versions, Ids
        <5> QED BY <1>1, <3>1, <5>1
      <4> QED BY <4>1
    <3> QED BY <1>2, <3>4, <3>5 DEF Kept, Held
  <2>3. Good(cycle[i].reached + 1)
    BY <1>7, <2>2 DEF Good
  <2> QED BY <1>7, <2>3 DEF StateToSave, ResumePoint
<1>8. CASE strategy # "MinId" /\ ~cycle[i].ending
  <2>1. StateToSave(i) = 0
    BY <1>8 DEF StateToSave
  <2> QED BY <1>3, <2>1, GoodZero
<1>9. strategy \in KnownStrategies
  BY ExtractorAssumption DEF IInv, Types, TypeOK
<1> QED BY <1>5, <1>6, <1>7, <1>8, <1>9 DEF KnownStrategies

\* Where the marks of a step come from.
LEMMA MarkSources ==
    ASSUME IInv, [Next]_vars
    PROVE  LET Old == {0, checkpoint} \cup {memory[i] : i \in Instances}
                       \cup {cycle[i].stored : i \in Instances}
                       \cup {StateToSave(i) : i \in {k \in Instances : pc[k] = "save"}}
           IN  /\ checkpoint' \in Old
               /\ \A j \in Instances : memory'[j] \in Old /\ cycle'[j].stored \in Old
<1> DEFINE Saved == {StateToSave(i) : i \in {k \in Instances : pc[k] = "save"}}
           Old == {0, checkpoint} \cup {memory[i] : i \in Instances}
                   \cup {cycle[i].stored : i \in Instances} \cup Saved
<1>1. /\ cycle \in [Instances -> Cycles] /\ memory \in [Instances -> Nat]
      /\ NoCycle.stored = 0 /\ \A i \in Instances : cycle[i] \in Cycles
  BY DEF IInv, Types, TypeOK, NoCycle, Marks
<1>2. ASSUME NEW i \in Instances, SaveCheckpoint(i)
      PROVE  /\ checkpoint' \in {checkpoint, StateToSave(i)} /\ pc[i] = "save"
             /\ \A j \in Instances : memory'[j] \in {memory[j], StateToSave(i)}
             /\ \A j \in Instances : cycle'[j].stored \in {cycle[j].stored, 0}
  BY <1>1, <1>2 DEF SaveCheckpoint
<1>3. ASSUME NEW i \in Instances, LoadCheckpoint(i)
      PROVE  /\ checkpoint' = checkpoint /\ memory' = memory
             /\ \A j \in Instances : cycle'[j].stored \in {cycle[j].stored, checkpoint}
  <2>1. cycle'[i].stored = checkpoint
    <3>1. \E since, position, reached :
              cycle'[i] = [cycle[i] EXCEPT !.stored = checkpoint, !.since = since,
                                           !.position = position, !.reached = reached]
      BY <1>1, <1>3 DEF LoadCheckpoint
    <3> QED BY <1>1, <3>1 DEF Cycles
  <2>2. \A j \in Instances : j # i => cycle'[j] = cycle[j]
    BY <1>1, <1>3 DEF LoadCheckpoint
  <2> QED BY <1>3, <2>1, <2>2 DEF LoadCheckpoint
<1>4. ASSUME NEW i \in Instances, FetchPage(i) \/ TakeRecord(i)
      PROVE  /\ checkpoint' = checkpoint /\ memory' = memory
             /\ \A j \in Instances : cycle'[j].stored = cycle[j].stored
  <2>1. cycle'[i].stored = cycle[i].stored
    BY <1>4, FetchFields, TakeKeeps DEF IInv
  <2>2. \A j \in Instances : j # i => cycle'[j] = cycle[j]
    BY <1>1, <1>4 DEF FetchPage, TakeRecord
  <2> QED BY <1>4, <2>1, <2>2 DEF FetchPage, TakeRecord
<1>5. ASSUME NEW i \in Instances, Flush(i)
      PROVE  /\ checkpoint' = checkpoint /\ memory' = memory
             /\ \A j \in Instances : cycle'[j].stored \in {cycle[j].stored, 0}
  <2>1. cycle'[i].stored \in {cycle[i].stored, 0}
    BY <1>1, <1>5 DEF Flush, Cycles
  <2>2. \A j \in Instances : j # i => cycle'[j] = cycle[j]
    BY <1>1, <1>5 DEF Flush
  <2> QED BY <1>5, <2>1, <2>2 DEF Flush
<1>6. ASSUME NEW i \in Instances, Acquire(i) \/ Release(i) \/ CycleFails(i) \/ Crash(i)
      PROVE  /\ checkpoint' = checkpoint
             /\ \A j \in Instances : memory'[j] \in {memory[j], 0}
             /\ \A j \in Instances : cycle'[j].stored \in {cycle[j].stored, 0}
  BY <1>1, <1>6 DEF Acquire, Release, ReleaseWatch, ReleaseGet, ReleaseExec, CycleFails, Crash, NoCycle
<1>7. ASSUME Source \/ LockExpires \/ UNCHANGED vars
      PROVE  UNCHANGED <<checkpoint, memory, cycle>>
  BY <1>7 DEF Source, Tick, Modify, Show, LockExpires, vars
<1>8. /\ checkpoint' \in {0, checkpoint} \cup Saved
      /\ \A j \in Instances : memory'[j] \in {memory[j], 0} \cup Saved
      /\ \A j \in Instances : cycle'[j].stored \in {cycle[j].stored, 0, checkpoint}
  <2>1. CASE \E i \in Instances : SaveCheckpoint(i)
    BY <1>2, <2>1
  <2>2. CASE ~ \E i \in Instances : SaveCheckpoint(i)
    <3> HIDE DEF Saved
    <3> QED BY <1>3, <1>4, <1>5, <1>6, <1>7, <2>2 DEF Next, Step, Extract
  <2> QED BY <2>1, <2>2
<1> HIDE DEF Saved
<1>9. checkpoint' \in Old /\ \A j \in Instances : memory'[j] \in Old /\ cycle'[j].stored \in Old
  BY <1>8
<1> QED BY <1>9 DEF Saved

\* Every mark stays good, and every new one is.
LEMMA NextMarksInv ==
    ASSUME IInv, [Next]_vars
    PROVE  MarksInv'
<1> DEFINE Old == {0, checkpoint} \cup {memory[i] : i \in Instances}
                   \cup {cycle[i].stored : i \in Instances}
                   \cup {StateToSave(i) : i \in {k \in Instances : pc[k] = "save"}}
<1>1. Types /\ MarksInv /\ TypeOK
  BY DEF IInv, Types
<1>2. /\ checkpoint \in Nat /\ \A i \in Instances : memory[i] \in Nat /\ cycle[i].stored \in Nat
      /\ \A i \in Instances : StateToSave(i) \in Nat
  BY <1>1, MarkFacts, CycleFields DEF TypeOK, Marks
<1>3. ASSUME NEW m \in Old PROVE m \in Nat /\ Good(m)
  <2>1. CASE m = 0
    BY <1>1, <2>1, GoodZero
  <2>2. CASE m = checkpoint
    BY <1>1, <1>2, <2>2 DEF MarksInv
  <2>3. CASE \E i \in Instances : m = memory[i]
    BY <1>1, <1>2, <2>3 DEF MarksInv
  <2>4. CASE \E i \in Instances : m = cycle[i].stored
    BY <1>1, <1>2, <2>4 DEF MarksInv
  <2>5. CASE \E i \in Instances : pc[i] = "save" /\ m = StateToSave(i)
    BY <1>2, <2>5, SavedGood
  <2> QED BY <1>3, <2>1, <2>2, <2>3, <2>4, <2>5
<1>4. checkpoint' \in Old /\ \A j \in Instances : memory'[j] \in Old /\ cycle'[j].stored \in Old
  BY MarkSources
<1> HIDE DEF Old
<1>5. Good(checkpoint)'
  <2>1. PICK m \in Old : m = checkpoint'
    BY <1>4
  <2>2. Good(m)'
    BY <1>1, <1>3, GoodStays
  <2> QED BY <2>1, <2>2 DEF Good
<1>6. ASSUME NEW j \in Instances PROVE Good(memory[j])'
  <2>1. PICK m \in Old : m = memory'[j]
    BY <1>4
  <2>2. Good(m)'
    BY <1>1, <1>3, GoodStays
  <2> QED BY <2>1, <2>2 DEF Good
<1>7. ASSUME NEW j \in Instances PROVE Good(cycle[j].stored)'
  <2>1. PICK m \in Old : m = cycle'[j].stored
    BY <1>4
  <2>2. Good(m)'
    BY <1>1, <1>3, GoodStays
  <2> QED BY <2>1, <2>2 DEF Good
<1> QED BY <1>5, <1>6, <1>7 DEF MarksInv

-----------------------------------------------------------------------------
(* Nothing is missed *)

\* Every cycle at work stays accounted for.
LEMMA NextCycleInv ==
    ASSUME IInv, OnePage, [Next]_vars, NEW i \in Instances
    PROVE  CycleInv(i)'
<1>1. /\ pc \in [Instances -> Labels] /\ cycle \in [Instances -> Cycles] /\ Types
  BY DEF IInv, Types, TypeOK
<1>2. ASSUME UNCHANGED <<pc, cycle>> PROVE CycleInv(i)'
  <2>1. CASE Working(i)
    BY <1>1, <1>2, <2>1, CycleStays DEF IInv
  <2>2. CASE ~Working(i)
    BY <1>2, <2>2 DEF CycleInv, Working
  <2> QED BY <2>1, <2>2
<1>3. ASSUME NEW j \in Instances, j # i, Step(j) \/ CycleFails(j) \/ Crash(j) PROVE CycleInv(i)'
  <2>1. pc'[i] = pc[i] /\ cycle'[i] = cycle[i]
    BY <1>1, <1>3, OthersStay
  <2>2. CASE Working(i)
    BY <1>1, <2>1, <2>2, CycleStays DEF IInv
  <2>3. CASE ~Working(i)
    BY <2>1, <2>3 DEF CycleInv, Working
  <2> QED BY <2>2, <2>3
<1>4. CASE LoadCheckpoint(i)
  BY <1>4, LoadCycle
<1>5. CASE FetchPage(i)
  <2>1. strategy \in Strategies /\ strategy \in KnownStrategies
    BY ExtractorAssumption DEF IInv, Types, TypeOK
  <2>2. /\ strategy = "WallClock" => WallClockCycle(i)'
        /\ strategy = "MaxModified" => MaxModifiedCycle(i)'
        /\ strategy = "MinId" => MinIdCycle(i)'
    BY <1>5, FetchWallClock, FetchMaxModified, FetchMinId
  <2>3. /\ cycle'[i].since = cycle[i].since /\ cycle'[i].stored = cycle[i].stored
        /\ strategy' = strategy /\ pc[i] = "fetch"
    BY <1>1, <1>5, FetchFields, QuietSteps
  <2>4. strategy # "MinId" => cycle[i].since = DateOf(cycle[i].stored)
    BY <2>3 DEF IInv, CycleInv, Working
  <2> QED BY <2>2, <2>3, <2>4 DEF CycleInv, DateOf
<1>6. CASE TakeRecord(i)
  BY <1>6, TakeCycle
<1>7. CASE Flush(i)
  <2>1. CASE pc'[i] = "save"
    BY <1>7, <2>1, FlushCycle
  <2>2. CASE pc'[i] # "save"
    <3>1. pc'[i] = "release"
      BY <1>1, <1>7, <2>2 DEF Flush, Goto
    <3> QED BY <3>1 DEF CycleInv, Working
  <2> QED BY <2>1, <2>2
<1>8. CASE SaveCheckpoint(i)
  <2>1. pc[i] = "save" /\ (cycle' = cycle \/ pc'[i] = "release")
    BY <1>1, <1>8 DEF SaveCheckpoint, Goto
  <2>2. CASE cycle' = cycle
    <3>1. Working(i)
      BY <2>1 DEF Working
    <3> QED BY <1>1, <2>2, <3>1, CycleStays DEF IInv
  <2>3. CASE pc'[i] = "release"
    BY <2>3 DEF CycleInv, Working
  <2> QED BY <2>1, <2>2, <2>3
<1>9. CASE Acquire(i) \/ Release(i) \/ CycleFails(i) \/ Crash(i)
  <2>1. pc'[i] \in {"load", "get", "exec", "idle", "release"}
    BY <1>1, <1>9 DEF Acquire, Release, ReleaseWatch, ReleaseGet, ReleaseExec, CycleFails, Crash, Goto
  <2> QED BY <2>1 DEF CycleInv, Working
<1>10. Source \/ LockExpires => UNCHANGED <<pc, cycle>>
  BY DEF Source, Tick, Modify, Show, LockExpires
<1> QED BY <1>2, <1>3, <1>4, <1>5, <1>6, <1>7, <1>8, <1>9, <1>10 DEF Next, Step, Extract, vars

\* At first every mark is zero and nobody works.
LEMMA InitIInv == Init => IInv
<1> SUFFICES ASSUME Init PROVE IInv
  OBVIOUS
<1>1. Types /\ WatchInv
  BY InitTypes
<1>2. clock = 1 /\ checkpoint = 0 /\ \A i \in Instances : memory[i] = 0 /\ pc[i] = "idle"
  BY DEF Init
<1>3. \A n \in Ids : stamp[n] = 0 /\ shown[n] = 0
  BY DEF Init
<1>4. SourceInv
  <2>1. shown = stamp
    BY DEF Init
  <2> QED BY <1>2, <1>3, <2>1 DEF SourceInv
<1>5. MarksInv
  <2>1. \A i \in Instances : cycle[i].stored = 0
    BY DEF Init, NoCycle
  <2> QED BY <1>1, <1>2, <2>1, GoodZero DEF MarksInv
<1>6. \A i \in Instances : CycleInv(i)
  BY <1>2 DEF CycleInv, Working
<1> QED BY <1>1, <1>4, <1>5, <1>6 DEF IInv

\* Every step keeps the whole of it.
LEMMA NextIInv ==
    ASSUME IInv, OnePage, [Next]_vars
    PROVE  IInv'
<1>1. Types' /\ SourceInv' /\ WatchInv'
  BY NextTypes, NextSourceInv, NextWatchInv DEF IInv, Types
<1> QED BY <1>1, NextMarksInv, NextCycleInv DEF IInv

\* The checkpoint never passes a record that is not in the stream, whichever
\* worker, failure, late record or expired lock comes in between, provided that a
\* MaxModified listing fits into a page.
THEOREM NothingPassed ==
    ASSUME OnePage
    PROVE  Spec => []NothingMissed
<1>1. IInv /\ [Next]_vars => IInv'
  BY OnePage, NextIInv
<1>2. IInv => NothingMissed
  <2> SUFFICES ASSUME IInv, NEW n \in Ids \ Untransformable, Passed(n) PROVE InStream(n)
    BY DEF NothingMissed
  <2>1. Good(checkpoint)
    BY DEF IInv, MarksInv
  <2>2. Safe(n)
    BY <2>1 DEF Good, Passed
  <2> QED BY <2>2 DEF Safe
<1> QED BY <1>1, <1>2, InitIInv, PTL DEF Spec
=============================================================================
