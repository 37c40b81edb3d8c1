----------------------------- MODULE Extractor -----------------------------
(***************************************************************************)
(* The extractor workers of one source: the daemon loop under the lock     *)
(* (run_extractor_loop of uvo_workers/runner.py), one extraction cycle     *)
(* (run_extract of uvo_workers/extract.py), and the three checkpoint       *)
(* strategies that decide where the next cycle resumes.  Several instances *)
(* may run, and the lock's TTL may run out under a long cycle.  The source *)
(* changes its records all the while.  Module NoticeStream has the flush's *)
(* backpressure; here a flush succeeds or fails.                           *)
(***************************************************************************)
EXTENDS RedisLock, FiniteSets

CONSTANTS
    Strategies,       \* the checkpoint strategies the run looks at
    Records,          \* bound of the model: the source has records 1..Records
    Untransformable,  \* records spec.transform raises on, always
    PageSize,         \* records per page of the source's listing
    FlushBatch,       \* FLUSH_BATCH
    Overlap,          \* checkpoint_overlap_seconds
    Day,              \* a day, in the model's time
    MaxClock,         \* bound of the model: last instant
    MaxFaults         \* bound of the model: failing calls and process deaths

Ids == 1..Records
KnownStrategies == {"WallClock", "MaxModified", "MinId"}

ASSUME ExtractorAssumption ==
    /\ Strategies \subseteq KnownStrategies
    /\ Records \in Nat
    /\ Overlap \in Nat
    /\ Day \in Nat \ {0}
    /\ MaxClock \in Nat \ {0}
    /\ MaxFaults \in Nat
    /\ FlushBatch \in Nat \ {0}
    /\ PageSize \in Nat \ {0}

VARIABLES
    strategy,    \* this source's checkpoint strategy; never changes
    clock,
    stamp,       \* the source: when each record was last modified, 0: not published
    shown,       \* the source: the version (its stamp) its API returns, 0: none
    checkpoint,  \* pipeline_state, 0: none (MinId: ids from 1, the code's from 0)
    extracted,   \* newest version of each record that was XADDed
    pc, cycle,   \* per instance
    memory,      \* per instance: the process-lifetime state of MinIdCheckpoint
    faults

sourceVars == <<strategy, clock, stamp, shown>>
vars == <<strategy, clock, stamp, shown, holder, watching, checkpoint, extracted, pc, cycle,
          memory, faults>>

Labels == {"idle", "load", "fetch", "flush", "save", "release", "get", "exec"}
Versions == [id : Ids, version : 1..MaxClock]
Marks == Nat    \* instants, or ids
Cycles == [started : 0..MaxClock,
           stored : Marks,            \* checkpoint as loaded
           since : Marks,             \* where this cycle resumes
           position : Nat,            \* of the listing: next offset, or next id
           page : SUBSET Versions,    \* listed and not yet yielded
           buffer : {B \in SUBSET Versions : Cardinality(B) <= FlushBatch},
                                      \* transformed and not yet flushed
           reached : Marks,           \* newest stamp, or highest id, seen
           ending : BOOLEAN]          \* the listing is exhausted

NoCycle == [started |-> 0, stored |-> 0, since |-> 0, position |-> 0, page |-> {},
            buffer |-> {}, reached |-> 0, ending |-> FALSE]

Init ==
    /\ strategy \in Strategies
    /\ clock = 1
    /\ stamp = [n \in Ids |-> 0]
    /\ shown = [n \in Ids |-> 0]
    /\ LockInit
    /\ checkpoint = 0
    /\ extracted = [n \in Ids |-> 0]
    /\ pc = [i \in Instances |-> "idle"]
    /\ cycle = [i \in Instances |-> NoCycle]
    /\ memory = [i \in Instances |-> 0]
    /\ faults = 0

-----------------------------------------------------------------------------
(* Helpers *)

Greater(a, b) == IF a > b THEN a ELSE b
Earliest(S) == CHOOSE r \in S : \A other \in S : r.id <= other.id

Fault == faults < MaxFaults /\ faults' = faults + 1
NoFault == UNCHANGED faults

Goto(i, label) == pc' = [pc EXCEPT ![i] = label]

\* A date: the instant its day began.
DateOf(t) == t - (t % Day)

\* CheckpointStrategy.cursor.  Without a checkpoint recent_days count back to
\* before the first record of the model.
Since(i) ==
    IF strategy # "MinId" THEN DateOf(checkpoint)
    ELSE IF checkpoint # 0 THEN checkpoint
    ELSE IF memory[i] # 0 THEN memory[i] ELSE 1

\* Records the listing of this cycle is about, and the place of one in it.
Listed(i) ==
    {n \in Ids : shown[n] # 0 /\ IF strategy = "MinId" THEN n >= cycle[i].position
                                                    ELSE shown[n] >= cycle[i].since}
Before(i, n) ==
    {m \in Listed(i) : IF strategy = "MaxModified"
                         THEN shown[m] < shown[n] \/ (shown[m] = shown[n] /\ m < n)
                         ELSE m < n}

\* One page of the source's API.  CRZ and TED keep a listing together; NKOD
\* skips `position` rows of whatever it would list now (ORDER BY modified,
\* OFFSET); ITMS lists ids from minId on.
Page(i) ==
    LET rows == {n \in Listed(i) :
                    CASE strategy = "WallClock"   -> cycle[i].position = 0
                      [] strategy = "MaxModified" ->
                            /\ Cardinality(Before(i, n)) >= cycle[i].position
                            /\ Cardinality(Before(i, n)) < cycle[i].position + PageSize
                      [] strategy = "MinId"       -> Cardinality(Before(i, n)) < PageSize}
    IN {[id |-> n, version |-> shown[n]] : n \in rows}

NextPosition(i, page) ==
    IF strategy = "MinId"
      THEN CHOOSE next \in {r.id + 1 : r \in page} : \A r \in page : r.id < next
      ELSE cycle[i].position + PageSize

\* len(buffer) >= FLUSH_BATCH, and a seeded bug in it.
FullTooLate(buffer) == Cardinality(buffer) > FlushBatch
Full(buffer) == Cardinality(buffer) >= FlushBatch

\* CheckpointStrategy.on_item; MaxModified observes its datasets instead,
\* whether or not they transform.
Reached(i, r) ==
    CASE strategy = "WallClock"   -> cycle[i].reached
      [] strategy = "MaxModified" -> Greater(cycle[i].reached, r.version)
      [] strategy = "MinId"       -> IF r.id \in Untransformable THEN cycle[i].reached
                                     ELSE Greater(cycle[i].reached, r.id)

\* Seeded bug: resumes from the end of the cycle.
ResumePointAtEnd(i) == IF strategy = "WallClock" THEN clock ELSE cycle[i].reached + 1

\* CheckpointStrategy.final_state, 0 to leave the checkpoint alone.
ResumePoint(i) ==
    CASE strategy = "WallClock"   -> IF cycle[i].started > Overlap
                                       THEN cycle[i].started - Overlap ELSE 0
      [] strategy = "MaxModified" -> IF cycle[i].reached # 0 THEN cycle[i].reached
                                     ELSE cycle[i].stored
      [] strategy = "MinId"       -> cycle[i].reached + 1

\* CheckpointStrategy.flush_state after a mid-cycle flush, final_state at the end.
StateToSave(i) == IF cycle[i].ending \/ strategy = "MinId" THEN ResumePoint(i) ELSE 0

Added(versions) ==
    extracted' = [n \in Ids |->
        IF \E r \in versions : r.id = n /\ r.version > extracted[n]
          THEN (CHOOSE r \in versions : r.id = n /\ \A q \in versions : q.id = n => q.version <= r.version).version
          ELSE extracted[n]]

-----------------------------------------------------------------------------
(* The source *)

Tick ==
    /\ clock < MaxClock
    /\ \A n \in Ids : shown[n] # stamp[n] => clock < stamp[n] + Overlap
    /\ clock' = clock + 1
    /\ UNCHANGED <<strategy, stamp, shown, lockVars, checkpoint, extracted, pc, cycle, memory,
                   faults>>

\* A record is published or modified.  A source with a wall-clock checkpoint
\* may take up to Overlap to show it; ids are given in order.
Modify(n) ==
    /\ shown[n] = stamp[n]
    /\ stamp[n] < clock
    /\ \A m \in Ids : m < n => stamp[m] # 0
    /\ stamp' = [stamp EXCEPT ![n] = clock]
    /\ shown' = IF strategy = "WallClock" THEN shown ELSE [shown EXCEPT ![n] = clock]
    /\ UNCHANGED <<strategy, clock, lockVars, checkpoint, extracted, pc, cycle, memory, faults>>

Show(n) ==
    /\ shown[n] # stamp[n]
    /\ shown' = [shown EXCEPT ![n] = stamp[n]]
    /\ UNCHANGED <<strategy, clock, stamp, lockVars, checkpoint, extracted, pc, cycle, memory,
                   faults>>

-----------------------------------------------------------------------------
(* run_extractor_loop and run_extract *)

\* acquire_lock; if the key exists the cycle is skipped.
Acquire(i) ==
    /\ pc[i] = "idle"
    /\ SET_NX(i)
    /\ cycle' = [cycle EXCEPT ![i] = [NoCycle EXCEPT !.started = clock]]
    /\ Goto(i, "load")
    /\ UNCHANGED <<sourceVars, checkpoint, extracted, memory, faults>>

LoadCheckpoint(i) ==
    /\ pc[i] = "load"
    /\ cycle' = [cycle EXCEPT ![i] = [cycle[i] EXCEPT
                    !.stored = checkpoint,
                    !.since = Since(i),
                    !.position = IF strategy = "MinId" THEN Since(i) ELSE 0,
                    !.reached = IF strategy = "MinId" THEN Since(i) - 1 ELSE 0]]
    /\ Goto(i, "fetch")
    /\ UNCHANGED <<sourceVars, lockVars, checkpoint, extracted, memory, faults>>

FetchPage(i) ==
    /\ pc[i] = "fetch"
    /\ cycle[i].page = {}
    /\ LET page == Page(i) IN
           IF page = {}
             THEN /\ cycle' = [cycle EXCEPT ![i].ending = TRUE]
                  /\ Goto(i, "flush")
             ELSE /\ cycle' = [cycle EXCEPT ![i] = [cycle[i] EXCEPT
                                  !.page = page, !.position = NextPosition(i, page)]]
                  /\ UNCHANGED pc
    /\ UNCHANGED <<sourceVars, lockVars, checkpoint, extracted, memory, faults>>

\* transform, hash, buffer and on_item for the next record of the page.  A
\* record that does not transform is logged and dropped.
TakeRecord(i) ==
    /\ pc[i] = "fetch"
    /\ cycle[i].page # {}
    /\ LET r == Earliest(cycle[i].page)
           buffer == IF r.id \in Untransformable THEN cycle[i].buffer ELSE cycle[i].buffer \cup {r}
       IN /\ cycle' = [cycle EXCEPT ![i] = [cycle[i] EXCEPT
                          !.page = cycle[i].page \ {r},
                          !.buffer = buffer,
                          !.reached = Reached(i, r)]]
          /\ Goto(i, IF Full(buffer) THEN "flush" ELSE "fetch")
    /\ UNCHANGED <<sourceVars, lockVars, checkpoint, extracted, memory, faults>>

\* flush_notices: everything is XADDed, or it raises with a part of it added.
Flush(i) ==
    /\ pc[i] = "flush"
    /\ \/ /\ NoFault
          /\ Added(cycle[i].buffer)
          /\ cycle' = [cycle EXCEPT ![i].buffer = {}]
          /\ Goto(i, "save")
       \/ /\ cycle[i].buffer # {}
          /\ Fault
          /\ \E part \in SUBSET cycle[i].buffer : Added(part)
          /\ cycle' = [cycle EXCEPT ![i] = NoCycle]
          /\ Goto(i, "release")
    /\ UNCHANGED <<sourceVars, lockVars, checkpoint, memory>>

\* MinIdCheckpoint notes the state in the process before it is saved; the save
\* may raise before or after it took effect.
SaveCheckpoint(i) ==
    /\ pc[i] = "save"
    /\ LET state == StateToSave(i) IN
           /\ memory' = IF strategy = "MinId" THEN [memory EXCEPT ![i] = state] ELSE memory
           /\ \/ /\ NoFault
                 /\ checkpoint' = IF state # 0 THEN state ELSE checkpoint
                 /\ IF cycle[i].ending
                      THEN cycle' = [cycle EXCEPT ![i] = NoCycle] /\ Goto(i, "release")
                      ELSE Goto(i, "fetch") /\ UNCHANGED cycle
              \/ /\ state # 0
                 /\ Fault
                 /\ checkpoint' \in {checkpoint, state}
                 /\ cycle' = [cycle EXCEPT ![i] = NoCycle]
                 /\ Goto(i, "release")
    /\ UNCHANGED <<sourceVars, lockVars, extracted>>

\* Loading the checkpoint or fetching raises: the cycle fails, what was
\* buffered is dropped and the checkpoint stays.
CycleFails(i) ==
    /\ pc[i] \in {"load", "fetch"}
    /\ Fault
    /\ cycle' = [cycle EXCEPT ![i] = NoCycle]
    /\ Goto(i, "release")
    /\ UNCHANGED <<sourceVars, lockVars, checkpoint, extracted, memory>>

\* release_lock
ReleaseWatch(i) ==
    /\ pc[i] = "release"
    /\ WATCH(i)
    /\ Goto(i, "get")
    /\ UNCHANGED <<sourceVars, checkpoint, extracted, cycle, memory, faults>>

ReleaseGet(i) ==
    /\ pc[i] = "get"
    /\ IF holder = i THEN Goto(i, "exec") /\ UNCHANGED lockVars
                     ELSE Goto(i, "idle") /\ UNWATCH(i)
    /\ UNCHANGED <<sourceVars, checkpoint, extracted, cycle, memory, faults>>

\* Seeded bug: DEL outside of the transaction.
DeleteUnwatched(i) == holder' = Free /\ watching' = {}

DeleteKey(i) == EXEC_DEL(i)

ReleaseExec(i) ==
    /\ pc[i] = "exec"
    /\ DeleteKey(i)
    /\ Goto(i, "idle")
    /\ UNCHANGED <<sourceVars, checkpoint, extracted, cycle, memory, faults>>

\* The process dies or is stopped; a RedisError of acquire or release ends it too.
Crash(i) ==
    /\ Fault
    /\ ABANDON(i)
    /\ cycle' = [cycle EXCEPT ![i] = NoCycle]
    /\ memory' = [memory EXCEPT ![i] = 0]
    /\ Goto(i, "idle")
    /\ UNCHANGED <<sourceVars, checkpoint, extracted>>

\* Twice the interval has passed since the lock was taken.
LockExpires == EXPIRE /\ UNCHANGED <<sourceVars, checkpoint, extracted, pc, cycle, memory, faults>>

-----------------------------------------------------------------------------
Source == Tick \/ \E n \in Ids : Modify(n) \/ Show(n)
Extract(i) ==
    LoadCheckpoint(i) \/ FetchPage(i) \/ TakeRecord(i) \/ Flush(i) \/ SaveCheckpoint(i)
Release(i) == ReleaseWatch(i) \/ ReleaseGet(i) \/ ReleaseExec(i)
Step(i) == Acquire(i) \/ Extract(i) \/ Release(i)

Next ==
    \/ Source
    \/ LockExpires
    \/ \E i \in Instances : Step(i) \/ CycleFails(i) \/ Crash(i)

Spec == Init /\ [][Next]_vars

\* The loops keep running, a TTL runs out, and what the source publishes it shows.
FairSpec ==
    /\ Spec
    /\ WF_vars(LockExpires)
    /\ \A i \in Instances : WF_vars(Step(i))
    /\ \A n \in Ids : WF_vars(Show(n))

-----------------------------------------------------------------------------
(* Properties *)

\* The worker state of runner.py and extract.py keeps its types; a buffer never
\* outgrows a flush.
TypeOK ==
    /\ strategy \in Strategies
    /\ clock \in 1..MaxClock
    /\ stamp \in [Ids -> 0..MaxClock]
    /\ shown \in [Ids -> 0..MaxClock]
    /\ LockTypeOK
    /\ checkpoint \in Marks
    /\ extracted \in [Ids -> 0..MaxClock]
    /\ pc \in [Instances -> Labels]
    /\ cycle \in [Instances -> Cycles]
    /\ memory \in [Instances -> Marks]
    /\ faults \in 0..MaxFaults

\* The next cycle starts behind record n, as it is now.
Passed(n) == IF strategy = "MinId" THEN stamp[n] # 0 /\ n < checkpoint
                                   ELSE stamp[n] # 0 /\ stamp[n] < DateOf(checkpoint)

\* Record n is in the stream: as it is now for CRZ and TED.  MinId never goes
\* back for a change, and a Vestnik bulletin is downloaded once.
InStream(n) == IF strategy = "WallClock" THEN extracted[n] >= stamp[n] ELSE extracted[n] # 0

\* The checkpoint (final_state, flush_state of extract.py) never passes a record
\* that is not in the stream: not one that changed or became visible while a
\* cycle ran, not one a failed or half-flushed cycle dropped, nor one another
\* instance is still working on.
NothingMissed == \A n \in Ids \ Untransformable : Passed(n) => InStream(n)

\* release_lock leaves the lock alone when it has passed to somebody else, even
\* between the comparison of its value and the deletion.
ReleaseOwnOnly ==
    [][\A i \in Instances : pc[i] = "exec" /\ pc'[i] = "idle" /\ holder # i => holder' = holder]_vars

=============================================================================
