---------------------------- MODULE DedupWorker ----------------------------
(***************************************************************************)
(* The dedup workers (uvo_workers/dedup.py): the subscriber and the timer   *)
(* of each instance, the run under the lock (run_cross_source_dedup with    *)
(* persist_match_groups, then recompute_entity_stats), and the Ingestor     *)
(* that writes notices and announces them.  Module Matching has the three   *)
(* builders.  Of the clock a timer keeps what its tests ask: whether the    *)
(* debounce, the floor between runs and the interval have gone by.          *)
(***************************************************************************)
EXTENDS Matching, RedisLock

CONSTANTS
    Ids,            \* the notices of the model
    Versions,       \* what each of them says: a sequence of notices, oldest first
    Window,         \* those ingested within window_days
    Initially,      \* those stored, and not announced, when the workers start
    MaxFaults       \* bound of the model: failing calls, lost messages, process deaths

Entities ==
    (UNION {UNION {{v.procurer} \cup {a.supplier : a \in v.awards} :
                       v \in ToSet(Versions[n])} : n \in Ids}) \ {None}

ASSUME DedupAssumption ==
    /\ None \notin Ids
    /\ IsFiniteSet(Ids)
    /\ Window \subseteq Ids
    /\ Initially \subseteq Ids
    /\ DOMAIN Versions = Ids
    /\ \A n \in Ids :
          /\ Versions[n] \in Seq(ToSet(Versions[n]))
          /\ \A v \in ToSet(Versions[n]) : v.published \in Nat /\ v.final \in Nat
          /\ n \in Initially => Versions[n] # <<>>
    /\ MaxFaults \in Nat

VARIABLES
    revision,     \* notices: the version stored of each notice, 0: not ingested yet
    canonical,    \* notices: canonical_id
    matches,      \* cross_source_matches: the document of each canonical_id, or None
    stats,        \* procurers and suppliers: each entity's <<contract_count, total_value>>
    unpublished,  \* a batch is stored and notices:written not yet published
    timer,        \* per instance: the flags _timer looks at
    ears,         \* per instance: the subscriber
    pc, job,      \* per instance: the run
    faults

storeVars == <<revision, canonical, matches, stats>>
vars == <<revision, canonical, matches, stats, unpublished, timer, ears, pc, job, holder,
          watching, faults>>

Labels == {"watch", "lock", "persist", "upsert", "stats", "suppliers", "release", "dead"}
Kinds == {"procurers", "suppliers"}
PassOrder == <<"ico_cpv", "title_slug_date", "supplier_ico_value_window">>

Timers == [pending : BOOLEAN,   \* the pending event
           quiet : BOOLEAN,     \* dedup_debounce_seconds since last_write_time
           late : BOOLEAN,      \* dedup_interval_seconds since last_write_time
           open : BOOLEAN]      \* MIN_DEDUP_INTERVAL_SECONDS since last_dedup_run, or no run yet
FreshTimer == [pending |-> FALSE, quiet |-> FALSE, late |-> FALSE, open |-> TRUE]

\* A run: the passes begun, the groups of the current one and those not yet
\* persisted, the group of the pending upsert, whether nothing else has written
\* since the run began, and whether the lock was this run's all the while.
NoJob == [pass |-> 0, groups |-> {}, todo |-> {}, group |-> None, clean |-> FALSE, alone |-> FALSE]

Stored == {n \in Ids : revision[n] # 0}
Notice(n) == Versions[n][revision[n]]
Notices == [n \in Stored |-> Notice(n)]
InWindow == Stored \cap Window

Init ==
    /\ revision = [n \in Ids |-> IF n \in Initially THEN 1 ELSE 0]
    /\ canonical = [n \in Ids |-> None]
    /\ matches = [n \in Ids |-> None]
    /\ stats = [kind \in Kinds |-> [e \in Entities |-> <<0, 0>>]]
    /\ unpublished = (Initially # {})
    /\ timer = [i \in Instances |-> FreshTimer]
    /\ ears = [i \in Instances |-> "listening"]
    /\ pc = [i \in Instances |-> "watch"]
    /\ job = [i \in Instances |-> NoJob]
    /\ LockInit
    /\ faults = 0

-----------------------------------------------------------------------------
(* Helpers *)

Fault == faults < MaxFaults /\ faults' = faults + 1
NoFault == UNCHANGED faults
Goto(i, label) == pc' = [pc EXCEPT ![i] = label]

\* Labels of a run, after it took the lock and before it gives it back.
Running == {"persist", "upsert", "stats", "suppliers", "release"}

\* Everyone's run but i's is no longer alone with the corpus.
Disturb(i) == [j \in Instances |-> IF j = i THEN job[j] ELSE [job[j] EXCEPT !.clean = FALSE]]

\* _entity_stats_pipeline: each notice counts once for its procurer, and once
\* for each supplier however many awards it won.
ProcuredBy(e) == {n \in Stored : Notice(n).procurer = e}
WonBy(e) == {n \in Stored : \E award \in Notice(n).awards : award.supplier = e}
CountedFor(kind, e) == IF kind = "procurers" THEN ProcuredBy(e) ELSE WonBy(e)
StatsOf(S) == <<Cardinality(S), MapThenSumSet(LAMBDA n : Notice(n).final, S)>>

\* Seeded bug: an entity's stats are set once.
RecountedOnce(kind) ==
    [e \in Entities |-> IF CountedFor(kind, e) # {} /\ stats[kind][e] = <<0, 0>>
                          THEN StatsOf(CountedFor(kind, e)) ELSE stats[kind][e]]

\* recompute_entity_stats sets the entities the aggregation names, and only them.
Recounted(kind) ==
    [e \in Entities |-> IF CountedFor(kind, e) # {} THEN StatsOf(CountedFor(kind, e))
                        ELSE stats[kind][e]]

-----------------------------------------------------------------------------
(* The Ingestor: a batch is one notice here; canonical_id and ingested_at stay *)

WriteNotice(n) ==
    /\ revision[n] < Len(Versions[n])
    /\ revision' = [revision EXCEPT ![n] = @ + 1]
    /\ unpublished' = TRUE
    /\ job' = [j \in Instances |-> [job[j] EXCEPT !.clean = FALSE]]
    /\ UNCHANGED <<canonical, matches, stats, timer, ears, pc, lockVars, faults>>

\* The message reaches the subscribers there are, or is lost with the Ingestor.
PublishWritten ==
    /\ unpublished
    /\ unpublished' = FALSE
    /\ \/ /\ NoFault
          /\ timer' = [i \in Instances |->
                          IF ears[i] = "listening"
                            THEN [timer[i] EXCEPT !.pending = TRUE, !.quiet = FALSE, !.late = FALSE]
                            ELSE timer[i]]
       \/ Fault /\ UNCHANGED timer
    /\ UNCHANGED <<storeVars, ears, pc, job, lockVars>>

-----------------------------------------------------------------------------
(* The timer *)

\* Time goes by: the debounce, the longer interval, the floor.
Elapse(i) ==
    /\ ears[i] # "stopped"
    /\ \/ ~timer[i].quiet /\ timer' = [timer EXCEPT ![i].quiet = TRUE]
       \/ timer[i].quiet /\ ~timer[i].late /\ timer' = [timer EXCEPT ![i].late = TRUE]
       \/ ~timer[i].open /\ timer' = [timer EXCEPT ![i].open = TRUE]
    /\ UNCHANGED <<storeVars, unpublished, ears, pc, job, lockVars, faults>>

next_debounced_action(t) ==
    IF ~t.quiet THEN "sleep_debounce" ELSE IF ~t.open THEN "sleep_floor" ELSE "run"

TimerPending(i) ==
    /\ pc[i] = "watch"
    /\ timer[i].pending
    /\ next_debounced_action(timer[i]) = "run"
    /\ timer' = [timer EXCEPT ![i].pending = FALSE, ![i].open = FALSE]
    /\ Goto(i, "lock")

\* Seeded bug: the fallback sits in the branch of a pending trigger.
TimerIntervalPending(i) ==
    /\ pc[i] = "watch"
    /\ timer[i].pending
    /\ timer[i].late
    /\ timer' = [timer EXCEPT ![i].quiet = FALSE, ![i].late = FALSE, ![i].open = FALSE]
    /\ Goto(i, "lock")

TimerInterval(i) ==
    /\ pc[i] = "watch"
    /\ ~timer[i].pending
    /\ timer[i].late
    /\ timer' = [timer EXCEPT ![i].quiet = FALSE, ![i].late = FALSE, ![i].open = FALSE]
    /\ Goto(i, "lock")

Timer(i) ==
    /\ TimerPending(i) \/ TimerInterval(i)
    /\ UNCHANGED <<storeVars, unpublished, ears, job, lockVars, faults>>

-----------------------------------------------------------------------------
(* The run *)

\* SET NX.  Held by another: the run is skipped, not queued.  A RedisError is
\* caught nowhere: the timer task ends, and the process goes on without it.
AcquireLock(i) ==
    /\ pc[i] = "lock"
    /\ \/ /\ SET_NX(i)
          /\ job' = [job EXCEPT ![i] = [NoJob EXCEPT
                        !.clean = TRUE, !.alone = \A j \in Instances \ {i} : pc[j] \notin Running]]
          /\ Goto(i, "persist")
          /\ NoFault
       \/ holder # Free /\ Goto(i, "watch") /\ NoFault /\ UNCHANGED <<job, lockVars>>
       \/ Fault /\ Goto(i, "dead") /\ UNCHANGED <<job, lockVars>>
    /\ UNCHANGED <<storeVars, unpublished, timer, ears>>

\* The read of the next pass, once the one before is persisted.
ReadyToBuild(i) == pc[i] = "persist" /\ job[i].todo = {} /\ job[i].pass < Len(PassOrder)

BuildGroups(i) ==
    /\ ReadyToBuild(i)
    /\ \E order \in SortedByDate(Notices, InWindow) :
           LET groups == Build(PassOrder[job[i].pass + 1], Notices, canonical, InWindow, order)
           IN job' = [job EXCEPT ![i] = [job[i] EXCEPT
                         !.pass = @ + 1, !.groups = groups, !.todo = groups]]
    /\ UNCHANGED <<storeVars, unpublished, timer, ears, pc, lockVars, faults>>

\* persist_match_groups: update_many on the members ...
UpdateMembers(i) ==
    /\ pc[i] = "persist"
    /\ \E g \in job[i].todo :
           /\ canonical' = [n \in Ids |-> IF n \in g.notices THEN g.canonical_id ELSE canonical[n]]
           /\ job' = [Disturb(i) EXCEPT ![i].todo = @ \ {g}, ![i].group = g]
    /\ Goto(i, "upsert")
    /\ UNCHANGED <<revision, matches, stats, unpublished, timer, ears, lockVars, faults>>

\* ... then the upsert of the match, by canonical_id.
UpsertMatch(i) ==
    /\ pc[i] = "upsert"
    /\ matches' = [matches EXCEPT ![job[i].group.canonical_id] = job[i].group]
    /\ job' = [job EXCEPT ![i].group = None]
    /\ Goto(i, "persist")
    /\ UNCHANGED <<revision, canonical, stats, unpublished, timer, ears, lockVars, faults>>

RunComplete(i) ==
    /\ pc[i] = "persist"
    /\ job[i].todo = {}
    /\ job[i].pass = Len(PassOrder)
    /\ Goto(i, "stats")
    /\ UNCHANGED <<storeVars, unpublished, timer, ears, job, lockVars, faults>>

RecomputeStats(i) ==
    /\ \/ /\ pc[i] = "stats"
          /\ stats' = [stats EXCEPT !["procurers"] = Recounted("procurers")]
          /\ Goto(i, "suppliers")
       \/ /\ pc[i] = "suppliers"
          /\ stats' = [stats EXCEPT !["suppliers"] = Recounted("suppliers")]
          /\ Goto(i, "release")
    /\ UNCHANGED <<revision, canonical, matches, unpublished, timer, ears, job, lockVars, faults>>

\* A call to MongoDB raises; it is caught, and the run is over.
RunFails(i) ==
    /\ pc[i] \in {"persist", "upsert", "stats", "suppliers"}
    /\ Fault
    /\ Goto(i, "release")
    /\ UNCHANGED <<storeVars, unpublished, timer, ears, job, lockVars>>

\* release_lock; the process starts over if it was stopped.  A RedisError here
\* leaves the key to its TTL and ends the timer task.
ReleaseLock(i) ==
    /\ pc[i] = "release"
    /\ job' = [job EXCEPT ![i] = NoJob]
    /\ \/ /\ NoFault
          /\ RELEASE(i)
          /\ Goto(i, "watch")
          /\ ears' = [ears EXCEPT ![i] = IF @ = "stopped" THEN "listening" ELSE @]
       \/ /\ Fault
          /\ ears[i] # "stopped"
          /\ Goto(i, "dead")
          /\ UNCHANGED <<ears, lockVars>>
    /\ UNCHANGED <<storeVars, unpublished, timer>>

-----------------------------------------------------------------------------
(* What goes wrong around it *)

\* The pub/sub connection is lost: the subscriber task ends, unnoticed.
SubscriberDies(i) ==
    /\ ears[i] = "listening"
    /\ Fault
    /\ ears' = [ears EXCEPT ![i] = "deaf"]
    /\ UNCHANGED <<storeVars, unpublished, timer, pc, job, lockVars>>

\* SIGTERM cancels the run where it is; the lock is still released.
Stop(i) ==
    /\ pc[i] \in {"persist", "upsert", "stats", "suppliers"}
    /\ Fault
    /\ ears' = [ears EXCEPT ![i] = "stopped"]
    /\ timer' = [timer EXCEPT ![i] = FreshTimer]
    /\ Goto(i, "release")
    /\ UNCHANGED <<storeVars, unpublished, job, lockVars>>

\* The process dies and is started again.
Crash(i) ==
    /\ Fault
    /\ ABANDON(i)
    /\ timer' = [timer EXCEPT ![i] = FreshTimer]
    /\ ears' = [ears EXCEPT ![i] = "listening"]
    /\ job' = [job EXCEPT ![i] = NoJob]
    /\ Goto(i, "watch")
    /\ UNCHANGED <<storeVars, unpublished>>

\* dedup_lock_ttl_seconds run out: on the lock of a dead process, or under a
\* run that takes longer.
LockExpires ==
    /\ EXPIRE
    /\ IF holder \in Instances /\ pc[holder] # "dead" THEN Fault ELSE NoFault
    /\ job' = [j \in Instances |-> [job[j] EXCEPT !.alone = FALSE]]
    /\ UNCHANGED <<storeVars, unpublished, timer, ears, pc>>

-----------------------------------------------------------------------------
Write(i) ==
    \/ AcquireLock(i) \/ UpdateMembers(i) \/ UpsertMatch(i)
    \/ RunComplete(i) \/ RecomputeStats(i) \/ ReleaseLock(i)

Next ==
    \/ \E n \in Ids : WriteNotice(n)
    \/ PublishWritten
    \/ LockExpires
    \/ \E i \in Instances :
          \/ Elapse(i) \/ Timer(i) \/ BuildGroups(i) \/ Write(i)
          \/ RunFails(i) \/ SubscriberDies(i) \/ Stop(i) \/ Crash(i)

Spec == Init /\ [][Next]_vars

\* Time goes by, a published message arrives, a TTL runs out, a worker works.  A
\* run that is ready to build stays ready until it does or the run ends, so that
\* weak fairness of BuildGroups is that it is never ready for ever.
FairSpec ==
    /\ Spec
    /\ WF_vars(PublishWritten)
    /\ WF_vars(LockExpires)
    /\ \A i \in Instances :
          /\ WF_vars(Elapse(i)) /\ WF_vars(Timer(i)) /\ WF_vars(Write(i))
          /\ []<>~ReadyToBuild(i)
-----------------------------------------------------------------------------
(* Properties *)

Groups ==
    [canonical_id : Ids, notices : (SUBSET Ids) \ {{}}, match_type : Passes]

\* The worker's state (_serve_dedup) and the two collections keep their types.
TypeOK ==
    /\ revision \in [Ids -> Nat]
    /\ canonical \in [Ids -> Ids \cup {None}]
    /\ \A n \in Ids : matches[n] # None => matches[n] \in Groups
    /\ stats \in [Kinds -> [Entities -> Nat \X Nat]]
    /\ unpublished \in BOOLEAN
    /\ timer \in [Instances -> Timers]
    /\ ears \in [Instances -> {"listening", "deaf", "stopped"}]
    /\ pc \in [Instances -> Labels]
    /\ \A i \in Instances : job[i].todo \subseteq job[i].groups /\ job[i].groups \subseteq Groups
    /\ LockTypeOK
    /\ faults \in 0..MaxFaults

\* Clustering is greedy, around an anchor, yet the members of each group belong
\* together pairwise, come from two sources, and the canonical one is the
\* earliest (build_*_groups of dedup.py), whatever order the query returned.
GroupsSound ==
    [][\A i \in Instances : job'[i].pass # job[i].pass =>
          \A g \in job'[i].groups : SoundGroup(Notices, g)]_vars

\* Notices a run should have assigned: one whose procurer and code another
\* source has too, settled or not, and two unassigned ones that match otherwise.
Unmatched ==
    {n \in InWindow : canonical[n] = None
        /\ \E m \in InWindow :
              /\ Matching(Notices, InWindow, n, m)
              /\ canonical[m] = None \/ SameProcurerAndCpv(Notices, n, m)}

\* A run that nothing wrote beside leaves no such notice (run_cross_source_dedup):
\* neither a greedy cluster nor a pass that comes first hides a pair, and a third
\* source that comes late joins the settled group of its procurer and code.
NothingLeftUnmatched ==
    \A i \in Instances : pc[i] = "stats" /\ job[i].clean => Unmatched = {}

\* Passes 2 and 3 look for unassigned notices only after the pass before is
\* persisted (docstring of run_cross_source_dedup), so a run that has the lock to
\* itself never takes a notice out of a group it was put in by an earlier pass
\* or run.  A notice with two suppliers may be in two groups of one pass.
SettledKept ==
    [][\A i \in Instances :
          pc[i] = "persist" /\ pc'[i] = "upsert" /\ job[i].alone /\ job[i].pass > 1 =>
              \A n \in Ids : canonical[n] \notin {None, canonical'[n]} =>
                  \E g, h \in job[i].groups : g # h /\ n \in g.notices \cap h.notices]_vars

\* A RedisError of the lock has ended every timer: nothing runs any more.
AllTimersDead == \A i \in Instances : pc[i] = "dead"

\* Whatever else is lost (a message, a subscriber, a run, a lock): once writes stop
\* every pair is found in the end, by the next trigger or by the interval.
DuplicatesFound == <>[](Unmatched = {} \/ AllTimersDead)

\* The stats of the entities the corpus names catch up with the corpus.
StatsCatchUp ==
    <>[](\/ AllTimersDead
         \/ \A kind \in Kinds, e \in Entities :
               CountedFor(kind, e) # {} => stats[kind][e] = StatsOf(CountedFor(kind, e)))
=============================================================================
