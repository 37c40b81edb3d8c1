--------------------------- MODULE NoticeStream ---------------------------
(***************************************************************************)
(* The shared life of one notice stream: extractors flush batches into it  *)
(* behind backpressure (uvo_workers/flush.py, wait_for_capacity and        *)
(* xadd_many of uvo_core/adapters/redis/streams.py), the ingestor trims    *)
(* what is consumed (trim_consumed), and consumers read, acknowledge and   *)
(* reclaim at any moment in between.  Every Redis round trip is a step of  *)
(* its own: what a coroutine read in one round trip may be stale in the    *)
(* next.  The consumers are reduced to the commands they send; module      *)
(* Ingestor says when they send them.                                      *)
(***************************************************************************)
EXTENDS RedisStream

CONSTANTS
    Producers,   \* extractor instances flushing into this stream
    Trimmers,    \* ingestor instances running maintenance
    HighWater,   \* stream_high_water
    Batch,       \* largest flush (FLUSH_BATCH)
    MaxLen,      \* stream_maxlen_approx
    ReadCount,   \* ingestor_batch_size
    MaxPolls,    \* max_wait_seconds / poll_seconds
    MaxAdded     \* bound of the model: entries ever added, all flushes complete

\* The slots that all producers together may fill after one capacity check each.
Slots == Producers \X (1..Batch)

ASSUME StreamAssumption ==
    /\ IsFiniteSet(Producers)
    /\ HighWater \in Nat \ {0}
    /\ Batch \in Nat \ {0}
    /\ ReadCount \in Nat \ {0}
    /\ MaxLen \in Nat
    /\ MaxPolls \in Nat

\* The sizing settings.py relies on: high water plus every producer's batch in
\* flight stays within MAXLEN (50 000 + 500 per producer against 1 000 000).
ASSUME CapacityAssumption == HighWater - 1 + Cardinality(Slots) <= MaxLen

VARIABLES
    flush,  \* per producer: its flush_notices call
    trim    \* per trimmer: its trim_consumed call

vars == <<added, log, group, lastDelivered, pel, acked, flush, trim>>

FlushStates == [pc : {"idle", "xlen", "xinfo", "xadd"},
                left : 0..Batch,     \* notices of the batch still to add
                len : Nat,           \* length read by XLEN
                polls : 0..MaxPolls] \* sleeps so far
TrimStates == [pc : {"idle", "xpending", "xtrim"}, safe : Nat]

IdleFlush == [pc |-> "idle", left |-> 0, len |-> 0, polls |-> 0]
IdleTrim == [pc |-> "idle", safe |-> 0]

Init ==
    /\ StreamInit
    /\ flush = [p \in Producers |-> IdleFlush]
    /\ trim = [t \in Trimmers |-> IdleTrim]

-----------------------------------------------------------------------------
(* flush_notices: wait_for_capacity, then xadd_many *)

FlushStart(p) ==
    /\ flush[p].pc = "idle"
    /\ added + Cardinality(Slots) <= MaxAdded
    /\ \E n \in 1..Batch :
           flush' = [flush EXCEPT ![p] =
                        [pc |-> "xlen", left |-> n, len |-> 0, polls |-> 0]]
    /\ UNCHANGED <<streamVars, trim>>

\* group_stats, first round trip
ReadLength(p) ==
    /\ flush[p].pc = "xlen"
    /\ flush' = [flush EXCEPT ![p].pc = "xinfo", ![p].len = Cardinality(log)]
    /\ UNCHANGED <<streamVars, trim>>

\* The backlog group_stats computes with the length it read before: a group
\* that does not exist yet counts the whole stream.
Backlog(len) == IF group THEN Cardinality(Unread) + Cardinality(pel) ELSE len

\* Seeded bug: admits a backlog of exactly high water.
HasCapacityAtMark(backlog) == backlog <= HighWater

HasCapacity(backlog) == backlog < HighWater

\* Seeded bug: the time waited is never added up.
WaitedLongerForgotten(polls) == polls

WaitedLonger(polls) == polls + 1

\* group_stats, second round trip, and the decision taken on it
CheckCapacity(p) ==
    /\ flush[p].pc = "xinfo"
    /\ LET backlog == Backlog(flush[p].len) IN
           \/ /\ HasCapacity(backlog)
              /\ flush' = [flush EXCEPT ![p].pc = "xadd"]
           \/ /\ ~HasCapacity(backlog)     \* sleep and poll again
              /\ flush[p].polls < MaxPolls
              /\ flush' = [flush EXCEPT ![p].pc = "xlen",
                                         ![p].polls = WaitedLonger(flush[p].polls)]
           \/ /\ ~HasCapacity(backlog)     \* BackpressureTimeout
              /\ flush[p].polls = MaxPolls
              /\ flush' = [flush EXCEPT ![p] = IdleFlush]
    /\ UNCHANGED <<streamVars, trim>>

\* Seeded bug: one XADD more than the batch has notices.
LastOfBatchMissed(left) == left = 0

LastOfBatch(left) == left = 1

\* One XADD of the pipeline.  It is not a transaction: other clients' commands
\* run between two of them.
AddNotice(p) ==
    /\ flush[p].pc = "xadd"
    /\ XADD(MaxLen)
    /\ IF LastOfBatch(flush[p].left)
         THEN flush' = [flush EXCEPT ![p] = IdleFlush]
         ELSE flush' = [flush EXCEPT ![p].left = @ - 1]
    /\ UNCHANGED trim

\* The extractor dies, or Redis fails one of the round trips, mid-flush: what
\* was added stays and the rest of the batch is given up.
FlushAbort(p) ==
    /\ flush[p].pc # "idle"
    /\ flush' = [flush EXCEPT ![p] = IdleFlush]
    /\ UNCHANGED <<streamVars, trim>>

-----------------------------------------------------------------------------
(* trim_consumed *)

\* Seeded bug: trims up to the cursor although entries before it are pending.
BoundIgnoringPending == [pc |-> "xtrim", safe |-> lastDelivered]

\* With nothing pending everything before the last delivery is acked; otherwise
\* the oldest pending id has to be asked for.
Bound == IF pel = {} THEN [pc |-> "xtrim", safe |-> lastDelivered]
                     ELSE [pc |-> "xpending", safe |-> 0]

\* group_stats.  No group, or a group that has read nothing, leaves nothing to
\* trim.
TrimStats(t) ==
    /\ trim[t].pc = "idle"
    /\ lastDelivered > 0
    /\ trim' = [trim EXCEPT ![t] = Bound]
    /\ UNCHANGED <<streamVars, flush>>

\* XPENDING: the oldest pending id, or none if all were acked meanwhile.
TrimPending(t) ==
    /\ trim[t].pc = "xpending"
    /\ \/ /\ pel = {}
          /\ trim' = [trim EXCEPT ![t] = IdleTrim]
       \/ \E oldest \in pel :
             /\ \A id \in pel : oldest <= id
             /\ trim' = [trim EXCEPT ![t] = [pc |-> "xtrim", safe |-> oldest]]
    /\ UNCHANGED <<streamVars, flush>>

TrimExecute(t) ==
    /\ trim[t].pc = "xtrim"
    /\ XTRIM(trim[t].safe)
    /\ trim' = [trim EXCEPT ![t] = IdleTrim]
    /\ UNCHANGED flush

\* RedisError on XTRIM (swallowed), a failed round trip or a crash.
TrimAbort(t) ==
    /\ trim[t].pc # "idle"
    /\ trim' = [trim EXCEPT ![t] = IdleTrim]
    /\ UNCHANGED <<streamVars, flush>>

-----------------------------------------------------------------------------
(* The consumers, reduced to their commands *)

\* Seeded bug: the group starts at the tail of the stream ("$").
EnsureGroupAtTail == XGROUP_CREATE(added) /\ UNCHANGED <<flush, trim>>

EnsureGroup == XGROUP_CREATE(0) /\ UNCHANGED <<flush, trim>>

ReadGroup == (\E last \in Unread : XREADGROUP(ReadCount, last)) /\ UNCHANGED <<flush, trim>>

Acknowledge ==
    /\ \E ids \in SUBSET pel : ids # {} /\ XACK(ids)
    /\ UNCHANGED <<flush, trim>>

ReclaimDeleted == XAUTOCLAIM_DELETED /\ UNCHANGED <<flush, trim>>

-----------------------------------------------------------------------------
Produce(p) ==
    FlushStart(p) \/ ReadLength(p) \/ CheckCapacity(p) \/ AddNotice(p) \/ FlushAbort(p)
Maintain(t) == TrimStats(t) \/ TrimPending(t) \/ TrimExecute(t) \/ TrimAbort(t)
Consume == EnsureGroup \/ ReadGroup \/ Acknowledge \/ ReclaimDeleted

Next ==
    \/ \E p \in Producers : Produce(p)
    \/ \E t \in Trimmers : Maintain(t)
    \/ Consume

Spec == Init /\ [][Next]_vars

\* A coroutine that has a round trip to make makes it; nobody has to consume.
FlushProgress(p) == ReadLength(p) \/ CheckCapacity(p) \/ AddNotice(p)
FairSpec == Spec /\ \A p \in Producers : WF_vars(FlushProgress(p))

-----------------------------------------------------------------------------
(* Properties *)

\* The stream, the flushes and the trims keep their types; a flush of streams.py
\* that waits or adds has something left to add.
TypeOK ==
    /\ StreamTypeOK
    /\ flush \in [Producers -> FlushStates]
    /\ trim \in [Trimmers -> TrimStates]
    /\ \A p \in Producers : flush[p].pc # "idle" => flush[p].left > 0

\* Every entry the group has not read is still in the stream: neither the cap
\* of the XADDs nor a trim decided on old statistics removes it.
UnreadKept == ((lastDelivered + 1)..added) \subseteq log

\* The group skips nothing: an entry behind its cursor that is still stored was
\* delivered to somebody (ensure_consumer_group starts at 0, not at the tail).
NothingSkipped == \A id \in log : id <= lastDelivered => id \in pel \cup acked

\* Backpressure bounds the work in the stream whatever the interleaving: the
\* check and the XADDs it allows are separate round trips of several producers,
\* so the high-water mark itself may be passed, but only by one batch each.
BacklogBounded == Cardinality(Live) <= HighWater - 1 + Cardinality(Slots)

\* Maintenance deletes acknowledged entries only, though it decides on
\* statistics that reads, acks and flushes have outdated by the time it trims.
TrimOnlyAcked == [][added' = added => log \ log' \subseteq acked]_vars

\* A flush ends, with its batch added or given up, even if nobody consumes.
FlushEnds == \A p \in Producers : flush[p].pc # "idle" ~> flush[p].pc = "idle"
=============================================================================
