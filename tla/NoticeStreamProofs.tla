------------------------ MODULE NoticeStreamProofs ------------------------
(***************************************************************************)
(* Proofs about NoticeStream, for every number of producers and trimmers,  *)
(* every high-water mark, batch size and cap that the settings' sizing     *)
(* admits, and without the model's bound on what is ever added.            *)
(***************************************************************************)
EXTENDS NoticeStream, FiniteSetTheorems, TLAPS

(***************************************************************************)
(* The inductive invariant.                                                *)
(***************************************************************************)

\* Before the group exists nothing was delivered.
GroupInv == ~group => lastDelivered = 0

\* A trim about to run cuts only ids below everything pending and not above
\* the cursor; both keep that true whatever is read and acked meanwhile.
TrimInv ==
    \A t \in Trimmers : trim[t].pc = "xtrim" =>
        /\ trim[t].safe <= lastDelivered
        /\ \A id \in pel : trim[t].safe <= id

\* What a producer may still add on the strength of a capacity check, made or
\* about to be decided in its favour by the length it holds.
Allowance(p) ==
    IF \/ flush[p].pc = "xadd"
       \/ flush[p].pc = "xinfo" /\ ~group /\ flush[p].len < HighWater
      THEN flush[p].left ELSE 0

\* The allowances of all producers, as a set of slots so that they can be counted.
Reserved == {s \in Slots : s[2] <= Allowance(s[1])}

\* Above the high-water mark the backlog and the allowances trade one for one.
CapacityInv ==
    Cardinality(Live) >= HighWater =>
        Cardinality(Live) + Cardinality(Reserved) <= HighWater - 1 + Cardinality(Slots)

IInv == TypeOK /\ GroupInv /\ TrimInv /\ CapacityInv /\ UnreadKept /\ NothingSkipped

-----------------------------------------------------------------------------
(* Finite sets *)

\* All the sets that are counted are finite.
LEMMA Finite ==
    ASSUME TypeOK
    PROVE  /\ IsFiniteSet(log) /\ IsFiniteSet(pel) /\ IsFiniteSet(Live)
           /\ IsFiniteSet(Unread) /\ IsFiniteSet(Slots) /\ IsFiniteSet(Reserved)
<1>1. /\ IsFiniteSet(1..added) /\ IsFiniteSet(1..lastDelivered)
      /\ IsFiniteSet((lastDelivered + 1)..added) /\ IsFiniteSet(1..Batch)
  BY FS_Interval, StreamAssumption DEF TypeOK, StreamTypeOK
<1>2. IsFiniteSet(log) /\ IsFiniteSet(pel)
  BY <1>1, FS_Subset DEF TypeOK, StreamTypeOK
<1>3. IsFiniteSet(Live)
  BY <1>1, <1>2, FS_Union DEF Live
<1>4. IsFiniteSet(Unread)
  BY <1>2, FS_Subset DEF Unread
<1>5. IsFiniteSet(Slots)
  BY <1>1, FS_Product, StreamAssumption DEF Slots
<1>6. IsFiniteSet(Reserved)
  BY <1>5, FS_Subset DEF Reserved
<1> QED BY <1>2, <1>3, <1>4, <1>5, <1>6

\* A step that lets no backlog and no allowance grow keeps CapacityInv.
LEMMA CapacityKept ==
    ASSUME TypeOK, TypeOK', CapacityInv,
           Live' \subseteq Live, Reserved' \subseteq Reserved
    PROVE  CapacityInv'
<1>1. /\ IsFiniteSet(Live) /\ IsFiniteSet(Reserved) /\ IsFiniteSet(Slots)
      /\ IsFiniteSet(Live') /\ IsFiniteSet(Reserved')
  BY Finite, FS_Subset
<1>2. Cardinality(Live') <= Cardinality(Live) /\ Cardinality(Reserved') <= Cardinality(Reserved)
  BY <1>1, FS_Subset
<1>3. /\ Cardinality(Live) \in Nat /\ Cardinality(Reserved) \in Nat /\ Cardinality(Slots) \in Nat
      /\ Cardinality(Live') \in Nat /\ Cardinality(Reserved') \in Nat
  BY <1>1, FS_CardinalityType
<1>4. Slots' = Slots
  BY DEF Slots
<1> QED BY <1>2, <1>3, <1>4, StreamAssumption DEF CapacityInv

-----------------------------------------------------------------------------
(* Type correctness *)

\* The stream, the flushes and the trims start with their types.
LEMMA InitTypeOK == Init => TypeOK
<1> SUFFICES ASSUME Init PROVE TypeOK
  OBVIOUS
<1>1. StreamTypeOK
  <2>1. /\ added \in Nat /\ log \subseteq 1..added /\ lastDelivered \in 0..added
        /\ pel \subseteq 1..lastDelivered /\ acked \subseteq 1..lastDelivered
    BY DEF Init, StreamInit
  <2>2. group \in BOOLEAN
    BY DEF Init, StreamInit
  <2> QED BY <2>1, <2>2 DEF StreamTypeOK
<1>2. IdleFlush \in FlushStates /\ IdleTrim \in TrimStates
  BY StreamAssumption DEF FlushStates, TrimStates, IdleFlush, IdleTrim
<1>3. \A p \in Producers : flush[p].pc = "idle"
  BY DEF Init, IdleFlush
<1> QED BY <1>1, <1>2, <1>3 DEF Init, TypeOK

\* Every step of a flush, a trim or a consumer keeps the types.
LEMMA NextTypeOK ==
    ASSUME TypeOK, GroupInv, [Next]_vars
    PROVE  TypeOK'
<1> USE StreamAssumption DEF TypeOK, StreamTypeOK, FlushStates, TrimStates, IdleFlush, IdleTrim
<1>1. ASSUME NEW p \in Producers, FlushStart(p) PROVE TypeOK'
  <2>1. PICK n \in 1..Batch :
            flush' = [flush EXCEPT ![p] =
                         [pc |-> "xlen", left |-> n, len |-> 0, polls |-> 0]]
    BY <1>1 DEF FlushStart
  <2>2. [pc |-> "xlen", left |-> n, len |-> 0, polls |-> 0] \in FlushStates
    OBVIOUS
  <2>3. flush' \in [Producers -> FlushStates]
    BY <2>1, <2>2
  <2>4. \A q \in Producers : flush'[q].pc # "idle" => flush'[q].left > 0
    BY <2>1
  <2> QED BY <1>1, <2>3, <2>4 DEF FlushStart, streamVars
<1>2. ASSUME NEW p \in Producers, ReadLength(p) PROVE TypeOK'
  <2>1. Cardinality(log) \in Nat
    BY Finite, FS_CardinalityType
  <2> QED BY <1>2, <2>1 DEF ReadLength, streamVars
<1>3. ASSUME NEW p \in Producers, CheckCapacity(p) PROVE TypeOK'
  BY <1>3 DEF CheckCapacity, streamVars
<1>4. ASSUME NEW p \in Producers, AddNotice(p) PROVE TypeOK'
  <2>1. StreamTypeOK'
    <3>1. added' = added + 1 /\ log' \subseteq log \cup {added + 1}
      BY <1>4 DEF AddNotice, XADD
    <3>2. UNCHANGED <<group, lastDelivered, pel, acked>>
      BY <1>4 DEF AddNotice, XADD
    <3> QED BY <3>1, <3>2
  <2>2. flush' \in [Producers -> FlushStates]
    BY <1>4 DEF AddNotice
  <2>3. \A q \in Producers : flush'[q].pc # "idle" => flush'[q].left > 0
    BY <1>4 DEF AddNotice, LastOfBatch
  <2> QED BY <1>4, <2>1, <2>2, <2>3 DEF AddNotice
<1>5. ASSUME NEW p \in Producers, FlushAbort(p) PROVE TypeOK'
  BY <1>5 DEF FlushAbort, streamVars
<1>6. ASSUME NEW t \in Trimmers, TrimStats(t) PROVE TypeOK'
  BY <1>6 DEF TrimStats, Bound, streamVars
<1>7. ASSUME NEW t \in Trimmers, TrimPending(t) PROVE TypeOK'
  BY <1>7 DEF TrimPending, streamVars
<1>8. ASSUME NEW t \in Trimmers, TrimExecute(t) PROVE TypeOK'
  BY <1>8 DEF TrimExecute, XTRIM
<1>9. ASSUME NEW t \in Trimmers, TrimAbort(t) PROVE TypeOK'
  BY <1>9 DEF TrimAbort, streamVars
<1>10. ASSUME EnsureGroup PROVE TypeOK'
  <2>1. group' = TRUE
    BY <1>10 DEF EnsureGroup, XGROUP_CREATE
  <2>2. pel = {} /\ acked = {} /\ lastDelivered' = 0
    BY <1>10 DEF EnsureGroup, XGROUP_CREATE, GroupInv
  <2> QED BY <1>10, <2>1, <2>2 DEF EnsureGroup, XGROUP_CREATE
<1>11. ASSUME ReadGroup PROVE TypeOK'
  <2>1. PICK last \in Unread : XREADGROUP(ReadCount, last)
    BY <1>11 DEF ReadGroup
  <2>2. last \in 1..added /\ lastDelivered < last /\ lastDelivered' = last
    BY <2>1 DEF XREADGROUP, Unread
  <2>3. pel' \subseteq pel \cup {id \in log : id <= last} /\ acked' = acked
    BY <2>1 DEF XREADGROUP, Unread
  <2>4. pel' \subseteq 1..last /\ acked' \subseteq 1..last
    BY <2>2, <2>3
  <2> QED BY <1>11, <2>1, <2>2, <2>4 DEF ReadGroup, XREADGROUP
<1>12. ASSUME Acknowledge PROVE TypeOK'
  <2>1. PICK ids \in SUBSET pel : XACK(ids)
    BY <1>12 DEF Acknowledge
  <2>2. pel' \subseteq pel /\ acked' \subseteq acked \cup pel
    BY <2>1 DEF XACK
  <2> QED BY <1>12, <2>1, <2>2 DEF Acknowledge, XACK
<1>13. ASSUME ReclaimDeleted PROVE TypeOK'
  BY <1>13 DEF ReclaimDeleted, XAUTOCLAIM_DELETED
<1>14. ASSUME UNCHANGED vars PROVE TypeOK'
  BY <1>14 DEF vars
<1> QED BY <1>1, <1>2, <1>3, <1>4, <1>5, <1>6, <1>7, <1>8, <1>9, <1>10, <1>11, <1>12, <1>13,
           <1>14 DEF Next, Produce, Maintain, Consume

-----------------------------------------------------------------------------
(* The stream: what the group has not read stays, what it has read was delivered *)

\* The steps that touch the stream, and what the others leave alone.
LEMMA StreamSteps ==
    ASSUME [Next]_vars
    PROVE  \/ UNCHANGED streamVars
           \/ \E p \in Producers : AddNotice(p)
           \/ \E t \in Trimmers : TrimExecute(t)
           \/ EnsureGroup \/ ReadGroup \/ Acknowledge \/ ReclaimDeleted
BY DEF Next, vars, Produce, Maintain, Consume, FlushStart, ReadLength, CheckCapacity, FlushAbort,
       TrimStats, TrimPending, TrimAbort, streamVars

\* Only ensure_consumer_group and read_group move the cursor, and only forward.
LEMMA NextGroupInv ==
    ASSUME TypeOK, GroupInv, [Next]_vars
    PROVE  GroupInv'
<1>1. CASE UNCHANGED streamVars
  BY <1>1 DEF GroupInv, streamVars
<1>2. ASSUME NEW p \in Producers, AddNotice(p) PROVE GroupInv'
  BY <1>2 DEF GroupInv, AddNotice, XADD
<1>3. ASSUME NEW t \in Trimmers, TrimExecute(t) PROVE GroupInv'
  BY <1>3 DEF GroupInv, TrimExecute, XTRIM
<1>4. CASE EnsureGroup
  BY <1>4 DEF GroupInv, EnsureGroup, XGROUP_CREATE
<1>5. CASE ReadGroup
  BY <1>5 DEF GroupInv, ReadGroup, XREADGROUP
<1>6. CASE Acknowledge \/ ReclaimDeleted
  BY <1>6 DEF GroupInv, Acknowledge, XACK, ReclaimDeleted, XAUTOCLAIM_DELETED
<1> QED BY <1>1, <1>2, <1>3, <1>4, <1>5, <1>6, StreamSteps

\* read_group delivers all it moves the cursor over, and no XADD adds behind it.
LEMMA NextNothingSkipped ==
    ASSUME TypeOK, NothingSkipped, [Next]_vars
    PROVE  NothingSkipped'
<1> USE DEF TypeOK, StreamTypeOK, NothingSkipped
<1>1. CASE UNCHANGED streamVars
  BY <1>1 DEF streamVars
<1>2. ASSUME NEW p \in Producers, AddNotice(p) PROVE NothingSkipped'
  <2>1. log' \subseteq log \cup {added + 1}
    BY <1>2 DEF AddNotice, XADD
  <2>2. UNCHANGED <<lastDelivered, pel, acked>>
    BY <1>2 DEF AddNotice, XADD
  <2>3. lastDelivered < added + 1
    OBVIOUS
  <2> QED BY <2>1, <2>2, <2>3
<1>3. ASSUME NEW t \in Trimmers, TrimExecute(t) PROVE NothingSkipped'
  BY <1>3 DEF TrimExecute, XTRIM
<1>4. CASE EnsureGroup
  BY <1>4 DEF EnsureGroup, XGROUP_CREATE
<1>5. CASE ReadGroup
  <2>1. PICK last \in Unread : XREADGROUP(ReadCount, last)
    BY <1>5 DEF ReadGroup
  <2>2. /\ pel' = pel \cup {id \in Unread : id <= last}
        /\ lastDelivered' = last /\ log' = log /\ acked' = acked
    BY <2>1 DEF XREADGROUP
  <2> QED BY <2>2 DEF Unread
<1>6. CASE Acknowledge
  BY <1>6 DEF Acknowledge, XACK
<1>7. CASE ReclaimDeleted
  BY <1>7 DEF ReclaimDeleted, XAUTOCLAIM_DELETED
<1> QED BY <1>1, <1>2, <1>3, <1>4, <1>5, <1>6, <1>7, StreamSteps

-----------------------------------------------------------------------------
(* Trimming on old statistics *)

\* The bound a trim carries from one round trip to the next stays safe meanwhile.
LEMMA NextTrimInv ==
    ASSUME TypeOK, GroupInv, TrimInv, [Next]_vars
    PROVE  TrimInv'
<1> USE DEF TrimInv
\* What readers may do between the statistics and the trim.
<1>1. ASSUME trim' = trim, lastDelivered' \in Nat, lastDelivered <= lastDelivered',
             \A id \in pel' : id \in pel \/ id > lastDelivered
      PROVE  TrimInv'
  <2> SUFFICES ASSUME NEW t \in Trimmers, trim[t].pc = "xtrim"
               PROVE  trim[t].safe <= lastDelivered' /\ \A id \in pel' : trim[t].safe <= id
    BY <1>1
  <2>1. /\ trim[t].safe \in Nat /\ lastDelivered \in Nat
        /\ pel \subseteq Nat /\ trim[t].safe <= lastDelivered
    BY DEF TypeOK, StreamTypeOK, TrimStates
  <2>2. pel' \subseteq Nat
    BY NextTypeOK DEF TypeOK, StreamTypeOK
  <2> QED BY <1>1, <2>1, <2>2
<1>2. ASSUME trim' = trim, lastDelivered' = lastDelivered, pel' \subseteq pel PROVE TrimInv'
  BY <1>2
<1>3. ASSUME NEW p \in Producers, Produce(p) PROVE TrimInv'
  BY <1>2, <1>3 DEF Produce, FlushStart, ReadLength, CheckCapacity, AddNotice, FlushAbort, XADD,
                    streamVars
<1>4. ASSUME NEW t \in Trimmers, TrimStats(t) PROVE TrimInv'
  BY <1>4 DEF TrimStats, Bound, streamVars, TypeOK, StreamTypeOK
<1>5. ASSUME NEW t \in Trimmers, TrimPending(t) PROVE TrimInv'
  <2>1. UNCHANGED <<pel, lastDelivered>>
    BY <1>5 DEF TrimPending, streamVars
  <2>2. CASE trim' = [trim EXCEPT ![t] = IdleTrim]
    BY <2>1, <2>2 DEF TypeOK, IdleTrim
  <2>3. CASE \E oldest \in pel :
                 /\ \A id \in pel : oldest <= id
                 /\ trim' = [trim EXCEPT ![t] = [pc |-> "xtrim", safe |-> oldest]]
    BY <2>1, <2>3 DEF TypeOK, StreamTypeOK
  <2> QED BY <1>5, <2>2, <2>3 DEF TrimPending
<1>6. ASSUME NEW t \in Trimmers, TrimExecute(t) \/ TrimAbort(t) PROVE TrimInv'
  BY <1>6 DEF TrimExecute, TrimAbort, XTRIM, streamVars, TypeOK, IdleTrim
<1>7. CASE EnsureGroup
  BY <1>2, <1>7 DEF EnsureGroup, XGROUP_CREATE, GroupInv
<1>8. CASE ReadGroup
  <2>1. PICK last \in Unread : XREADGROUP(ReadCount, last)
    BY <1>8 DEF ReadGroup
  <2>2. /\ pel' = pel \cup {id \in Unread : id <= last}
        /\ lastDelivered' = last /\ last > lastDelivered
    BY <2>1 DEF XREADGROUP, Unread
  <2>3. lastDelivered' \in Nat /\ lastDelivered \in Nat
    BY <2>2 DEF Unread, TypeOK, StreamTypeOK
  <2> QED BY <1>1, <1>8, <2>2, <2>3 DEF ReadGroup, Unread
<1>9. CASE Acknowledge \/ ReclaimDeleted
  BY <1>2, <1>9 DEF Acknowledge, XACK, ReclaimDeleted, XAUTOCLAIM_DELETED
<1>10. CASE UNCHANGED vars
  BY <1>2, <1>10 DEF vars
<1> QED BY <1>3, <1>4, <1>5, <1>6, <1>7, <1>8, <1>9, <1>10 DEF Next, Maintain, Consume

-----------------------------------------------------------------------------
(* Backpressure *)

\* Everything the group has not read is unread in the stream, so a backlog
\* below high water is a number of live entries below high water.
LEMMA BacklogIsLive ==
    ASSUME TypeOK, UnreadKept, group
    PROVE  Cardinality(Live) <= Cardinality(Unread) + Cardinality(pel)
<1>1. IsFiniteSet(Unread) /\ IsFiniteSet(pel) /\ IsFiniteSet(Unread \cup pel)
  BY Finite, FS_Union
<1>2. Live \subseteq Unread \cup pel
  BY DEF Live, Unread, UnreadKept, TypeOK, StreamTypeOK
<1>3. Cardinality(Live) <= Cardinality(Unread \cup pel)
  BY <1>1, <1>2, FS_Subset
<1>4. Cardinality(Unread \cup pel) =
          Cardinality(Unread) + Cardinality(pel) - Cardinality(Unread \cap pel)
  BY <1>1, FS_Union
<1>5. IsFiniteSet(Unread \cap pel) /\ IsFiniteSet(Live)
  BY <1>1, Finite, FS_Intersection
<1>6. /\ Cardinality(Unread) \in Nat /\ Cardinality(pel) \in Nat
      /\ Cardinality(Unread \cap pel) \in Nat /\ Cardinality(Live) \in Nat
      /\ Cardinality(Unread \cup pel) \in Nat
  BY <1>1, <1>5, FS_CardinalityType
<1> QED BY <1>3, <1>4, <1>6

\* Without a group all that was added is still there, so the length bounds it.
LEMMA LengthIsLive ==
    ASSUME TypeOK, GroupInv, UnreadKept, ~group
    PROVE  Cardinality(Live) <= Cardinality(log)
<1>1. lastDelivered = 0
  BY DEF GroupInv
<1>2. Live \subseteq log
  BY <1>1 DEF Live, UnreadKept, TypeOK, StreamTypeOK
<1> QED BY <1>2, Finite, FS_Subset

\* One XADD of a flush spends one slot of its allowance.
LEMMA AddSpendsSlot ==
    ASSUME TypeOK, TypeOK', CapacityInv, NEW p \in Producers, AddNotice(p)
    PROVE  CapacityInv'
<1> DEFINE slot == <<p, flush[p].left>>
<1>1. /\ added' = added + 1 /\ UNCHANGED <<group, lastDelivered, pel>>
      /\ added \in Nat /\ lastDelivered \in 0..added /\ pel \subseteq 1..lastDelivered
  BY DEF AddNotice, XADD, TypeOK, StreamTypeOK
<1>2. Live' = Live \cup {added + 1} /\ added + 1 \notin Live
  BY <1>1 DEF Live
<1>3. Cardinality(Live') = Cardinality(Live) + 1
  BY <1>2, Finite, FS_AddElement
<1>4. flush[p].pc = "xadd" /\ flush[p].left \in 1..Batch
  BY DEF AddNotice, TypeOK, FlushStates
<1>5. slot \in Reserved /\ slot \in Slots
  BY <1>4 DEF Reserved, Slots, Allowance
<1>6. Reserved' \subseteq Reserved \ {slot}
  <2>1. \A q \in Producers : q # p => flush'[q] = flush[q]
    BY DEF AddNotice, TypeOK
  <2>2. ASSUME NEW q \in Producers, q # p PROVE Allowance(q)' = Allowance(q)
    <3>1. flush'[q] = flush[q] /\ group' = group
      BY <1>1, <2>1, <2>2
    <3> QED BY <3>1 DEF Allowance
  <2>3. CASE flush[p].left = 1
    <3>1. flush'[p] = IdleFlush
      BY <2>3 DEF AddNotice, LastOfBatch, TypeOK
    <3>2. Allowance(p)' = 0
      BY <3>1 DEF Allowance, IdleFlush
    <3> QED BY <2>2, <3>2 DEF Reserved, Slots
  <2>4. CASE flush[p].left # 1
    <3>1. flush'[p].pc = "xadd" /\ flush'[p].left = flush[p].left - 1
      BY <1>4, <2>4 DEF AddNotice, LastOfBatch, TypeOK, FlushStates
    <3>2. Allowance(p)' = flush[p].left - 1 /\ Allowance(p) = flush[p].left
      BY <1>4, <3>1 DEF Allowance
    <3>3. ASSUME NEW s \in Slots, s[2] <= Allowance(s[1])' PROVE s \in Reserved /\ s # slot
      <4>1. s[1] \in Producers /\ s[2] \in 1..Batch
        BY <3>3 DEF Slots
      <4>2. CASE s[1] = p
        BY <1>4, <3>2, <3>3, <4>1, <4>2 DEF Reserved
      <4>3. CASE s[1] # p
        BY <2>2, <3>3, <4>1, <4>3 DEF Reserved
      <4> QED BY <4>2, <4>3
    <3> QED BY <3>3 DEF Reserved, Slots
  <2> QED BY <2>3, <2>4
<1>7. /\ Cardinality(Reserved \ {slot}) = Cardinality(Reserved) - 1
      /\ Cardinality(Reserved') <= Cardinality(Reserved \ {slot})
  <2>1. IsFiniteSet(Reserved)
    BY Finite
  <2>2. IsFiniteSet(Reserved \ {slot}) /\ Cardinality(Reserved \ {slot}) = Cardinality(Reserved) - 1
    BY <1>5, <2>1, FS_RemoveElement
  <2> QED BY <1>6, <2>2, FS_Subset
<1>8. IsFiniteSet(Reserved') /\ Cardinality(Reserved) <= Cardinality(Slots)
  BY <1>6, Finite, FS_RemoveElement, FS_Subset DEF Reserved
<1>9. /\ Cardinality(Live) \in Nat /\ Cardinality(Reserved) \in Nat
      /\ Cardinality(Slots) \in Nat /\ Cardinality(Reserved') \in Nat
  BY <1>8, Finite, FS_CardinalityType
<1>10. Slots' = Slots
  BY DEF Slots
<1>11. Cardinality(Reserved') + 1 <= Cardinality(Reserved) /\ Cardinality(Live') \in Nat
  <2>1. Cardinality(Reserved \ {slot}) \in Nat
    BY Finite, FS_RemoveElement, FS_CardinalityType
  <2> QED BY <1>3, <1>7, <1>9, <2>1
<1>12. CASE Cardinality(Live) >= HighWater
  BY <1>3, <1>9, <1>10, <1>11, <1>12, StreamAssumption DEF CapacityInv
<1>13. CASE ~(Cardinality(Live) >= HighWater)
  BY <1>3, <1>8, <1>9, <1>10, <1>11, <1>13, StreamAssumption DEF CapacityInv
<1> QED BY <1>12, <1>13

\* A passed capacity check stays within its allowance until the batch is added.
LEMMA NextCapacityInv ==
    ASSUME TypeOK, GroupInv, UnreadKept, CapacityInv, [Next]_vars
    PROVE  CapacityInv'
<1> TypeOK' /\ Slots' = Slots
  BY NextTypeOK DEF Slots
\* No step but a capacity check grants an allowance.
<1>1. ASSUME Live' \subseteq Live, \A q \in Producers : Allowance(q)' \in {0, Allowance(q)}
      PROVE  CapacityInv'
  <2>1. Reserved' \subseteq Reserved
    BY <1>1 DEF Reserved, Slots
  <2> QED BY <1>1, <2>1, CapacityKept
<1>3. ASSUME NEW p \in Producers, FlushStart(p) \/ FlushAbort(p) PROVE CapacityInv'
  <2>1. UNCHANGED streamVars /\ \A q \in Producers :
            flush'[q] = flush[q] \/ flush'[q].pc \in {"idle", "xlen"}
    BY <1>3 DEF FlushStart, FlushAbort, TypeOK, IdleFlush
  <2> QED BY <1>1, <2>1 DEF Allowance, Live, streamVars
<1>4. ASSUME NEW p \in Producers, ReadLength(p) PROVE CapacityInv'
  <2>1. /\ UNCHANGED streamVars
        /\ flush'[p].pc = "xinfo" /\ flush'[p].len = Cardinality(log)
        /\ \A q \in Producers : q # p => flush'[q] = flush[q]
    BY <1>4 DEF ReadLength, TypeOK
  <2>2. Live' = Live /\ group' = group
    BY <2>1 DEF Live, streamVars
  <2>3. \A q \in Producers : q # p => Allowance(q)' = Allowance(q)
    BY <2>1, <2>2 DEF Allowance
  <2>4. CASE group \/ ~(Cardinality(log) < HighWater)
    <3>1. Allowance(p)' = 0
      BY <2>1, <2>2, <2>4 DEF Allowance
    <3> QED BY <1>1, <2>2, <2>3, <3>1
  <2>5. CASE ~group /\ Cardinality(log) < HighWater
    <3>1. Cardinality(Live) <= Cardinality(log)
      BY <2>5, LengthIsLive
    <3>2. Cardinality(Live) \in Nat /\ Cardinality(log) \in Nat
      BY Finite, FS_CardinalityType
    <3> QED BY <2>2, <2>5, <3>1, <3>2, StreamAssumption DEF CapacityInv
  <2> QED BY <2>4, <2>5
<1>5. ASSUME NEW p \in Producers, CheckCapacity(p) PROVE CapacityInv'
  <2>1. UNCHANGED streamVars /\ flush[p].pc = "xinfo"
    BY <1>5 DEF CheckCapacity
  <2>2. Live' = Live /\ group' = group
    BY <2>1 DEF Live, streamVars
  <2>3. \A q \in Producers : q # p => flush'[q] = flush[q]
    BY <1>5 DEF CheckCapacity, TypeOK
  <2>4. \A q \in Producers : q # p => Allowance(q)' = Allowance(q)
    BY <2>2, <2>3 DEF Allowance
  <2>5. CASE flush'[p].pc # "xadd"
    <3>1. flush'[p].pc \in {"xlen", "idle"}
      BY <1>5, <2>5 DEF CheckCapacity, TypeOK, IdleFlush, FlushStates
    <3>2. Allowance(p)' = 0
      BY <3>1 DEF Allowance
    <3> QED BY <1>1, <2>2, <2>4, <3>2
  <2>6. CASE flush'[p].pc = "xadd"
    <3>1. /\ HasCapacity(Backlog(flush[p].len))
          /\ flush' = [flush EXCEPT ![p].pc = "xadd"]
      BY <1>5, <2>6 DEF CheckCapacity, TypeOK, IdleFlush, FlushStates
    <3>2. CASE group
      <4>1. Cardinality(Unread) + Cardinality(pel) < HighWater
        BY <3>1, <3>2 DEF HasCapacity, Backlog
      <4>2. Cardinality(Live) <= Cardinality(Unread) + Cardinality(pel)
        BY <3>2, BacklogIsLive
      <4>3. /\ Cardinality(Live) \in Nat /\ Cardinality(Unread) \in Nat
            /\ Cardinality(pel) \in Nat
        BY Finite, FS_CardinalityType
      <4> QED BY <2>2, <4>1, <4>2, <4>3, StreamAssumption DEF CapacityInv
    <3>3. CASE ~group
      <4>1. flush[p].len < HighWater
        BY <3>1, <3>3 DEF HasCapacity, Backlog
      <4>2. flush'[p].left = flush[p].left
        BY <3>1 DEF TypeOK, FlushStates
      <4>3. Allowance(p)' = Allowance(p)
        BY <2>1, <2>6, <3>3, <4>1, <4>2 DEF Allowance
      <4> QED BY <1>1, <2>2, <2>4, <4>3
    <3> QED BY <3>2, <3>3
  <2> QED BY <2>5, <2>6
<1>6. ASSUME NEW p \in Producers, AddNotice(p) PROVE CapacityInv'
  BY <1>6, AddSpendsSlot
<1>7. ASSUME flush' = flush, group' = group, Live' \subseteq Live PROVE CapacityInv'
  BY <1>1, <1>7 DEF Allowance
<1>8. ASSUME NEW t \in Trimmers, Maintain(t) PROVE CapacityInv'
  BY <1>7, <1>8 DEF Maintain, TrimStats, TrimPending, TrimExecute, TrimAbort, XTRIM, streamVars, Live
<1>9. CASE EnsureGroup
  <2>1. flush' = flush /\ Live' = Live /\ group'
    BY <1>9 DEF EnsureGroup, XGROUP_CREATE, GroupInv, Live
  <2> QED BY <1>1, <2>1 DEF Allowance
<1>10. CASE ReadGroup
  <2>1. PICK last \in Unread : XREADGROUP(ReadCount, last)
    BY <1>10 DEF ReadGroup
  <2>2. /\ pel' = pel \cup {id \in Unread : id <= last}
        /\ lastDelivered' = last /\ last > lastDelivered /\ UNCHANGED <<added, group>>
    BY <2>1 DEF XREADGROUP, Unread
  <2>3. Live' \subseteq Live
    BY <2>2 DEF Live, Unread, TypeOK, StreamTypeOK
  <2> QED BY <1>7, <1>10, <2>2, <2>3 DEF ReadGroup
<1>11. CASE Acknowledge \/ ReclaimDeleted
  BY <1>7, <1>11 DEF Acknowledge, XACK, ReclaimDeleted, XAUTOCLAIM_DELETED, Live
<1>12. CASE UNCHANGED vars
  BY <1>7, <1>12 DEF vars, Live
<1> QED BY <1>3, <1>4, <1>5, <1>6, <1>8, <1>9, <1>10, <1>11, <1>12 DEF Next, Produce, Consume

\* CapacityInv bounds what is live, below the high-water mark and above it.
LEMMA LiveBounded ==
    ASSUME TypeOK, CapacityInv
    PROVE  BacklogBounded
<1>1. /\ Cardinality(Live) \in Nat /\ Cardinality(Reserved) \in Nat
      /\ Cardinality(Slots) \in Nat
  BY Finite, FS_CardinalityType
<1> QED BY <1>1, StreamAssumption DEF CapacityInv, BacklogBounded

\* An XADD whose cap reached an unread entry would leave fewer entries than are
\* live, and the cap exceeds the number of live entries.
LEMMA CapSparesUnread ==
    ASSUME TypeOK, TypeOK', UnreadKept, CapacityInv', NEW p \in Producers, AddNotice(p)
    PROVE  UnreadKept'
<1>1. PICK cut \in 0..added :
          /\ log' = {id \in log \cup {added + 1} : id > cut}
          /\ cut > 0 => Cardinality(log') >= MaxLen
  BY DEF AddNotice, XADD
<1>2. /\ added' = added + 1 /\ lastDelivered' = lastDelivered /\ pel' = pel
      /\ added \in Nat /\ lastDelivered \in 0..added /\ log \subseteq 1..added
  BY DEF AddNotice, XADD, TypeOK, StreamTypeOK
<1>3. cut <= lastDelivered
  <2> SUFFICES ASSUME cut > lastDelivered PROVE FALSE
    BY <1>1, <1>2
  <2>1. (lastDelivered + 1)..(added + 1) \subseteq Live' /\ log' \subseteq (cut + 1)..(added + 1)
    <3>1. Live' = ((lastDelivered + 1)..(added + 1)) \cup pel'
      BY <1>2 DEF Live
    <3>2. cut \in Nat /\ \A id \in log' : id \in 1..(added + 1) /\ id > cut
      BY <1>1, <1>2
    <3>3. log' \subseteq (cut + 1)..(added + 1)
      BY <1>2, <3>2
    <3> QED BY <3>1, <3>3
  <2>2. /\ IsFiniteSet((cut + 1)..(added + 1))
        /\ Cardinality((cut + 1)..(added + 1)) = added + 1 - cut
    BY <1>1, <1>2, FS_Interval
  <2>3. Cardinality((lastDelivered + 1)..(added + 1)) = added + 1 - lastDelivered
    BY <1>1, <1>2, FS_Interval
  <2>4. IsFiniteSet(Live') /\ IsFiniteSet(log') /\ IsFiniteSet(Slots)
    <3>1. IsFiniteSet(log') /\ IsFiniteSet(pel) /\ IsFiniteSet(Slots)
      BY <2>1, <2>2, Finite, FS_Subset
    <3>2. IsFiniteSet((lastDelivered + 1)..(added + 1))
      BY <1>2, FS_Interval
    <3>3. IsFiniteSet(((lastDelivered + 1)..(added + 1)) \cup pel)
      BY <3>1, <3>2, FS_Union
    <3> QED BY <1>2, <3>1, <3>3 DEF Live
  <2>5. Cardinality(log') <= added + 1 - cut
    BY <2>1, <2>2, FS_Subset
  <2>6. added + 1 - lastDelivered <= Cardinality(Live')
    BY <2>1, <2>3, <2>4, FS_Subset
  <2>7. Cardinality(Live') <= HighWater - 1 + Cardinality(Slots)
    <3>1. Cardinality(Live)' \in Nat /\ IsFiniteSet(Reserved')
      BY <2>4, FS_CardinalityType, FS_Subset DEF Reserved
    <3>2. Cardinality(Reserved') \in Nat /\ Cardinality(Slots) \in Nat
      BY <2>4, <3>1, FS_CardinalityType
    <3> QED BY <3>1, <3>2, StreamAssumption DEF CapacityInv, Slots
  <2>8. /\ Cardinality(log') \in Nat /\ Cardinality(Live') \in Nat /\ Cardinality(Slots) \in Nat
        /\ Cardinality(log') >= MaxLen
    BY <1>1, <1>2, <2>4, FS_CardinalityType
  <2> QED BY <1>1, <1>2, <2>5, <2>6, <2>7, <2>8, StreamAssumption, CapacityAssumption
<1> QED BY <1>1, <1>2, <1>3 DEF UnreadKept

\* Neither the cap of XADD nor XTRIM reaches an unread entry.
LEMMA NextUnreadKept ==
    ASSUME TypeOK, GroupInv, TrimInv, CapacityInv, UnreadKept, [Next]_vars
    PROVE  UnreadKept'
<1> USE DEF TypeOK, StreamTypeOK, UnreadKept
<1>1. CASE UNCHANGED streamVars
  BY <1>1 DEF streamVars
<1>2. ASSUME NEW p \in Producers, AddNotice(p) PROVE UnreadKept'
  BY <1>2, CapSparesUnread, NextTypeOK, NextCapacityInv
<1>3. ASSUME NEW t \in Trimmers, TrimExecute(t) PROVE UnreadKept'
  <2>1. trim[t].safe <= lastDelivered /\ trim[t].safe \in Nat
    BY <1>3 DEF TrimExecute, TrimInv, TrimStates
  <2>2. PICK cut \in 0..added :
            (cut > 0 => cut < trim[t].safe) /\ log' = {id \in log : id > cut}
    BY <1>3 DEF TrimExecute, XTRIM
  <2>3. UNCHANGED <<added, lastDelivered>>
    BY <1>3 DEF TrimExecute, XTRIM
  <2> QED BY <2>1, <2>2, <2>3
<1>4. CASE EnsureGroup
  BY <1>4 DEF EnsureGroup, XGROUP_CREATE, GroupInv
<1>5. CASE ReadGroup
  <2>1. PICK last \in Unread : lastDelivered' = last /\ UNCHANGED <<added, log>>
    BY <1>5 DEF ReadGroup, XREADGROUP
  <2> QED BY <2>1 DEF Unread
<1>6. CASE Acknowledge \/ ReclaimDeleted
  BY <1>6 DEF Acknowledge, XACK, ReclaimDeleted, XAUTOCLAIM_DELETED
<1> QED BY <1>1, <1>2, <1>3, <1>4, <1>5, <1>6, StreamSteps

-----------------------------------------------------------------------------
(* The theorems *)

\* The parts of the inductive invariant carry each other over a step.
LEMMA Inductive == IInv /\ [Next]_vars => IInv'
BY NextTypeOK, NextGroupInv, NextTrimInv, NextCapacityInv, NextUnreadKept, NextNothingSkipped
   DEF IInv

\* The inductive invariant holds at the start.
LEMMA InitIInv == Init => IInv
<1> SUFFICES ASSUME Init PROVE IInv
  OBVIOUS
<1>1. TypeOK
  BY InitTypeOK
<1>2. added = 0 /\ log = {} /\ lastDelivered = 0 /\ pel = {}
  BY DEF Init, StreamInit
<1>3. GroupInv /\ UnreadKept /\ NothingSkipped
  BY <1>2 DEF GroupInv, UnreadKept, NothingSkipped
<1>4. TrimInv
  BY DEF Init, TrimInv, IdleTrim
<1>5. CapacityInv
  <2>1. Live = {}
    BY <1>2 DEF Live
  <2>2. Cardinality(Live) = 0
    BY <2>1, FS_EmptySet
  <2> QED BY <2>2, StreamAssumption DEF CapacityInv
<1> QED BY <1>1, <1>3, <1>4, <1>5 DEF IInv

\* The inductive invariant holds throughout.
LEMMA Invariant == Spec => []IInv
BY InitIInv, Inductive, PTL DEF Spec

\* Every variable keeps its type, whatever coroutines run.
THEOREM TypeCorrect == Spec => []TypeOK
<1>1. IInv => TypeOK
  BY DEF IInv
<1> QED BY <1>1, Invariant, PTL

\* Neither XADD's cap nor a trim ever drops an entry the group has not read.
THEOREM UnreadNeverDropped == Spec => []UnreadKept
<1>1. IInv => UnreadKept
  BY DEF IInv
<1> QED BY <1>1, Invariant, PTL

\* Whatever is behind the group's cursor was handed to a consumer.
THEOREM GroupSkipsNothing == Spec => []NothingSkipped
<1>1. IInv => NothingSkipped
  BY DEF IInv
<1> QED BY <1>1, Invariant, PTL

\* Backpressure bounds the live entries: one batch per producer above high water.
THEOREM BackpressureBounds == Spec => []BacklogBounded
<1>1. IInv => BacklogBounded
  BY LiveBounded DEF IInv
<1> QED BY <1>1, Invariant, PTL

\* One step of trim_consumed deletes acknowledged entries only.
LEMMA TrimStep ==
    ASSUME TypeOK, TrimInv, NothingSkipped, [Next]_vars, added' = added
    PROVE  log \ log' \subseteq acked
<1>1. CASE log' = log
  BY <1>1
<1>2. ASSUME NEW p \in Producers, AddNotice(p) PROVE FALSE
  <2>1. added' = added + 1 /\ added \in Nat
    BY <1>2 DEF AddNotice, XADD, TypeOK, StreamTypeOK
  <2> QED BY <2>1
<1>3. ASSUME NEW t \in Trimmers, TrimExecute(t) PROVE log \ log' \subseteq acked
  <2>1. /\ trim[t].safe <= lastDelivered /\ trim[t].safe \in Nat
        /\ \A id \in pel : trim[t].safe <= id
    BY <1>3 DEF TrimExecute, TrimInv, TypeOK, TrimStates
  <2>2. PICK cut \in 0..added :
            (cut > 0 => cut < trim[t].safe) /\ log' = {id \in log : id > cut}
    BY <1>3 DEF TrimExecute, XTRIM
  <2>3. log \subseteq 1..added /\ added \in Nat /\ lastDelivered \in Nat
    BY DEF TypeOK, StreamTypeOK
  <2>4. ASSUME NEW id \in log, id \notin log' PROVE id < trim[t].safe /\ id <= lastDelivered
    BY <2>1, <2>2, <2>3, <2>4
  <2>5. pel \subseteq Nat
    BY DEF TypeOK, StreamTypeOK
  <2>6. ASSUME NEW id \in log, id \notin log' PROVE id \in acked
    <3>1. id \in pel \cup acked
      BY <2>4, <2>6 DEF NothingSkipped
    <3>2. id \notin pel
      BY <2>1, <2>3, <2>4, <2>5, <2>6
    <3> QED BY <3>1, <3>2
  <2> QED BY <2>6
<1>4. CASE EnsureGroup \/ ReadGroup \/ Acknowledge \/ ReclaimDeleted
  BY <1>1, <1>4 DEF EnsureGroup, XGROUP_CREATE, ReadGroup, XREADGROUP, Acknowledge, XACK,
                    ReclaimDeleted, XAUTOCLAIM_DELETED
<1>5. CASE UNCHANGED streamVars
  BY <1>1, <1>5 DEF streamVars
<1> QED BY <1>2, <1>3, <1>4, <1>5, StreamSteps

\* Trimming removes acknowledged entries only, however old its statistics are.
THEOREM TrimsAckedOnly == Spec => TrimOnlyAcked
<1>1. IInv /\ [Next]_vars => [added' = added => log \ log' \subseteq acked]_vars
  BY TrimStep DEF IInv
<1> QED BY <1>1, Invariant, PTL DEF Spec, TrimOnlyAcked
=============================================================================
