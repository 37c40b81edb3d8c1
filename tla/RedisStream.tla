---------------------------- MODULE RedisStream ----------------------------
(***************************************************************************)
(* One Redis stream (notices:<source>) with one consumer group (ingestor), *)
(* as far as the commands the pipeline sends to it go.  Redis is outside   *)
(* src/: each operator below is one command, atomic on the server, modelled*)
(* from how uvo_core/adapters/redis/streams.py uses it.  The components    *)
(* that send the commands are NoticeStream and Ingestor.                   *)
(*                                                                         *)
(* Entry ids are 1, 2, 3, ... in the order of the XADDs; id 0 is "0-0".    *)
(***************************************************************************)
EXTENDS Naturals, FiniteSets

VARIABLES
    added,          \* number of entries ever added: ids 1..added
    log,            \* ids still stored in the stream
    group,          \* does the consumer group exist?
    lastDelivered,  \* the group's last-delivered-id
    pel,            \* ids delivered and not acknowledged (the group's PEL)
    acked           \* history: ids acknowledged while they were pending

streamVars == <<added, log, group, lastDelivered, pel, acked>>

StreamTypeOK ==
    /\ added \in Nat
    /\ log \subseteq 1..added
    /\ group \in BOOLEAN
    /\ lastDelivered \in 0..added
    /\ pel \subseteq 1..lastDelivered
    /\ acked \subseteq 1..lastDelivered

StreamInit ==
    /\ added = 0
    /\ log = {}
    /\ group = FALSE
    /\ lastDelivered = 0
    /\ pel = {}
    /\ acked = {}

\* Entries still in the stream that the group has not read: what XINFO GROUPS
\* reports as lag.  (Redis 7 reports nil only for a group created elsewhere
\* than at 0 or after an XDEL; the pipeline does neither.)
Unread == {id \in log : id > lastDelivered}

\* Entries whose work is not done: never delivered, or delivered and not acked.
Live == ((lastDelivered + 1)..added) \cup pel

-----------------------------------------------------------------------------
\* XADD ... MAXLEN ~ maxlen: append; the approximate cap may then drop the
\* oldest entries, as long as maxlen entries stay.
XADD(maxlen) ==
    /\ added' = added + 1
    /\ \E cut \in 0..added :
           /\ log' = {id \in log \cup {added + 1} : id > cut}
           /\ cut > 0 => Cardinality(log') >= maxlen
    /\ UNCHANGED <<group, lastDelivered, pel, acked>>

\* XTRIM MINID ~ minid: may drop any prefix of the entries older than minid.
XTRIM(minid) ==
    /\ \E cut \in 0..added :
           /\ cut > 0 => cut < minid
           /\ log' = {id \in log : id > cut}
    /\ UNCHANGED <<added, group, lastDelivered, pel, acked>>

\* XGROUP CREATE ... MKSTREAM at the given id; BUSYGROUP changes nothing.
XGROUP_CREATE(startId) ==
    /\ ~group
    /\ group' = TRUE
    /\ lastDelivered' = startId
    /\ UNCHANGED <<added, log, pel, acked>>

\* XREADGROUP ... COUNT count ... >: deliver the next unread entries up to `last`.
XREADGROUP(count, last) ==
    /\ group
    /\ last \in Unread
    /\ LET batch == {id \in Unread : id <= last} IN
           /\ Cardinality(batch) = count \/ (batch = Unread /\ Cardinality(batch) < count)
           /\ pel' = pel \cup batch
    /\ lastDelivered' = last
    /\ UNCHANGED <<added, log, group, acked>>

\* XACK of a set of ids: those pending leave the PEL, the others are ignored.
XACK(ids) ==
    /\ pel' = pel \ ids
    /\ acked' = acked \cup (ids \cap pel)
    /\ UNCHANGED <<added, log, group, lastDelivered>>

\* XAUTOCLAIM drops from the PEL the ids it scans whose entry is gone.
XAUTOCLAIM_DELETED ==
    /\ pel \ log # {}
    /\ pel' = pel \cap log
    /\ UNCHANGED <<added, log, group, lastDelivered, acked>>
=============================================================================
