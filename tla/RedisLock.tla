----------------------------- MODULE RedisLock -----------------------------
(***************************************************************************)
(* One lock key in Redis (extractor:lock:<source> or dedup:lock), as far as *)
(* uvo_core/adapters/redis/locks.py uses it: SET NX EX to acquire, and      *)
(* WATCH, GET, MULTI/DEL/EXEC to release.  The value is the instance_id of  *)
(* the process that set it.  Each operator is one command, atomic on the    *)
(* server; the key may expire between any two of them.                      *)
(***************************************************************************)
EXTENDS Naturals

CONSTANTS
    Instances,  \* the processes that want the lock
    Free,       \* holder: the key does not exist
    Orphan      \* holder: an instance_id whose process is gone

ASSUME LockAssumption == Free # Orphan /\ Free \notin Instances /\ Orphan \notin Instances

VARIABLES
    holder,   \* value of the key
    watching  \* instances with a WATCH on the key that nothing has touched since

lockVars == <<holder, watching>>

LockTypeOK ==
    /\ holder \in Instances \cup {Free, Orphan}
    /\ watching \subseteq Instances

LockInit == holder = Free /\ watching = {}

\* SET key i NX EX ttl, when it sets the key.
SET_NX(i) == holder = Free /\ holder' = i /\ watching' = {}

WATCH(i) == watching' = watching \cup {i} /\ UNCHANGED holder

UNWATCH(i) == watching' = watching \ {i} /\ UNCHANGED holder

\* MULTI, DEL, EXEC: nothing if the key was touched since i's WATCH.
EXEC_DEL(i) ==
    \/ i \in watching /\ holder' = Free /\ watching' = {}
    \/ i \notin watching /\ UNCHANGED lockVars

HasTTL(h) == h # Free

\* The TTL runs out.
EXPIRE == HasTTL(holder) /\ holder' = Free /\ watching' = {}

\* release_lock in one step, for a module that looks at other things: it deletes
\* the key if i holds it.
RELEASE(i) ==
    /\ holder' = IF holder = i THEN Free ELSE holder
    /\ watching' = IF holder = i THEN {} ELSE watching \ {i}

\* Process i is gone: its connection is closed, and no successor has its id.
ABANDON(i) ==
    /\ holder' = IF holder = i THEN Orphan ELSE holder
    /\ watching' = watching \ {i}
=============================================================================
