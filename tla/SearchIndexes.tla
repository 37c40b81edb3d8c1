--------------------------- MODULE SearchIndexes ---------------------------
(***************************************************************************)
(* Provisioning of the Atlas Search indexes, by every process that serves   *)
(* (ensure_indexes and retry_ensure_indexes of                              *)
(* uvo_core/adapters/mongo/search_indexes.py), concurrently on one          *)
(* database, and the readiness probe that reads them.  mongot builds an     *)
(* index after it is created or updated; its own part is the action Build.  *)
(***************************************************************************)
EXTENDS Naturals, FiniteSets

CONSTANTS
    Collections,   \* the keys of INDEX_DEFINITIONS
    Servers,       \* the processes that serve
    NoCollection,
    MaxSetbacks    \* bound of the model: commands that fail

ASSUME IndexAssumption == NoCollection \notin Collections /\ MaxSetbacks \in Nat

VARIABLES
    created,   \* MongoDB: the collections there are
    index,     \* MongoDB: per collection
    stage,     \* per server: where its bootstrap is
    todo,      \* per server: collections this attempt has not come to
    listed,    \* per server: the collection at hand
    seen,      \* per server: its index, as listed
    ok,        \* per server: no error in this attempt so far
    probe,     \* per server: SearchIndexProbe, "unknown" without a fresh result
    setbacks

indexVars == <<created, index, stage, todo, listed, seen, ok, probe, setbacks>>

\* An index of this definition or an older one; queryable or still to be built.
IndexStates == {"absent", "drifted", "updating", "building", "current"}
Stages == {"collections", "list", "apply", "asleep", "done"}

IndexTypeOK ==
    /\ created \subseteq Collections
    /\ index \in [Collections -> IndexStates]
    /\ stage \in [Servers -> Stages]
    /\ todo \in [Servers -> SUBSET Collections]
    /\ listed \in [Servers -> Collections \cup {NoCollection}]
    /\ seen \in [Servers -> IndexStates]
    /\ ok \in [Servers -> BOOLEAN]
    /\ probe \in [Servers -> {"unknown", "ready", "missing"}]
    /\ setbacks \in 0..MaxSetbacks

\* A fresh database, or (if any) one an older release has provisioned.
IndexInit(any) ==
    /\ \/ created = {} /\ index = [c \in Collections |-> "absent"]
       \/ any /\ created = Collections /\ index \in [Collections -> {"absent", "drifted"}]
    /\ stage = [p \in Servers |-> "collections"]
    /\ todo = [p \in Servers |-> {}]
    /\ listed = [p \in Servers |-> NoCollection]
    /\ seen = [p \in Servers |-> "absent"]
    /\ ok = [p \in Servers |-> TRUE]
    /\ probe = [p \in Servers |-> "unknown"]
    /\ setbacks = 0

Setback == setbacks < MaxSetbacks /\ setbacks' = setbacks + 1
To(p, s) == stage' = [stage EXCEPT ![p] = s]

\* _ensure_collections: those it cannot create it leaves to the next attempt.
EnsureCollections(p) ==
    /\ stage[p] = "collections"
    /\ \/ created' = Collections /\ UNCHANGED setbacks
       \/ \E made \in SUBSET (Collections \ created) :
             created' = created \cup made /\ Setback
    /\ todo' = [todo EXCEPT ![p] = Collections]
    /\ To(p, "list")
    /\ UNCHANGED <<index, listed, seen, ok, probe>>

\* list_search_indexes of the next collection ...
List(p) ==
    /\ stage[p] = "list"
    /\ \E c \in todo[p] :
          /\ todo' = [todo EXCEPT ![p] = @ \ {c}]
          /\ \/ /\ listed' = [listed EXCEPT ![p] = c]
                /\ seen' = [seen EXCEPT ![p] = index[c]]
                /\ To(p, "apply")
                /\ UNCHANGED <<ok, setbacks>>
             \/ Setback /\ ok' = [ok EXCEPT ![p] = FALSE] /\ UNCHANGED <<listed, seen, stage>>
    /\ UNCHANGED <<created, index, probe>>

\* ... decides what is done about it: nothing, updateSearchIndex of a definition that
\* has drifted (definition_is_current), or createSearchIndex, which fails if another
\* process was first or there is no collection.
Needed(state) == state \in {"absent", "drifted"}

Changed(c, was) ==
    CASE was = "drifted" -> "updating"
      [] was = "absent" -> "building"

Apply(p) ==
    LET c == listed[p]
        refused == seen[p] = "absent" /\ (c \notin created \/ index[c] # "absent") IN
    /\ stage[p] = "apply"
    /\ \/ ~Needed(seen[p]) /\ UNCHANGED <<index, ok, setbacks>>
       \/ Needed(seen[p]) /\ ~refused
          /\ index' = [index EXCEPT ![c] = IF @ = seen[p] THEN Changed(c, @) ELSE @]
          /\ UNCHANGED <<ok, setbacks>>
       \/ refused /\ ok' = [ok EXCEPT ![p] = FALSE] /\ UNCHANGED <<index, setbacks>>
       \/ Needed(seen[p]) /\ Setback /\ ok' = [ok EXCEPT ![p] = FALSE] /\ UNCHANGED index
    /\ listed' = [listed EXCEPT ![p] = NoCollection]
    /\ seen' = [seen EXCEPT ![p] = "absent"]
    /\ To(p, "list")
    /\ UNCHANGED <<created, todo, probe>>

\* Seeded bug: a failed attempt is not repeated.
NextAttemptNever(p) == "done"

NextAttempt(p) == IF ok[p] THEN "done" ELSE "asleep"

\* ensure_indexes returns.
Attempted(p) ==
    /\ stage[p] = "list"
    /\ todo[p] = {}
    /\ To(p, NextAttempt(p))
    /\ ok' = [ok EXCEPT ![p] = TRUE]
    /\ UNCHANGED <<created, index, todo, listed, seen, probe, setbacks>>

\* retry_ensure_indexes, after its delay.
Retry(p) ==
    /\ stage[p] = "asleep"
    /\ To(p, "collections")
    /\ UNCHANGED <<created, index, todo, listed, seen, ok, probe, setbacks>>

\* mongot (external).
Build(c) ==
    /\ index[c] \in {"updating", "building"}
    /\ index' = [index EXCEPT ![c] = "current"]
    /\ UNCHANGED <<created, stage, todo, listed, seen, ok, probe, setbacks>>

\* Seeded bug: an index that is not built counts as there.
SearchableOnceCreated(c) == index[c] # "absent"

\* An index can be queried while it is rebuilt, not while it is first built.
Searchable(c) == index[c] \notin {"absent", "building"}

\* SearchIndexProbe, asked by /readyz and by the gauge of the MCP process.
Probe(p) ==
    /\ probe[p] = "unknown"
    /\ \/ /\ probe' = [probe EXCEPT ![p] = IF \A c \in Collections : Searchable(c)
                                             THEN "ready" ELSE "missing"]
          /\ UNCHANGED setbacks
       \/ Setback /\ probe' = [probe EXCEPT ![p] = "missing"]
    /\ UNCHANGED <<created, index, stage, todo, listed, seen, ok>>

ProbeExpires(p) ==
    /\ probe[p] # "unknown"
    /\ probe' = [probe EXCEPT ![p] = "unknown"]
    /\ UNCHANGED <<created, index, stage, todo, listed, seen, ok, setbacks>>

-----------------------------------------------------------------------------
(* Properties *)

\* A server that has told the balancer it is ready can search every collection, though
\* its answer is up to a TTL old and others provision the same indexes meanwhile.
ReadyCanSearch ==
    \A p \in Servers, c \in Collections :
        probe[p] = "ready" => c \in created /\ index[c] \notin {"absent", "building"}
=============================================================================
