----------------------------- MODULE McpRuntime -----------------------------
(***************************************************************************)
(* The runtime of the MCP process (process_runtime and _open_runtime of     *)
(* uvo_mcp/server.py): clients and the cache invalidator, opened by the     *)
(* first session, shared, and closed by the last, under _shared_lock.  What *)
(* opening and closing does to the invalidator is in module Serving.        *)
(***************************************************************************)
EXTENDS Naturals, FiniteSets

CONSTANTS Sessions, NoSession

ASSUME RuntimeAssumption == NoSession \notin Sessions /\ IsFiniteSet(Sessions)

VARIABLES
    refs,         \* _shared["refs"]
    runtime,      \* _shared["cm"]: "closed", "open", or "closing" while it is left
    sharedLock,   \* the session in the locked section, between two of its steps
    session       \* per session

runtimeVars == <<refs, runtime, sharedLock, session>>

SessionLabels == {"idle", "acquire", "opening", "using", "release", "closing"}

RuntimeTypeOK ==
    /\ refs \in Nat
    /\ runtime \in {"closed", "open", "closing"}
    /\ sharedLock \in Sessions \cup {NoSession}
    /\ session \in [Sessions -> SessionLabels]

RuntimeInit ==
    /\ refs = 0
    /\ runtime = "closed"
    /\ sharedLock = NoSession
    /\ session = [s \in Sessions |-> "idle"]

Becomes(s, label) == session' = [session EXCEPT ![s] = label]

Connect(s) == session[s] = "idle" /\ Becomes(s, "acquire") /\ UNCHANGED <<refs, runtime, sharedLock>>

\* The runtime is there: one more reference.
Join(s) ==
    /\ session[s] = "acquire"
    /\ sharedLock = NoSession
    /\ refs > 0
    /\ refs' = refs + 1
    /\ Becomes(s, "using")
    /\ UNCHANGED <<runtime, sharedLock>>

\* The first one: the lock is kept while the clients are made.
BeginOpen(s) ==
    /\ session[s] = "acquire"
    /\ sharedLock = NoSession
    /\ refs = 0
    /\ sharedLock' = s
    /\ Becomes(s, "opening")
    /\ UNCHANGED <<refs, runtime>>

FinishOpen(s) ==
    /\ session[s] = "opening"
    /\ runtime' = "open"
    /\ refs' = 1
    /\ sharedLock' = NoSession
    /\ Becomes(s, "using")

OpenFails(s) ==
    /\ session[s] = "opening"
    /\ sharedLock' = NoSession
    /\ Becomes(s, "idle")
    /\ UNCHANGED <<refs, runtime>>

Disconnect(s) ==
    /\ session[s] = "using"
    /\ Becomes(s, "release")
    /\ UNCHANGED <<refs, runtime, sharedLock>>

Leave(s) ==
    /\ session[s] = "release"
    /\ sharedLock = NoSession
    /\ refs > 1
    /\ refs' = refs - 1
    /\ Becomes(s, "idle")
    /\ UNCHANGED <<runtime, sharedLock>>

\* Seeded bug: any session that leaves closes the runtime.
BeginCloseByAny(s) ==
    /\ session[s] = "release"
    /\ sharedLock = NoSession
    /\ refs' = 0
    /\ runtime' = "closing"
    /\ sharedLock' = s
    /\ Becomes(s, "closing")

\* The last one: the lock is kept while the clients are closed.
BeginClose(s) ==
    /\ session[s] = "release"
    /\ sharedLock = NoSession
    /\ refs = 1
    /\ refs' = 0
    /\ runtime' = "closing"
    /\ sharedLock' = s
    /\ Becomes(s, "closing")

FinishClose(s) ==
    /\ session[s] = "closing"
    /\ runtime' = "closed"
    /\ sharedLock' = NoSession
    /\ Becomes(s, "idle")
    /\ UNCHANGED refs

\* A session is cancelled while it waits for the lock to give its reference back.
LeaveCancelled(s) ==
    /\ session[s] = "release"
    /\ sharedLock # NoSession
    /\ Becomes(s, "idle")
    /\ UNCHANGED <<refs, runtime, sharedLock>>
=============================================================================
