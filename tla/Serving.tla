------------------------------ MODULE Serving ------------------------------
(***************************************************************************)
(* The processes that serve, one behind each door:                          *)
(*   "start"  the bootstrap of the search indexes (SearchIndexes);          *)
(*   "api"    the REST API: tasks that ask for one cached aggregate, the    *)
(*            invalidator with its warm-up (ResultCache);                   *)
(*   "mcp"    the MCP process: sessions that share a runtime (McpRuntime)   *)
(*            and ask for cached results (ResultCache);                     *)
(*   "v1"     the public API: what a request passes before its handler      *)
(*            (ApiGate).                                                     *)
(* What two doors share is read from MongoDB and Redis only, so a behaviour *)
(* has one door.                                                            *)
(***************************************************************************)
EXTENDS ResultCache, McpRuntime, ApiGate, SearchIndexes

ASSUME DoorAssumption == Sessions \cup {Warmer} = Callers /\ Warmer \notin Sessions

VARIABLE door

vars == <<door, resultVars, runtimeVars, gateVars, indexVars>>

TypeOK ==
    /\ door \in {"start", "api", "mcp", "v1"}
    /\ ResultTypeOK
    /\ RuntimeTypeOK
    /\ GateTypeOK
    /\ IndexTypeOK

Init ==
    /\ door \in {"start", "api", "mcp", "v1"}
    /\ ResultInit(IF door = "api" THEN "starting" ELSE "off")
    /\ RuntimeInit
    /\ GateInit
    /\ IndexInit(door = "start")

-----------------------------------------------------------------------------

\* A step of a call, of the Ingestor, or of the invalidator.
CacheStep(after_clear) ==
    \/ \E c \in Callers : \/ Enter(c) \/ ExpiresUnderHit(c) \/ Load(c) \/ Store(c)
                          \/ QueryFails(c) \/ CallerCancelled(c)
    \/ EntryExpires
    \/ WriteBatch \/ PublishWritten
    \/ OnMessage(after_clear) \/ WindowEnds \/ TrailingClear(after_clear)
    \/ Subscribe \/ SubscriptionEnds

Asks(c) ==
    /\ Ask(c)
    /\ UNCHANGED <<channelVars, cache, pending, answer, outrun, overtaken, faults>>

\* lifespan of the API has the invalidator call _warm_dashboards after a clear.
Api ==
    /\ door = "api"
    /\ \/ CacheStep(TRUE)
       \/ WarmUpStopped
       \/ \E c \in Callers \ {Warmer} : Asks(c)
    /\ UNCHANGED <<runtimeVars, gateVars, indexVars>>

\* _open_runtime starts the invalidator ...
Opened(s) ==
    /\ FinishOpen(s)
    /\ listener' = "starting"
    /\ UNCHANGED <<corpus, unpublished, inbox, recent, trailing, missed, cacheVars, faults>>

\* ... and stops it when it is left.
Closed(s) ==
    /\ FinishClose(s)
    /\ CancelListener
    /\ UNCHANGED <<corpus, unpublished, cacheVars, faults>>

\* A tool call in a session.
ToolCall(s) == session[s] = "using" /\ Asks(s) /\ UNCHANGED runtimeVars

SessionStep(s) ==
    \/ Connect(s) \/ Join(s) \/ BeginOpen(s) \/ OpenFails(s)
    \/ call[s] = "idle" /\ Disconnect(s)
    \/ Leave(s) \/ LeaveCancelled(s) \/ BeginClose(s)

Mcp ==
    /\ door = "mcp"
    /\ \/ CacheStep(FALSE) /\ UNCHANGED runtimeVars
       \/ \E s \in Sessions : \/ SessionStep(s) /\ UNCHANGED resultVars
                              \/ Opened(s) \/ Closed(s) \/ ToolCall(s)
    /\ UNCHANGED <<gateVars, indexVars>>

RequestStep(r) ==
    FindKey(r) \/ StoreKey(r) \/ Increment(r) \/ SetExpiry(r) \/ CheckLimit(r) \/ Handle(r) \/ Meter(r)

V1 ==
    /\ door = "v1"
    /\ \/ \E r \in Requests : Arrive(r) \/ RequestStep(r) \/ RedisFails(r)
       \/ Revoke \/ KeyExpires \/ NextMinute
       \/ \E m \in Minutes : CounterExpires(m)
    /\ UNCHANGED <<resultVars, runtimeVars, indexVars>>

Bootstrap(p) == EnsureCollections(p) \/ List(p) \/ Apply(p) \/ Attempted(p) \/ Retry(p)

Start ==
    /\ door = "start"
    /\ \/ \E p \in Servers : Bootstrap(p) \/ Probe(p) \/ ProbeExpires(p)
       \/ \E c \in Collections : Build(c)
    /\ UNCHANGED <<resultVars, runtimeVars, gateVars>>

Next == (Api \/ Mcp \/ V1 \/ Start) /\ UNCHANGED door

Spec == Init /\ [][Next]_vars

OfCache(A) == door \in {"api", "mcp"} /\ A /\ UNCHANGED <<door, runtimeVars, gateVars, indexVars>>
OfGate(A) == door = "v1" /\ A /\ UNCHANGED <<door, resultVars, runtimeVars, indexVars>>
OfIndexes(A) == door = "start" /\ A /\ UNCHANGED <<door, resultVars, runtimeVars, gateVars>>

\* Tasks that are ready run, MongoDB and Redis answer, timers fire, TTLs run out.
\* Nobody has to ask, to write, to connect or to fail.
FairSpec ==
    /\ Spec
    /\ \A c \in Callers : WF_vars(OfCache(Enter(c) \/ Load(c) \/ Store(c)))
    /\ WF_vars(OfCache(door = "api" /\ WarmUpStopped))
    /\ \A r \in Requests : WF_vars(OfGate(RequestStep(r)))
    /\ WF_vars(OfGate(KeyExpires))
    /\ \A p \in Servers : WF_vars(OfIndexes(Bootstrap(p)))
    /\ \A c \in Collections : WF_vars(OfIndexes(Build(c)))

-----------------------------------------------------------------------------
(* Properties *)

\* Every call of a cached query ends, though leaders are cancelled, fail,
\* or are the warm-up of an invalidator that is stopped (async_ttl_cache).
CallsEnd ==
    \A c \in Callers : call[c] # "idle" ~> call[c] = "idle"

\* Whoever uses the runtime holds a reference to it, and it is open: it is neither
\* closed under a session nor opened twice (process_runtime); its invalidator lives
\* exactly as long (_open_runtime), though a session may be cancelled at the lock.
RuntimeInUse ==
    door = "mcp" =>
        /\ Cardinality({s \in Sessions : session[s] \in {"using", "release"}}) <= refs
        /\ refs > 0 <=> runtime = "open"
        /\ listener = "off" <=> runtime = "closed"

\* Whoever creates an index first and whatever fails on the way, every index is built
\* to the current definition in the end (retry_ensure_indexes).
ProvisionedInTheEnd == door = "start" => <>[](\A c \in Collections : index[c] = "current")
=============================================================================
