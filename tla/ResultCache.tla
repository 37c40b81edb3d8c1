---------------------------- MODULE ResultCache ----------------------------
(***************************************************************************)
(* One entry of one cached query in a process that answers requests         *)
(* (uvo_core/cache.py) and the task that clears it when notices are written *)
(* (uvo_core/adapters/redis/cache_invalidation.py), with the dashboard      *)
(* warm-up that follows a clear.  Callers of the same query share a flight: *)
(* the first one, its leader, runs it.  A result is the version of the      *)
(* corpus it was read from; the tasks interleave at their awaits.           *)
(***************************************************************************)
EXTENDS Naturals, FiniteSets

CONSTANTS
    Callers,      \* the tasks that call the cached query ...
    Warmer,       \* ... one of which is the warm-up after a clear
    Nobody,       \* no leader
    NoResult,     \* no entry in the cache, no result yet
    MaxWrites,    \* bound of the model: batches written
    MaxFaults     \* bound of the model: lost connections, failing and cancelled calls

ASSUME CacheAssumption ==
    /\ Nobody \notin Callers
    /\ Warmer \in Callers
    /\ NoResult \notin Nat
    /\ MaxWrites \in Nat
    /\ MaxFaults \in Nat

VARIABLES
    corpus,       \* MongoDB: the batches written so far
    unpublished,  \* a batch is written and notices:written not yet published
    inbox,        \* messages on the subscriber's connection
    listener,     \* run_cache_invalidator: "off", "starting", "on" in its loop, or "over"
    recent,       \* last_clear is less than DEBOUNCE_SECONDS ago
    trailing,     \* a trailing clear is scheduled
    cache,        \* the entry: a version of the corpus
    pending,      \* the leader of the query in flight
    call,         \* per caller: where its call is
    answer,       \* per leader: what MongoDB answered
    missed,       \* (history) a message since the last clear found no subscriber
    outrun,       \* (history) callers whose query was in flight at a clear
    overtaken,    \* (history) the entry is from such a query
    faults

cacheVars == <<cache, pending, call, answer, outrun, overtaken>>
channelVars == <<corpus, unpublished, inbox, listener, recent, trailing, missed>>
resultVars == <<corpus, unpublished, inbox, listener, recent, trailing, cache, pending, call,
                answer, missed, outrun, overtaken, faults>>

Versions == 0..MaxWrites
CallLabels == {"idle", "entry", "query", "loaded", "waiting"}

ResultTypeOK ==
    /\ corpus \in Versions
    /\ unpublished \in BOOLEAN
    /\ inbox \in 0..MaxWrites
    /\ listener \in {"off", "starting", "on", "over"}
    /\ recent \in BOOLEAN
    /\ trailing \in BOOLEAN
    /\ cache \in Versions \cup {NoResult}
    /\ pending \in Callers \cup {Nobody}
    /\ call \in [Callers -> CallLabels]
    /\ answer \in [Callers -> Versions \cup {NoResult}]
    /\ missed \in BOOLEAN
    /\ outrun \subseteq Callers
    /\ overtaken \in BOOLEAN
    /\ faults \in 0..MaxFaults

\* l: whether the process starts the invalidator with its lifespan.
ResultInit(l) ==
    /\ corpus = 0
    /\ unpublished = FALSE
    /\ inbox = 0
    /\ listener = l
    /\ recent = FALSE
    /\ trailing = FALSE
    /\ cache = NoResult
    /\ pending = Nobody
    /\ call = [c \in Callers |-> "idle"]
    /\ answer = [c \in Callers |-> NoResult]
    /\ missed = FALSE
    /\ outrun = {}
    /\ overtaken = FALSE
    /\ faults = 0

Fault == faults < MaxFaults /\ faults' = faults + 1
NoFault == UNCHANGED faults

-----------------------------------------------------------------------------
(* async_ttl_cache *)

Waiting == {c \in Callers : call[c] = "waiting"}

\* The flight of c is over; those who wait for it end with it.
FlightEnds(c) ==
    /\ call' = [d \in Callers |-> IF d \in {c} \cup Waiting THEN "idle" ELSE call[d]]
    /\ answer' = [answer EXCEPT ![c] = NoResult]
    /\ pending' = Nobody
    /\ outrun' = outrun \ {c}

Ask(c) == call[c] = "idle" /\ call' = [call EXCEPT ![c] = "entry"]

\* A task that is being cancelled ends at its next step.
Goes(c) == c = Warmer => listener = "on"

\* Seeded bug: a caller that meets a flight leads another one.
EnterAlone(c) ==
    /\ call[c] = "entry"
    /\ Goes(c)
    /\ IF cache # NoResult
         THEN call' = [call EXCEPT ![c] = "idle"] /\ UNCHANGED pending
         ELSE call' = [call EXCEPT ![c] = "query"] /\ pending' = c
    /\ UNCHANGED <<channelVars, cache, answer, outrun, overtaken, faults>>

\* A hit; or a miss that joins the flight; or one that leads a new one.
Enter(c) ==
    /\ call[c] = "entry"
    /\ Goes(c)
    /\ IF cache # NoResult
         THEN call' = [call EXCEPT ![c] = "idle"] /\ UNCHANGED pending
         ELSE IF pending # Nobody
         THEN call' = [call EXCEPT ![c] = "waiting"] /\ UNCHANGED pending
         ELSE call' = [call EXCEPT ![c] = "query"] /\ pending' = c
    /\ UNCHANGED <<channelVars, cache, answer, outrun, overtaken, faults>>

\* The entry expires between `key in cache` and `cache[key]`: a KeyError.
ExpiresUnderHit(c) ==
    /\ call[c] = "entry"
    /\ cache # NoResult
    /\ Fault
    /\ cache' = NoResult
    /\ overtaken' = FALSE
    /\ call' = [call EXCEPT ![c] = "idle"]
    /\ UNCHANGED <<channelVars, pending, answer, outrun>>

\* MongoDB answers the leader's query ...
Load(c) ==
    /\ call[c] = "query"
    /\ Goes(c)
    /\ call' = [call EXCEPT ![c] = "loaded"]
    /\ answer' = [answer EXCEPT ![c] = corpus]
    /\ UNCHANGED <<channelVars, cache, pending, outrun, overtaken, faults>>

\* ... which stores the result and hands it to the callers waiting for it.
Store(c) ==
    /\ call[c] = "loaded"
    /\ Goes(c)
    /\ cache' = answer[c]
    /\ overtaken' = (c \in outrun)
    /\ FlightEnds(c)
    /\ UNCHANGED <<channelVars, faults>>

\* The query raises: so do the callers waiting for it, and nothing is stored.
QueryFails(c) ==
    /\ call[c] = "query"
    /\ Fault
    /\ FlightEnds(c)
    /\ UNCHANGED <<channelVars, cache, overtaken>>

\* Seeded bug: the waiting callers are left to a future nobody will set.
LeaderCancelledAlone(c) ==
    /\ call' = [call EXCEPT ![c] = "idle"]
    /\ pending' = Nobody

\* The leader is cancelled and its future with it: the others try again, and
\* one of them will lead.
LeaderCancelled(c) ==
    /\ call' = [d \in Callers |-> IF d = c THEN "idle"
                                  ELSE IF d \in Waiting THEN "entry" ELSE call[d]]
    /\ pending' = Nobody

\* A caller is cancelled; shield keeps the flight of the others going.
Cancel(c) ==
    /\ \/ /\ call[c] \in {"query", "loaded"}
          /\ LeaderCancelled(c)
          /\ outrun' = outrun \ {c}
       \/ /\ call[c] \in {"entry", "waiting"}
          /\ call' = [call EXCEPT ![c] = "idle"]
          /\ UNCHANGED <<pending, outrun>>
    /\ answer' = [answer EXCEPT ![c] = NoResult]
    /\ UNCHANGED <<cache, overtaken>>

CallerCancelled(c) == c # Warmer /\ Cancel(c) /\ Fault /\ UNCHANGED channelVars

\* The invalidator has ended and cancelled its warm-up.
WarmUpStopped == listener # "on" /\ Cancel(Warmer) /\ NoFault /\ UNCHANGED channelVars

\* The TTL runs out, or maxsize evicts the entry.
EntryExpires ==
    /\ cache # NoResult
    /\ cache' = NoResult
    /\ overtaken' = FALSE
    /\ UNCHANGED <<channelVars, pending, call, answer, outrun, faults>>

-----------------------------------------------------------------------------
(* The Ingestor *)

WriteBatch ==
    /\ ~unpublished
    /\ corpus < MaxWrites
    /\ corpus' = corpus + 1
    /\ unpublished' = TRUE
    /\ UNCHANGED <<inbox, listener, recent, trailing, missed, cacheVars, faults>>

\* PUBLISH reaches the subscriber, if there is one; or the Ingestor dies before.
PublishWritten ==
    /\ unpublished
    /\ unpublished' = FALSE
    /\ \/ listener = "on" /\ inbox' = inbox + 1 /\ UNCHANGED missed /\ NoFault
       \/ listener # "on" /\ missed' = TRUE /\ UNCHANGED inbox /\ NoFault
       \/ missed' = TRUE /\ UNCHANGED inbox /\ Fault
    /\ UNCHANGED <<corpus, listener, recent, trailing, cacheVars>>

-----------------------------------------------------------------------------
(* run_cache_invalidator *)

\* clear_data_caches: every entry goes; a query in flight goes on.
ClearEntries ==
    /\ cache' = NoResult
    /\ overtaken' = FALSE
    /\ outrun' = {c \in Callers : call[c] = "loaded"}
    /\ recent' = TRUE
    /\ UNCHANGED <<pending, answer>>

\* _clear; after_clear, if there is one, follows unless the one before still runs.
Clear(after_clear) ==
    /\ ClearEntries
    /\ missed' = FALSE
    /\ call' = IF after_clear /\ call[Warmer] = "idle"
                 THEN [call EXCEPT ![Warmer] = "entry"] ELSE call

\* Seeded bug: a message in the window of a clear is dropped.
OnMessageLeadingOnly(after_clear) ==
    /\ listener = "on"
    /\ inbox > 0
    /\ inbox' = inbox - 1
    /\ \/ ~recent /\ Clear(after_clear) /\ UNCHANGED trailing
       \/ recent /\ UNCHANGED <<cacheVars, recent, missed, trailing>>
    /\ UNCHANGED <<corpus, unpublished, listener, faults>>

\* The first message clears at once; one in the window schedules a clear for its
\* end, unless one is scheduled.
OnMessage(after_clear) ==
    /\ listener = "on"
    /\ inbox > 0
    /\ inbox' = inbox - 1
    /\ \/ ~recent /\ ~trailing /\ Clear(after_clear) /\ UNCHANGED trailing
       \/ recent /\ ~trailing /\ trailing' = TRUE /\ UNCHANGED <<cacheVars, recent, missed>>
       \/ trailing /\ UNCHANGED <<cacheVars, recent, missed, trailing>>
    /\ UNCHANGED <<corpus, unpublished, listener, faults>>

WindowEnds ==
    /\ recent
    /\ recent' = FALSE
    /\ UNCHANGED <<corpus, unpublished, inbox, listener, trailing, missed, cacheVars, faults>>

TrailingClear(after_clear) ==
    /\ trailing
    /\ ~recent
    /\ trailing' = FALSE
    /\ Clear(after_clear)
    /\ UNCHANGED <<corpus, unpublished, inbox, listener, faults>>

\* The task subscribes ...
Subscribe ==
    /\ listener = "starting"
    /\ listener' = "on"
    /\ recent' = FALSE
    /\ UNCHANGED <<corpus, unpublished, inbox, trailing, missed, cacheVars, faults>>

\* ... or cannot, or Redis is gone later: the loop ends for good; a scheduled clear
\* is applied at once.
SubscriptionEnds ==
    /\ listener \in {"starting", "on"}
    /\ Fault
    /\ listener' = "over"
    /\ inbox' = 0
    /\ trailing' = FALSE
    /\ \/ trailing /\ ClearEntries /\ missed' = FALSE /\ UNCHANGED call
       \/ ~trailing /\ missed' = (missed \/ inbox > 0) /\ UNCHANGED <<cacheVars, recent>>
    /\ UNCHANGED <<corpus, unpublished>>

\* The invalidator is cancelled: what is scheduled or unread is lost.
CancelListener ==
    /\ listener' = "off"
    /\ inbox' = 0
    /\ trailing' = FALSE
    /\ missed' = (missed \/ trailing \/ inbox > 0)
    /\ UNCHANGED recent

-----------------------------------------------------------------------------
(* Properties *)

InFlight == {c \in Callers : call[c] \in {"query", "loaded"}}

\* An entry older than the corpus is one that a clear is still to come for, or a
\* message about was lost, or whose query a clear has outrun: the debounce of
\* run_cache_invalidator itself, leading and trailing, leaves no stale entry.
StaleExplained ==
    cache # NoResult /\ cache # corpus =>
        unpublished \/ inbox > 0 \/ trailing \/ missed \/ overtaken

\* Identical calls share one flight, and a caller that waits has somebody who
\* will answer (async_ttl_cache), whoever is cancelled.
FlightShared ==
    /\ InFlight = {pending} \ {Nobody}
    /\ Waiting # {} => pending # Nobody
=============================================================================
