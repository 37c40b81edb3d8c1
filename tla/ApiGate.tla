------------------------------ MODULE ApiGate ------------------------------
(***************************************************************************)
(* What a request to /v1 passes before its handler runs: the lookup of its  *)
(* API key (uvo_api/auth.py), with its cache of hits and misses, and the    *)
(* fixed-window rate limit in Redis (uvo_api/ratelimit.py).  One key; a     *)
(* counter per minute.                                                      *)
(***************************************************************************)
EXTENDS Naturals, FiniteSets

CONSTANTS
    Requests,   \* the tasks that serve requests
    Limit,      \* PLAN_LIMITS of the key's plan
    LastMinute, \* bound of the model: the minutes that pass
    MaxCount    \* bound of the model: requests counted in a minute before no more arrive

ASSUME GateAssumption == Limit \in Nat /\ LastMinute \in Nat /\ MaxCount \in Nat

VARIABLES
    active,    \* MongoDB: the key's document is active
    keyCache,  \* _key_cache: "none", "active" or "inactive"
    minute,    \* the clock, in minutes
    counter,   \* Redis: the counter of each minute, 0: no such key
    expires,   \* Redis: the minutes whose counter has a TTL
    gate,      \* per request: where it is
    window,    \* per request: the minute it counts for
    told,      \* per request: what it has read, that the key is active, or that it is within the limit
    served,    \* (history) per minute: requests counted in time and let through
    unsettled  \* (history) Redis failed a request between INCR and EXPIRE

gateVars == <<active, keyCache, minute, counter, expires, gate, window, told, served, unsettled>>

Minutes == 0..LastMinute
GateLabels == {"idle", "find", "store", "incr", "expire", "check", "handler", "meter"}

GateTypeOK ==
    /\ active \in BOOLEAN
    /\ keyCache \in {"none", "active", "inactive"}
    /\ minute \in Minutes
    /\ counter \in [Minutes -> Nat]
    /\ expires \subseteq Minutes
    /\ gate \in [Requests -> GateLabels]
    /\ window \in [Requests -> Minutes]
    /\ told \in [Requests -> BOOLEAN]
    /\ served \in [Minutes -> Nat]
    /\ unsettled \in BOOLEAN

GateInit ==
    /\ active = TRUE
    /\ keyCache = "none"
    /\ minute = 0
    /\ counter = [m \in Minutes |-> 0]
    /\ expires = {}
    /\ gate = [r \in Requests |-> "idle"]
    /\ window = [r \in Requests |-> 0]
    /\ told = [r \in Requests |-> FALSE]
    /\ served = [m \in Minutes |-> 0]
    /\ unsettled = FALSE

Reaches(r, label) == gate' = [gate EXCEPT ![r] = label]

Ends(r) ==
    /\ Reaches(r, "idle")
    /\ window' = [window EXCEPT ![r] = 0]
    /\ told' = [told EXCEPT ![r] = FALSE]

\* Seeded bug: the window is the time divided by 60, rounded up.
AdmitRoundedUp(r, isActive) ==
    IF isActive
      THEN Reaches(r, "incr") /\ window' = [window EXCEPT ![r] = minute + 1]
      ELSE Reaches(r, "idle") /\ UNCHANGED window

\* require_api_key, once the document is known; enforce_rate_limit then reads the clock.
Admit(r, isActive) ==
    IF isActive
      THEN Reaches(r, "incr") /\ window' = [window EXCEPT ![r] = minute]
      ELSE Reaches(r, "idle") /\ UNCHANGED window

\* _lookup_key: from the cache, hit or miss ...
Arrive(r) ==
    /\ gate[r] = "idle"
    /\ counter[minute] < MaxCount
    /\ IF keyCache = "none" THEN Reaches(r, "find") /\ UNCHANGED window
                            ELSE Admit(r, keyCache = "active")
    /\ UNCHANGED <<active, keyCache, minute, counter, expires, told, served, unsettled>>

\* ... or from MongoDB; what it read is cached when it resumes.
FindKey(r) ==
    /\ gate[r] = "find"
    /\ told' = [told EXCEPT ![r] = active]
    /\ Reaches(r, "store")
    /\ UNCHANGED <<active, keyCache, minute, counter, expires, window, served, unsettled>>

StoreKey(r) ==
    /\ gate[r] = "store"
    /\ keyCache' = IF told[r] THEN "active" ELSE "inactive"
    /\ Admit(r, told[r])
    /\ told' = [told EXCEPT ![r] = FALSE]
    /\ UNCHANGED <<active, minute, counter, expires, served, unsettled>>

WithinLimit(count) == count <= Limit

\* Seeded bug: the first one is told by the count before INCR.
FirstInWindowBefore(count) == count = 2

FirstInWindow(count) == count = 1

\* INCR; whoever gets a 1 sets the TTL.
Increment(r) ==
    LET count == counter[window[r]] + 1
        intime == minute = window[r] /\ WithinLimit(count) IN
    /\ gate[r] = "incr"
    /\ counter' = [counter EXCEPT ![window[r]] = count]
    /\ told' = [told EXCEPT ![r] = WithinLimit(count)]
    /\ served' = [served EXCEPT ![window[r]] = IF intime THEN @ + 1 ELSE @]
    /\ Reaches(r, IF FirstInWindow(count) THEN "expire" ELSE "check")
    /\ UNCHANGED <<active, keyCache, minute, expires, window, unsettled>>

SetExpiry(r) ==
    /\ gate[r] = "expire"
    /\ expires' = IF counter[window[r]] > 0 THEN expires \cup {window[r]} ELSE expires
    /\ Reaches(r, "check")
    /\ UNCHANGED <<active, keyCache, minute, counter, window, told, served, unsettled>>

\* 429, or on to the handler.
CheckLimit(r) ==
    /\ gate[r] = "check"
    /\ Reaches(r, IF told[r] THEN "handler" ELSE "meter")
    /\ told' = [told EXCEPT ![r] = FALSE]
    /\ UNCHANGED <<active, keyCache, minute, counter, expires, window, served, unsettled>>

\* record_usage, whether or not it works.
Meter(r) ==
    /\ gate[r] = "meter"
    /\ Ends(r)
    /\ UNCHANGED <<active, keyCache, minute, counter, expires, served, unsettled>>

\* The handler answers, or raises.
Handle(r) ==
    /\ gate[r] = "handler"
    /\ Reaches(r, "meter")
    /\ UNCHANGED <<active, keyCache, minute, counter, expires, window, told, served, unsettled>>

\* Redis fails, before INCR or after it: the request ends with a 500 and unmetered,
\* a counter it has created stays without a TTL.
RedisFails(r) ==
    /\ gate[r] \in {"incr", "expire"}
    /\ Ends(r)
    /\ \/ gate[r] = "incr" /\ UNCHANGED <<counter, unsettled>>
       \/ gate[r] = "incr" /\ counter' = [counter EXCEPT ![window[r]] = @ + 1] /\ unsettled' = TRUE
       \/ gate[r] = "expire" /\ unsettled' = TRUE /\ UNCHANGED counter
    /\ UNCHANGED <<active, keyCache, minute, expires, served>>

Revoke ==
    /\ active
    /\ active' = FALSE
    /\ UNCHANGED <<keyCache, minute, counter, expires, gate, window, told, served, unsettled>>

\* Seeded bug: only misses expire.
KeyExpiresIfMiss ==
    /\ keyCache = "inactive"
    /\ keyCache' = "none"
    /\ UNCHANGED <<active, minute, counter, expires, gate, window, told, served, unsettled>>

KeyExpires ==
    /\ keyCache # "none"
    /\ keyCache' = "none"
    /\ UNCHANGED <<active, minute, counter, expires, gate, window, told, served, unsettled>>

\* Seeded bug: a TTL shorter than the window.
CounterExpiresEarly(m) ==
    /\ m \in expires
    /\ counter' = [counter EXCEPT ![m] = 0]
    /\ expires' = expires \ {m}
    /\ UNCHANGED <<active, keyCache, minute, gate, window, told, served, unsettled>>

\* A counter lives for 60 seconds at least: into the minute after its own.
CounterExpires(m) ==
    /\ m \in expires
    /\ m < minute
    /\ counter' = [counter EXCEPT ![m] = 0]
    /\ expires' = expires \ {m}
    /\ UNCHANGED <<active, keyCache, minute, gate, window, told, served, unsettled>>

NextMinute ==
    /\ minute < LastMinute
    /\ minute' = minute + 1
    /\ UNCHANGED <<active, keyCache, counter, expires, gate, window, told, served, unsettled>>

-----------------------------------------------------------------------------
(* Properties *)

\* A key is served at most Limit requests a minute, as far as they are counted in
\* their own minute (enforce_rate_limit): the TTL never resets a counter early.
RateBound == \A m \in Minutes : served[m] <= Limit

\* Whoever creates a counter has it expire, or Redis has failed in between.
CountersExpire ==
    \A m \in Minutes : counter[m] > 0 /\ m \notin expires /\ ~unsettled =>
        \E r \in Requests : gate[r] = "expire" /\ window[r] = m

\* A key that is revoked is refused in the end, whatever lookup the cache of
\* _lookup_key was filled from (auth.py: "60s TTL bounds the staleness window").
RevokedKeyRefused == ~active ~> [](\A r \in Requests : gate[r] \in {"idle", "find", "store"})
=============================================================================
