--------------------------- MODULE ServingProofs ---------------------------
(***************************************************************************)
(* Proofs about Serving, for every number of callers, sessions, requests,   *)
(* collections and servers, every rate limit and every bound on what is     *)
(* written and on what fails.  Each of the four components keeps an         *)
(* invariant of its own; a step of the others leaves its variables alone.   *)
(***************************************************************************)
EXTENDS Serving, FiniteSetTheorems, TLAPS

-----------------------------------------------------------------------------
(* The inductive invariant *)

\* A message was once a batch, and the one being published is not sent yet.
ChannelInv ==
    /\ inbox <= corpus
    /\ unpublished => inbox + 1 <= corpus

\* What a leader has loaded is the corpus, or a clear is to come or has overtaken it.
LoadedInv ==
    \A c \in Callers : call[c] = "loaded" /\ answer[c] # corpus =>
        unpublished \/ inbox > 0 \/ trailing \/ missed \/ c \in outrun

CacheInv == ResultTypeOK /\ ChannelInv /\ FlightShared /\ LoadedInv /\ StaleExplained

\* The sessions that have the runtime and owe it a release.
Holders == {s \in Sessions : session[s] \in {"using", "release"}}

\* Only the holder of _shared_lock opens or closes, and finds the runtime as it left it.
LockInv ==
    /\ \A s \in Sessions : session[s] \in {"opening", "closing"} <=> sharedLock = s
    /\ \A s \in Sessions : session[s] = "opening" => runtime = "closed"
    /\ \A s \in Sessions : session[s] = "closing" => runtime = "closing"
    /\ runtime = "closing" => sharedLock # NoSession

RuntimeInv == RuntimeTypeOK /\ (door = "mcp" => LockInv) /\ RuntimeInUse

\* The counter of a minute that is not over has counted all it has served.
ServedInv == \A m \in Minutes : minute <= m => served[m] <= counter[m]

GateInv == GateTypeOK /\ ServedInv /\ RateBound /\ CountersExpire

\* An index belongs to a collection.
CreatedInv == \A c \in Collections : index[c] # "absent" => c \in created

IndexInv == IndexTypeOK /\ CreatedInv /\ ReadyCanSearch

IInv ==
    /\ door \in {"start", "api", "mcp", "v1"}
    /\ CacheInv
    /\ RuntimeInv
    /\ GateInv
    /\ IndexInv

-----------------------------------------------------------------------------
(* The cached query *)

\* The steps that touch the entry and its invalidation; the others leave them alone.
LEMMA CacheSteps ==
    ASSUME [Next]_vars
    PROVE  \/ \E c \in Callers : \/ Asks(c) \/ Enter(c) \/ ExpiresUnderHit(c) \/ Load(c) \/ Store(c)
                                 \/ QueryFails(c) \/ CallerCancelled(c)
           \/ WarmUpStopped \/ EntryExpires \/ WriteBatch \/ PublishWritten
           \/ OnMessage(TRUE) \/ OnMessage(FALSE) \/ WindowEnds
           \/ TrailingClear(TRUE) \/ TrailingClear(FALSE) \/ Subscribe \/ SubscriptionEnds
           \/ \E s \in Sessions : Opened(s) \/ Closed(s)
           \/ UNCHANGED resultVars
<1>1. CASE Api
  BY <1>1 DEF Api, CacheStep
<1>2. CASE Mcp
  <2>1. CASE CacheStep(FALSE)
    BY <2>1 DEF CacheStep
  <2>2. ASSUME NEW s \in Sessions, ToolCall(s) PROVE s \in Callers /\ Asks(s)
    BY <2>2, DoorAssumption DEF ToolCall
  <2> QED BY <1>2, <2>1, <2>2 DEF Mcp
<1>3. CASE V1 \/ Start \/ UNCHANGED vars
  BY <1>3 DEF V1, Start, vars
<1> QED BY <1>1, <1>2, <1>3 DEF Next

\* What is in the inbox was published, and what is published was written.
LEMMA NextChannelInv ==
    ASSUME ResultTypeOK, ChannelInv, [Next]_vars
    PROVE  ChannelInv' /\ corpus' \in Versions /\ inbox' \in 0..MaxWrites
<1> USE CacheAssumption DEF ResultTypeOK, ChannelInv, Versions
<1>1. CASE UNCHANGED <<corpus, unpublished, inbox>>
  BY <1>1
<1>2. CASE WriteBatch \/ PublishWritten
  BY <1>2 DEF WriteBatch, PublishWritten
<1>3. CASE OnMessage(TRUE) \/ OnMessage(FALSE)
  <2>1. inbox > 0 /\ inbox' = inbox - 1 /\ UNCHANGED <<corpus, unpublished>>
    BY <1>3 DEF OnMessage
  <2> QED BY <2>1
<1>4. CASE SubscriptionEnds
  BY <1>4 DEF SubscriptionEnds
<1>5. ASSUME NEW s \in Sessions, Opened(s) \/ Closed(s)
      PROVE  ChannelInv' /\ corpus' \in Versions /\ inbox' \in 0..MaxWrites
  BY <1>5 DEF Opened, Closed, CancelListener
<1>6. CASE \/ \E c \in Callers : \/ Asks(c) \/ Enter(c) \/ ExpiresUnderHit(c) \/ Load(c) \/ Store(c)
                                 \/ QueryFails(c) \/ CallerCancelled(c)
           \/ WarmUpStopped \/ EntryExpires \/ WindowEnds
           \/ TrailingClear(TRUE) \/ TrailingClear(FALSE) \/ Subscribe
           \/ UNCHANGED resultVars
  BY <1>1, <1>6 DEF Asks, Enter, ExpiresUnderHit, Load, Store, QueryFails, CallerCancelled,
                    WarmUpStopped, EntryExpires, WindowEnds, TrailingClear, Subscribe,
                    channelVars, resultVars
<1> QED BY <1>2, <1>3, <1>4, <1>5, <1>6, CacheSteps

\* The program counters of the calls, and what they carry.
CallTypeOK ==
    /\ call \in [Callers -> CallLabels]
    /\ answer \in [Callers -> Versions \cup {NoResult}]
    /\ cache \in Versions \cup {NoResult}
    /\ pending \in Callers \cup {Nobody}
    /\ outrun \subseteq Callers

\* A call goes from label to label, and carries what a query has answered.
LEMMA NextCallTypeOK ==
    ASSUME ResultTypeOK, [Next]_vars
    PROVE  CallTypeOK'
<1> USE CacheAssumption DEF ResultTypeOK, CallTypeOK, CallLabels
<1>1. ASSUME NEW c \in Callers, Asks(c) \/ Enter(c) \/ ExpiresUnderHit(c) PROVE CallTypeOK'
  BY <1>1 DEF Asks, Ask, Enter, ExpiresUnderHit
<1>2. ASSUME NEW c \in Callers, Load(c) PROVE CallTypeOK'
  BY <1>2 DEF Load
<1>3. ASSUME NEW c \in Callers, Store(c) \/ QueryFails(c) PROVE CallTypeOK'
  BY <1>3 DEF Store, QueryFails, FlightEnds, Waiting
<1>4. ASSUME NEW c \in Callers, Cancel(c) PROVE CallTypeOK'
  BY <1>4 DEF Cancel, LeaderCancelled, Waiting
<1>5. ASSUME NEW a \in BOOLEAN, OnMessage(a) \/ TrailingClear(a) PROVE CallTypeOK'
  BY <1>5 DEF OnMessage, TrailingClear, Clear, ClearEntries, cacheVars
<1>6. CASE SubscriptionEnds
  BY <1>6 DEF SubscriptionEnds, ClearEntries, cacheVars
<1>7. CASE \/ EntryExpires \/ WriteBatch \/ PublishWritten \/ WindowEnds \/ Subscribe
           \/ UNCHANGED resultVars
           \/ \E s \in Sessions : Opened(s) \/ Closed(s)
  BY <1>7 DEF EntryExpires, WriteBatch, PublishWritten, WindowEnds, Subscribe, Opened, Closed,
              cacheVars, resultVars
<1> QED BY <1>1, <1>2, <1>3, <1>4, <1>5, <1>6, <1>7, CacheSteps DEF CallerCancelled, WarmUpStopped

\* The flags and the listener.
FlagTypeOK ==
    /\ unpublished \in BOOLEAN
    /\ listener \in {"off", "starting", "on", "over"}
    /\ recent \in BOOLEAN
    /\ trailing \in BOOLEAN
    /\ missed \in BOOLEAN
    /\ overtaken \in BOOLEAN

\* Flags stay flags, and the listener has four states.
LEMMA NextFlagTypeOK ==
    ASSUME ResultTypeOK, [Next]_vars
    PROVE  FlagTypeOK'
<1> USE DEF ResultTypeOK, FlagTypeOK
<1>1. ASSUME NEW c \in Callers, Asks(c) \/ Enter(c) \/ ExpiresUnderHit(c) \/ Load(c)
      PROVE  FlagTypeOK'
  BY <1>1 DEF Asks, Enter, ExpiresUnderHit, Load, channelVars
<1>2. ASSUME NEW c \in Callers, Store(c) \/ QueryFails(c) PROVE FlagTypeOK'
  <2>1. overtaken' \in BOOLEAN
    <3>1. overtaken' = (c \in outrun) \/ overtaken' = overtaken
      BY <1>2 DEF Store, QueryFails
    <3>2. (c \in outrun) \in BOOLEAN
      OBVIOUS
    <3> QED BY <3>1, <3>2
  <2>2. UNCHANGED channelVars
    BY <1>2 DEF Store, QueryFails
  <2> QED BY <2>1, <2>2 DEF channelVars
<1>3. ASSUME NEW c \in Callers, Cancel(c), UNCHANGED channelVars
      PROVE  FlagTypeOK'
  BY <1>3 DEF Cancel, channelVars
<1>4. CASE EntryExpires \/ WriteBatch \/ PublishWritten
  BY <1>4 DEF EntryExpires, WriteBatch, PublishWritten, cacheVars, channelVars
<1>5. ASSUME NEW a \in BOOLEAN, OnMessage(a) \/ TrailingClear(a) PROVE FlagTypeOK'
  BY <1>5 DEF OnMessage, TrailingClear, Clear, ClearEntries, cacheVars
<1>6. CASE WindowEnds \/ Subscribe
  BY <1>6 DEF WindowEnds, Subscribe, cacheVars
<1>7. CASE SubscriptionEnds
  BY <1>7 DEF SubscriptionEnds, ClearEntries, cacheVars
<1>8. ASSUME NEW s \in Sessions, Opened(s) \/ Closed(s) PROVE FlagTypeOK'
  BY <1>8 DEF Opened, Closed, CancelListener, cacheVars
<1>9. CASE UNCHANGED resultVars
  BY <1>9 DEF resultVars
<1> HIDE DEF ResultTypeOK, FlagTypeOK
<1> QED BY <1>1, <1>2, <1>3, <1>4, <1>5, <1>6, <1>7, <1>8, <1>9, CacheSteps,
           CacheAssumption DEF CallerCancelled, WarmUpStopped

\* Faults are bounded by the guard of Fault.
LEMMA NextFaults ==
    ASSUME ResultTypeOK, [Next]_vars
    PROVE  faults' \in 0..MaxFaults
<1>1. CASE UNCHANGED faults
  BY <1>1 DEF ResultTypeOK
<1>2. CASE Fault
  BY <1>2, CacheAssumption DEF Fault, ResultTypeOK
<1>3. Fault \/ UNCHANGED faults
  BY CacheSteps
  DEF Asks, Enter, ExpiresUnderHit, Load, Store, QueryFails, CallerCancelled, WarmUpStopped,
      EntryExpires, WriteBatch, PublishWritten, OnMessage, WindowEnds, TrailingClear, Subscribe,
      SubscriptionEnds, Opened, Closed, NoFault, resultVars
<1> QED BY <1>1, <1>2, <1>3

\* The parts make up the types of the cache and its channel.
LEMMA NextResultTypeOK ==
    ASSUME ResultTypeOK, ChannelInv, [Next]_vars
    PROVE  ResultTypeOK'
BY NextChannelInv, NextCallTypeOK, NextFlagTypeOK, NextFaults
   DEF ResultTypeOK, CallTypeOK, FlagTypeOK, Versions

\* Only the leader of the flight starts it and ends it, and nobody waits for none.
LEMMA NextFlightShared ==
    ASSUME ResultTypeOK, FlightShared, [Next]_vars
    PROVE  FlightShared'
<1> USE CacheAssumption DEF ResultTypeOK, FlightShared, InFlight, Waiting
<1>1. ASSUME NEW c \in Callers, Asks(c) PROVE FlightShared'
  BY <1>1 DEF Asks, Ask
<1>2. ASSUME NEW c \in Callers, Enter(c) PROVE FlightShared'
  BY <1>2 DEF Enter
<1>3. ASSUME NEW c \in Callers, ExpiresUnderHit(c) PROVE FlightShared'
  BY <1>3 DEF ExpiresUnderHit
<1>4. ASSUME NEW c \in Callers, Load(c) PROVE FlightShared'
  BY <1>4 DEF Load
<1>5. ASSUME NEW c \in Callers, Store(c) \/ QueryFails(c) PROVE FlightShared'
  BY <1>5 DEF Store, QueryFails, FlightEnds
<1>6. ASSUME NEW c \in Callers, Cancel(c) PROVE FlightShared'
  BY <1>6 DEF Cancel, LeaderCancelled
<1>7. ASSUME NEW a \in BOOLEAN, OnMessage(a) \/ TrailingClear(a) PROVE FlightShared'
  BY <1>7 DEF OnMessage, TrailingClear, Clear, ClearEntries, cacheVars
<1>8. CASE UNCHANGED <<call, pending>>
  BY <1>8
<1>9. CASE \/ EntryExpires \/ WriteBatch \/ PublishWritten \/ WindowEnds \/ Subscribe
           \/ SubscriptionEnds \/ UNCHANGED resultVars
           \/ \E s \in Sessions : Opened(s) \/ Closed(s)
  BY <1>8, <1>9 DEF EntryExpires, WriteBatch, PublishWritten, WindowEnds, Subscribe,
                    SubscriptionEnds, ClearEntries, Opened, Closed, cacheVars, resultVars
<1> QED BY <1>1, <1>2, <1>3, <1>4, <1>5, <1>6, <1>7, <1>9, CacheSteps
        DEF CallerCancelled, WarmUpStopped

\* What an answer or an entry is excused by stays until a clear that takes it along.
LEMMA NextExplained ==
    ASSUME ResultTypeOK, LoadedInv, StaleExplained, [Next]_vars
    PROVE  LoadedInv' /\ StaleExplained'
<1> USE CacheAssumption DEF ResultTypeOK, Versions, LoadedInv, StaleExplained
<1>1. ASSUME NEW c \in Callers, Asks(c) PROVE LoadedInv' /\ StaleExplained'
  BY <1>1 DEF Asks, Ask, channelVars
<1>2. ASSUME NEW c \in Callers, Enter(c) PROVE LoadedInv' /\ StaleExplained'
  BY <1>2 DEF Enter, channelVars
<1>3. ASSUME NEW c \in Callers, ExpiresUnderHit(c) PROVE LoadedInv' /\ StaleExplained'
  BY <1>3 DEF ExpiresUnderHit, channelVars
<1>4. ASSUME NEW c \in Callers, Load(c) PROVE LoadedInv' /\ StaleExplained'
  BY <1>4 DEF Load, channelVars
<1>5. ASSUME NEW c \in Callers, Store(c) \/ QueryFails(c) PROVE LoadedInv' /\ StaleExplained'
  BY <1>5 DEF Store, QueryFails, FlightEnds, Waiting, channelVars
<1>6. ASSUME NEW c \in Callers, Cancel(c), UNCHANGED channelVars
      PROVE  LoadedInv' /\ StaleExplained'
  BY <1>6 DEF Cancel, LeaderCancelled, Waiting, channelVars
<1>7. CASE EntryExpires
  BY <1>7 DEF EntryExpires, channelVars
<1>8. CASE WriteBatch \/ PublishWritten
  BY <1>8 DEF WriteBatch, PublishWritten, cacheVars
<1>9. ASSUME NEW a \in BOOLEAN, OnMessage(a) \/ TrailingClear(a)
      PROVE  LoadedInv' /\ StaleExplained'
  BY <1>9 DEF OnMessage, TrailingClear, Clear, ClearEntries, cacheVars
<1>10. CASE WindowEnds \/ Subscribe
  BY <1>10 DEF WindowEnds, Subscribe, cacheVars
<1>11. CASE SubscriptionEnds
  <2>1. UNCHANGED <<corpus, unpublished, call, answer>>
    BY <1>11 DEF SubscriptionEnds, ClearEntries, cacheVars
  <2>2. CASE trailing
    BY <1>11, <2>1, <2>2 DEF SubscriptionEnds, ClearEntries
  <2>3. CASE ~trailing
    <3>1. UNCHANGED <<cache, outrun, overtaken>>
      BY <1>11, <2>3 DEF SubscriptionEnds, cacheVars
    <3>2. missed \/ inbox > 0 => missed'
      BY <1>11, <2>3 DEF SubscriptionEnds
    <3> QED BY <2>1, <2>3, <3>1, <3>2
  <2> QED BY <2>2, <2>3
<1>12. ASSUME NEW s \in Sessions, Opened(s) \/ Closed(s) PROVE LoadedInv' /\ StaleExplained'
  BY <1>12 DEF Opened, Closed, CancelListener, cacheVars
<1>13. CASE UNCHANGED resultVars
  BY <1>13 DEF resultVars
<1> QED BY <1>1, <1>2, <1>3, <1>4, <1>5, <1>6, <1>7, <1>8, <1>9, <1>10, <1>11, <1>12, <1>13,
           CacheSteps DEF CallerCancelled, WarmUpStopped

\* What the cache keeps, whoever steps.
LEMMA NextCacheInv ==
    ASSUME CacheInv, [Next]_vars
    PROVE  CacheInv'
BY NextResultTypeOK, NextChannelInv, NextFlightShared, NextExplained DEF CacheInv

-----------------------------------------------------------------------------
(* The shared runtime *)

\* The steps of a session, and what the other steps do to the listener: it is off
\* after them if and only if it was off before.
LEMMA RuntimeSteps ==
    ASSUME [Next]_vars, door = "mcp"
    PROVE  \/ \E s \in Sessions :
                 \/ SessionStep(s) /\ UNCHANGED listener
                 \/ Opened(s) \/ Closed(s)
           \/ UNCHANGED runtimeVars /\ (listener' = "off" <=> listener = "off")
<1>1. CASE Mcp
  <2>1. ASSUME CacheStep(FALSE) PROVE listener' = "off" <=> listener = "off"
    BY <2>1 DEF CacheStep, Enter, ExpiresUnderHit, Load, Store, QueryFails, CallerCancelled,
         EntryExpires, WriteBatch, PublishWritten, OnMessage, WindowEnds, TrailingClear,
         Subscribe, SubscriptionEnds, channelVars
  <2>2. ASSUME NEW s \in Sessions, ToolCall(s) PROVE UNCHANGED runtimeVars /\ UNCHANGED listener
    BY <2>2 DEF ToolCall, Asks, channelVars
  <2>3. ASSUME UNCHANGED resultVars PROVE UNCHANGED listener
    BY <2>3 DEF resultVars
  <2> QED BY <1>1, <2>1, <2>2, <2>3 DEF Mcp
<1>2. CASE Api \/ V1 \/ Start
  BY <1>2 DEF Api, V1, Start
<1>3. CASE UNCHANGED vars
  BY <1>3 DEF vars, runtimeVars, resultVars
<1> QED BY <1>1, <1>2, <1>3 DEF Next

\* Sessions keep their labels and the reference count does not go below zero.
LEMMA NextRuntimeTypeOK ==
    ASSUME RuntimeTypeOK, [Next]_vars
    PROVE  RuntimeTypeOK' /\ door' = door
<1> USE DEF RuntimeTypeOK, SessionLabels
<1>1. door' = door
  BY DEF Next, vars
<1>2. ASSUME NEW s \in Sessions, SessionStep(s) \/ Opened(s) \/ Closed(s) PROVE RuntimeTypeOK'
  BY <1>2 DEF SessionStep, Connect, Join, BeginOpen, OpenFails, Disconnect, Leave, LeaveCancelled,
              BeginClose, Opened, FinishOpen, Closed, FinishClose, Becomes
<1>3. ASSUME UNCHANGED runtimeVars PROVE RuntimeTypeOK'
  BY <1>3 DEF runtimeVars
<1>4. UNCHANGED runtimeVars \/ \E s \in Sessions : SessionStep(s) \/ Opened(s) \/ Closed(s)
  BY DEF Next, Api, Mcp, ToolCall, V1, Start, vars
<1> QED BY <1>1, <1>2, <1>3, <1>4

\* Between the two steps of an opening or a closing nobody else touches the runtime.
LEMMA NextLockInv ==
    ASSUME RuntimeTypeOK, LockInv, RuntimeInUse, door = "mcp", [Next]_vars
    PROVE  LockInv'
<1> USE RuntimeAssumption DEF RuntimeTypeOK, SessionLabels, LockInv, Becomes
<1>1. ASSUME NEW s \in Sessions, Connect(s) \/ OpenFails(s) \/ Disconnect(s) PROVE LockInv'
  BY <1>1 DEF Connect, OpenFails, Disconnect
<1>2. ASSUME NEW s \in Sessions, Join(s) \/ Leave(s) \/ LeaveCancelled(s) PROVE LockInv'
  BY <1>2 DEF Join, Leave, LeaveCancelled
<1>3. ASSUME NEW s \in Sessions, BeginOpen(s) PROVE LockInv'
  <2>1. runtime = "closed"
    BY <1>3 DEF BeginOpen, RuntimeInUse
  <2> QED BY <1>3, <2>1 DEF BeginOpen
<1>4. ASSUME NEW s \in Sessions, BeginClose(s) PROVE LockInv'
  BY <1>4 DEF BeginClose
<1>5. ASSUME NEW s \in Sessions, Opened(s) PROVE LockInv'
  BY <1>5 DEF Opened, FinishOpen
<1>6. ASSUME NEW s \in Sessions, Closed(s) PROVE LockInv'
  BY <1>6 DEF Closed, FinishClose
<1>7. CASE UNCHANGED runtimeVars
  BY <1>7 DEF runtimeVars
<1> QED BY <1>1, <1>2, <1>3, <1>4, <1>5, <1>6, <1>7, RuntimeSteps DEF SessionStep

\* How one session's step changes the number of holders.
LEMMA HoldersCount ==
    ASSUME RuntimeTypeOK, RuntimeTypeOK', NEW s \in Sessions, NEW label, Becomes(s, label)
    PROVE  /\ Cardinality(Holders) \in Nat /\ Cardinality(Holders') \in Nat
           /\ Cardinality(Holders') <= Cardinality(Holders) + 1
           /\ label \notin {"using", "release"} => Cardinality(Holders') <= Cardinality(Holders)
           /\ s \in Holders /\ label \in {"using", "release"} => Holders' = Holders
           /\ s \in Holders /\ label \notin {"using", "release"} =>
                 Cardinality(Holders') = Cardinality(Holders) - 1
<1> USE DEF Holders, Becomes, RuntimeTypeOK
<1>1. IsFiniteSet(Holders) /\ Holders' \subseteq Holders \cup {s}
  BY RuntimeAssumption, FS_Subset
<1>2. /\ IsFiniteSet(Holders \cup {s})
      /\ Cardinality(Holders \cup {s}) = IF s \in Holders THEN Cardinality(Holders)
                                                         ELSE Cardinality(Holders) + 1
  BY <1>1, FS_AddElement
<1>3. IsFiniteSet(Holders') /\ Cardinality(Holders') <= Cardinality(Holders \cup {s})
  BY <1>1, <1>2, FS_Subset
<1>4. /\ Cardinality(Holders) \in Nat /\ Cardinality(Holders') \in Nat
      /\ Cardinality(Holders \cup {s}) \in Nat
  BY <1>1, <1>2, <1>3, FS_CardinalityType
<1>5. ASSUME label \notin {"using", "release"} PROVE Holders' = Holders \ {s}
  BY <1>5
<1>6. Cardinality(Holders \ {s}) = IF s \in Holders THEN Cardinality(Holders) - 1
                                                    ELSE Cardinality(Holders)
  BY <1>1, FS_RemoveElement
<1>7. ASSUME s \in Holders, label \in {"using", "release"} PROVE Holders' = Holders
  BY <1>7
<1> HIDE DEF Holders, Becomes, RuntimeTypeOK
<1>8. Cardinality(Holders') <= Cardinality(Holders) + 1
  BY <1>2, <1>3, <1>4
<1>9. ASSUME label \notin {"using", "release"}
      PROVE  /\ Cardinality(Holders') <= Cardinality(Holders)
             /\ s \in Holders => Cardinality(Holders') = Cardinality(Holders) - 1
  <2>1. Cardinality(Holders') = Cardinality(Holders \ {s})
    BY <1>5, <1>9
  <2> QED BY <1>4, <1>6, <2>1
<1> QED BY <1>4, <1>7, <1>8, <1>9

\* References are counted under the lock, so they cover the holders.
LEMMA NextRuntimeInUse ==
    ASSUME RuntimeTypeOK, LockInv, RuntimeInUse, door = "mcp", [Next]_vars
    PROVE  RuntimeInUse'
<1> DEFINE n == Cardinality(Holders)
<1>1. refs \in Nat /\ n <= refs /\ n \in Nat
  <2>1. IsFiniteSet(Holders)
    BY RuntimeAssumption, FS_Subset DEF Holders
  <2> QED BY <2>1, FS_CardinalityType DEF RuntimeInUse, RuntimeTypeOK, Holders
<1>2. (refs > 0 <=> runtime = "open") /\ (listener = "off" <=> runtime = "closed")
  BY DEF RuntimeInUse
<1>3. SUFFICES /\ n' <= refs'
               /\ refs' > 0 <=> runtime' = "open"
               /\ listener' = "off" <=> runtime' = "closed"
  BY DEF RuntimeInUse, Holders
<1>4. RuntimeTypeOK'
  BY NextRuntimeTypeOK
<1>5. ASSUME NEW s \in Sessions, Connect(s) \/ OpenFails(s) \/ LeaveCancelled(s), UNCHANGED listener
      PROVE  /\ n' <= refs'
             /\ refs' > 0 <=> runtime' = "open"
             /\ listener' = "off" <=> runtime' = "closed"
  <2>1. UNCHANGED <<refs, runtime>>
    BY <1>5 DEF Connect, OpenFails, LeaveCancelled
  <2>2. PICK label \in {"acquire", "idle"} : Becomes(s, label)
    BY <1>5 DEF Connect, OpenFails, LeaveCancelled
  <2>3. n' <= n /\ n' \in Nat
    BY <1>4, <2>2, HoldersCount
  <2> QED BY <1>1, <1>2, <1>5, <2>1, <2>3
<1>6. ASSUME NEW s \in Sessions, Join(s), UNCHANGED listener
      PROVE  /\ n' <= refs'
             /\ refs' > 0 <=> runtime' = "open"
             /\ listener' = "off" <=> runtime' = "closed"
  <2>1. refs > 0 /\ refs' = refs + 1 /\ runtime' = runtime /\ Becomes(s, "using")
    BY <1>6 DEF Join
  <2>2. n' <= n + 1 /\ n' \in Nat
    BY <1>4, <2>1, HoldersCount
  <2> QED BY <1>1, <1>2, <1>6, <2>1, <2>2
<1>7. ASSUME NEW s \in Sessions, BeginOpen(s), UNCHANGED listener
      PROVE  /\ n' <= refs'
             /\ refs' > 0 <=> runtime' = "open"
             /\ listener' = "off" <=> runtime' = "closed"
  <2>1. UNCHANGED <<refs, runtime>> /\ Becomes(s, "opening")
    BY <1>7 DEF BeginOpen
  <2>2. n' <= n /\ n' \in Nat
    BY <1>4, <2>1, HoldersCount
  <2> QED BY <1>1, <1>2, <1>7, <2>1, <2>2
<1>8. ASSUME NEW s \in Sessions, Disconnect(s), UNCHANGED listener
      PROVE  /\ n' <= refs'
             /\ refs' > 0 <=> runtime' = "open"
             /\ listener' = "off" <=> runtime' = "closed"
  <2>1. UNCHANGED <<refs, runtime>> /\ Becomes(s, "release") /\ s \in Holders
    BY <1>8 DEF Disconnect, Holders
  <2>2. n' = n
    BY <1>4, <2>1, HoldersCount
  <2> QED BY <1>1, <1>2, <1>8, <2>1, <2>2
<1>9. ASSUME NEW s \in Sessions, Leave(s) \/ BeginClose(s), UNCHANGED listener
      PROVE  /\ n' <= refs'
             /\ refs' > 0 <=> runtime' = "open"
             /\ listener' = "off" <=> runtime' = "closed"
  <2>1. s \in Holders
    BY <1>9 DEF Leave, BeginClose, Holders
  <2>2. PICK label \in {"idle", "closing"} : Becomes(s, label)
    BY <1>9 DEF Leave, BeginClose
  <2>3. n' = n - 1 /\ n' \in Nat
    BY <1>4, <2>1, <2>2, HoldersCount
  <2>4. \/ refs > 1 /\ refs' = refs - 1 /\ runtime' = runtime
        \/ refs = 1 /\ refs' = 0 /\ runtime' = "closing"
    BY <1>9 DEF Leave, BeginClose
  <2> QED BY <1>1, <1>2, <1>9, <2>3, <2>4
<1>10. ASSUME NEW s \in Sessions, Opened(s)
       PROVE  /\ n' <= refs'
              /\ refs' > 0 <=> runtime' = "open"
              /\ listener' = "off" <=> runtime' = "closed"
  <2>1. refs' = 1 /\ runtime' = "open" /\ listener' = "starting" /\ Becomes(s, "using")
    BY <1>10 DEF Opened, FinishOpen
  <2>2. refs = 0
    BY <1>1, <1>2, <1>10 DEF Opened, FinishOpen, LockInv
  <2>3. n' <= n + 1 /\ n' \in Nat
    BY <1>4, <2>1, HoldersCount
  <2> QED BY <1>1, <2>1, <2>2, <2>3
<1>11. ASSUME NEW s \in Sessions, Closed(s)
       PROVE  /\ n' <= refs'
              /\ refs' > 0 <=> runtime' = "open"
              /\ listener' = "off" <=> runtime' = "closed"
  <2>1. refs' = refs /\ runtime' = "closed" /\ listener' = "off" /\ Becomes(s, "idle")
    BY <1>11 DEF Closed, FinishClose, CancelListener
  <2>2. refs = 0
    BY <1>1, <1>2, <1>11 DEF Closed, FinishClose, LockInv
  <2>3. n' <= n /\ n' \in Nat
    BY <1>4, <2>1, HoldersCount
  <2> QED BY <1>1, <2>1, <2>2, <2>3
<1>12. ASSUME UNCHANGED runtimeVars, listener' = "off" <=> listener = "off"
       PROVE  /\ n' <= refs'
              /\ refs' > 0 <=> runtime' = "open"
              /\ listener' = "off" <=> runtime' = "closed"
  BY <1>1, <1>2, <1>12 DEF runtimeVars, Holders
<1> HIDE DEF n
<1> QED BY <1>5, <1>6, <1>7, <1>8, <1>9, <1>10, <1>11, <1>12, RuntimeSteps DEF SessionStep

\* What the runtime keeps, whoever steps.
LEMMA NextRuntimeInv ==
    ASSUME RuntimeInv, [Next]_vars
    PROVE  RuntimeInv'
<1>1. RuntimeTypeOK' /\ door' = door
  BY NextRuntimeTypeOK DEF RuntimeInv
<1>2. CASE door = "mcp"
  BY <1>1, <1>2, NextLockInv, NextRuntimeInUse DEF RuntimeInv
<1>3. CASE door # "mcp"
  BY <1>1, <1>3 DEF RuntimeInv, RuntimeInUse
<1> QED BY <1>2, <1>3

-----------------------------------------------------------------------------
(* The gate of the public API *)

\* The steps of a request, of the clock and of what expires.
LEMMA GateSteps ==
    ASSUME [Next]_vars
    PROVE  \/ \E r \in Requests : Arrive(r) \/ RequestStep(r) \/ RedisFails(r)
           \/ Revoke \/ KeyExpires \/ NextMinute
           \/ \E m \in Minutes : CounterExpires(m)
           \/ UNCHANGED gateVars
BY DEF Next, Api, Mcp, V1, Start, vars

\* Requests keep their labels and counters stay numbers.
LEMMA NextGateTypeOK ==
    ASSUME GateTypeOK, [Next]_vars
    PROVE  GateTypeOK'
<1> USE GateAssumption DEF GateTypeOK, Minutes, GateLabels, Reaches
<1>1. ASSUME NEW r \in Requests, Arrive(r) PROVE GateTypeOK'
  BY <1>1 DEF Arrive, Admit
<1>2. ASSUME NEW r \in Requests, FindKey(r) PROVE GateTypeOK'
  BY <1>2 DEF FindKey
<1>3. ASSUME NEW r \in Requests, StoreKey(r) PROVE GateTypeOK'
  BY <1>3 DEF StoreKey, Admit
<1>4. ASSUME NEW r \in Requests, Increment(r) PROVE GateTypeOK'
  <2>1. /\ counter' \in [Minutes -> Nat] /\ served' \in [Minutes -> Nat]
        /\ gate' \in [Requests -> GateLabels]
    BY <1>4 DEF Increment, FirstInWindow
  <2>2. told' \in [Requests -> BOOLEAN]
    <3>1. told' = [told EXCEPT ![r] = WithinLimit(counter[window[r]] + 1)]
      BY <1>4 DEF Increment
    <3>2. WithinLimit(counter[window[r]] + 1) \in BOOLEAN
      BY DEF WithinLimit
    <3> QED BY <3>1, <3>2
  <2>3. UNCHANGED <<active, keyCache, minute, expires, window, unsettled>>
    BY <1>4 DEF Increment
  <2> QED BY <2>1, <2>2, <2>3
<1>5. ASSUME NEW r \in Requests, SetExpiry(r) PROVE GateTypeOK'
  BY <1>5 DEF SetExpiry
<1>6. ASSUME NEW r \in Requests, CheckLimit(r) \/ Handle(r) \/ Meter(r) PROVE GateTypeOK'
  <2>1. CASE CheckLimit(r)
    BY <2>1 DEF CheckLimit
  <2>2. CASE Handle(r)
    BY <2>2 DEF Handle
  <2>3. CASE Meter(r)
    BY <2>3 DEF Meter, Ends
  <2> QED BY <1>6, <2>1, <2>2, <2>3
<1>7. ASSUME NEW r \in Requests, RedisFails(r) PROVE GateTypeOK'
  <2>1. counter' \in [Minutes -> Nat]
    <3>1. \/ counter' = counter
          \/ counter' = [counter EXCEPT ![window[r]] = counter[window[r]] + 1]
      BY <1>7 DEF RedisFails
    <3>2. counter \in [Minutes -> Nat] /\ counter[window[r]] + 1 \in Nat
      OBVIOUS
    <3> HIDE DEF GateTypeOK, Minutes
    <3> QED BY <3>1, <3>2
  <2>2. unsettled' \in BOOLEAN
    BY <1>7 DEF RedisFails
  <2>3. /\ gate' \in [Requests -> GateLabels] /\ window' \in [Requests -> Minutes]
        /\ told' \in [Requests -> BOOLEAN]
    BY <1>7 DEF RedisFails, Ends
  <2>4. UNCHANGED <<active, keyCache, minute, expires, served>>
    BY <1>7 DEF RedisFails
  <2> QED BY <2>1, <2>2, <2>3, <2>4
<1>8. CASE Revoke \/ KeyExpires
  BY <1>8 DEF Revoke, KeyExpires
<1>9. CASE NextMinute
  BY <1>9 DEF NextMinute
<1>10. ASSUME NEW m \in Minutes, CounterExpires(m) PROVE GateTypeOK'
  BY <1>10 DEF CounterExpires
<1>11. CASE UNCHANGED gateVars
  BY <1>11 DEF gateVars
<1> HIDE DEF GateTypeOK, Minutes, GateLabels, Reaches
<1> QED BY <1>1, <1>2, <1>3, <1>4, <1>5, <1>6, <1>7, <1>8, <1>9, <1>10, <1>11, GateSteps
        DEF RequestStep

\* What is served in a minute is counted in that minute.
LEMMA NextRateBound ==
    ASSUME GateTypeOK, ServedInv, RateBound, [Next]_vars
    PROVE  ServedInv' /\ RateBound'
<1> USE GateAssumption DEF GateTypeOK, Minutes, ServedInv, RateBound
<1>1. ASSUME UNCHANGED <<minute, served, counter>> PROVE ServedInv' /\ RateBound'
  BY <1>1
<1>2. ASSUME NEW r \in Requests, Increment(r) PROVE ServedInv' /\ RateBound'
  <2> DEFINE w == window[r]
             count == counter[w] + 1
             intime == minute = w /\ WithinLimit(count)
  <2>1. /\ counter' = [counter EXCEPT ![w] = count] /\ minute' = minute
        /\ served' = [served EXCEPT ![w] = IF intime THEN @ + 1 ELSE @]
    BY <1>2 DEF Increment
  <2>2. CASE intime
    <3>1. served[w] + 1 <= count /\ count <= Limit
      <4>1. w \in Minutes /\ minute = w /\ count <= Limit
        BY <2>2 DEF WithinLimit
      <4>2. served[w] <= counter[w] /\ served[w] \in Nat /\ counter[w] \in Nat
        BY <4>1
      <4> QED BY <4>1, <4>2
    <3>2. served' = [served EXCEPT ![w] = served[w] + 1]
      BY <2>1, <2>2
    <3> HIDE DEF intime
    <3> QED BY <2>1, <3>1, <3>2
  <2>3. CASE ~intime
    <3>1. served' = served
      BY <2>1, <2>3
    <3> HIDE DEF intime
    <3> QED BY <2>1, <3>1
  <2> QED BY <2>2, <2>3
<1>3. ASSUME NEW r \in Requests, RedisFails(r) PROVE ServedInv' /\ RateBound'
  <2>1. UNCHANGED <<minute, served>>
    BY <1>3 DEF RedisFails
  <2>2. \/ counter' = counter
        \/ counter' = [counter EXCEPT ![window[r]] = counter[window[r]] + 1]
    BY <1>3 DEF RedisFails
  <2>3. counter \in [Minutes -> Nat] /\ served \in [Minutes -> Nat]
    OBVIOUS
  <2>4. \A m \in Minutes : counter[m] <= counter'[m]
    <3> HIDE DEF GateTypeOK, Minutes
    <3> QED BY <2>2, <2>3
  <2>5. \A m \in Minutes : counter'[m] \in Nat
    BY NextGateTypeOK
  <2> QED BY <2>1, <2>3, <2>4, <2>5
<1>4. CASE NextMinute
  BY <1>4 DEF NextMinute
<1>5. ASSUME NEW m \in Minutes, CounterExpires(m) PROVE ServedInv' /\ RateBound'
  BY <1>5 DEF CounterExpires
<1>6. ASSUME NEW r \in Requests, \/ Arrive(r) \/ FindKey(r) \/ StoreKey(r) \/ SetExpiry(r)
                                 \/ CheckLimit(r) \/ Handle(r) \/ Meter(r)
      PROVE  UNCHANGED <<minute, served, counter>>
  BY <1>6 DEF Arrive, FindKey, StoreKey, SetExpiry, CheckLimit, Handle, Meter
<1>7. ASSUME Revoke \/ KeyExpires \/ UNCHANGED gateVars PROVE UNCHANGED <<minute, served, counter>>
  BY <1>7 DEF Revoke, KeyExpires, gateVars
<1> HIDE DEF GateTypeOK, Minutes, ServedInv, RateBound
<1> QED BY <1>1, <1>2, <1>3, <1>4, <1>5, <1>6, <1>7, GateSteps DEF RequestStep

\* Whoever is to set a TTL goes on to do so, unless Redis fails it.
LEMMA NextCountersExpire ==
    ASSUME GateTypeOK, CountersExpire, [Next]_vars
    PROVE  CountersExpire'
<1> USE GateAssumption DEF GateTypeOK, Minutes, GateLabels, CountersExpire, Reaches
<1>1. ASSUME NEW r \in Requests, Arrive(r) \/ FindKey(r) \/ StoreKey(r) PROVE CountersExpire'
  BY <1>1 DEF Arrive, FindKey, StoreKey, Admit
<1>2. ASSUME NEW r \in Requests, Increment(r) PROVE CountersExpire'
  <2> SUFFICES ASSUME NEW m \in Minutes, counter'[m] > 0, m \notin expires, ~unsettled
               PROVE  \E q \in Requests : gate'[q] = "expire" /\ window'[q] = m
    BY <1>2 DEF Increment
  <2>1. /\ counter' = [counter EXCEPT ![window[r]] = counter[window[r]] + 1]
        /\ gate[r] = "incr" /\ window' = window
        /\ gate' = [gate EXCEPT ![r] = IF counter[window[r]] + 1 = 1 THEN "expire" ELSE "check"]
    BY <1>2 DEF Increment, FirstInWindow
  <2>2. CASE counter[m] > 0
    <3>1. PICK q \in Requests : gate[q] = "expire" /\ window[q] = m
      BY <2>2
    <3> QED BY <2>1, <3>1
  <2>3. CASE counter[m] = 0
    <3>1. window[r] = m /\ gate'[r] = "expire" /\ window'[r] = m
      BY <2>1, <2>3
    <3> QED BY <3>1
  <2> QED BY <2>2, <2>3
<1>3. ASSUME NEW r \in Requests, SetExpiry(r) PROVE CountersExpire'
  <2> SUFFICES ASSUME NEW m \in Minutes, counter[m] > 0, m \notin expires', ~unsettled
               PROVE  \E q \in Requests : gate'[q] = "expire" /\ window'[q] = m
    BY <1>3 DEF SetExpiry
  <2>1. /\ window' = window /\ gate' = [gate EXCEPT ![r] = "check"]
        /\ expires' = IF counter[window[r]] > 0 THEN expires \cup {window[r]} ELSE expires
    BY <1>3 DEF SetExpiry
  <2>2. m \notin expires /\ window[r] # m
    BY <2>1
  <2> QED BY <2>1, <2>2
<1>4. ASSUME NEW r \in Requests, CheckLimit(r) \/ Handle(r) \/ Meter(r) PROVE CountersExpire'
  BY <1>4 DEF CheckLimit, Handle, Meter, Ends
<1>5. ASSUME NEW r \in Requests, RedisFails(r) PROVE CountersExpire'
  <2>1. CASE unsettled'
    BY <2>1
  <2>2. CASE ~unsettled'
    <3>1. gate[r] = "incr" /\ UNCHANGED <<counter, unsettled, expires>>
      BY <1>5, <2>2 DEF RedisFails
    <3>2. \A q \in Requests \ {r} : gate'[q] = gate[q] /\ window'[q] = window[q]
      BY <1>5 DEF RedisFails, Ends
    <3> QED BY <3>1, <3>2
  <2> QED BY <2>1, <2>2
<1>6. CASE Revoke \/ KeyExpires \/ NextMinute
  BY <1>6 DEF Revoke, KeyExpires, NextMinute
<1>7. ASSUME NEW m \in Minutes, CounterExpires(m) PROVE CountersExpire'
  BY <1>7 DEF CounterExpires
<1>8. CASE UNCHANGED gateVars
  BY <1>8 DEF gateVars
<1> HIDE DEF GateTypeOK, Minutes, GateLabels, CountersExpire, Reaches
<1> QED BY <1>1, <1>2, <1>3, <1>4, <1>5, <1>6, <1>7, <1>8, GateSteps DEF RequestStep

\* What the gate keeps, whoever steps.
LEMMA NextGateInv ==
    ASSUME GateInv, [Next]_vars
    PROVE  GateInv'
BY NextGateTypeOK, NextRateBound, NextCountersExpire DEF GateInv

-----------------------------------------------------------------------------
(* The search indexes *)

\* The steps of the bootstraps, of mongot and of the probes.
LEMMA IndexSteps ==
    ASSUME [Next]_vars
    PROVE  \/ \E p \in Servers : Bootstrap(p) \/ Probe(p) \/ ProbeExpires(p)
           \/ \E c \in Collections : Build(c)
           \/ UNCHANGED indexVars
BY DEF Next, Api, Mcp, V1, Start, vars

\* An index that is changed has one of the five states.
LEMMA NextIndexTypeOK ==
    ASSUME IndexTypeOK, [Next]_vars
    PROVE  IndexTypeOK'
<1> USE IndexAssumption DEF IndexTypeOK, IndexStates, Stages, To
<1>1. ASSUME NEW p \in Servers, EnsureCollections(p) PROVE IndexTypeOK'
  BY <1>1 DEF EnsureCollections, Setback
<1>2. ASSUME NEW p \in Servers, List(p) PROVE IndexTypeOK'
  <2>1. PICK c \in todo[p] :
            /\ todo' = [todo EXCEPT ![p] = @ \ {c}]
            /\ \/ /\ listed' = [listed EXCEPT ![p] = c]
                  /\ seen' = [seen EXCEPT ![p] = index[c]]
                  /\ stage' = [stage EXCEPT ![p] = "apply"]
                  /\ UNCHANGED <<ok, setbacks>>
               \/ /\ Setback
                  /\ ok' = [ok EXCEPT ![p] = FALSE]
                  /\ UNCHANGED <<listed, seen, stage>>
    BY <1>2 DEF List
  <2>2. /\ c \in Collections /\ todo' \in [Servers -> SUBSET Collections]
        /\ listed' \in [Servers -> Collections \cup {NoCollection}]
        /\ seen' \in [Servers -> IndexStates] /\ stage' \in [Servers -> Stages]
    BY <2>1
  <2>3. ok' \in [Servers -> BOOLEAN]
    BY <2>1
  <2>4. setbacks' \in 0..MaxSetbacks
    BY <2>1 DEF Setback
  <2> QED BY <1>2, <2>2, <2>3, <2>4 DEF List
<1>3. ASSUME NEW p \in Servers, Apply(p) PROVE IndexTypeOK'
  <2>1. index' \in [Collections -> IndexStates]
    BY <1>3 DEF Apply, Needed, Changed
  <2>2. ok' \in [Servers -> BOOLEAN]
    BY <1>3 DEF Apply
  <2>3. setbacks' \in 0..MaxSetbacks
    <3>1. UNCHANGED setbacks \/ Setback
      BY <1>3 DEF Apply
    <3> QED BY <3>1 DEF Setback
  <2>4. /\ listed' = [listed EXCEPT ![p] = NoCollection] /\ seen' = [seen EXCEPT ![p] = "absent"]
        /\ stage' = [stage EXCEPT ![p] = "list"] /\ UNCHANGED <<created, todo, probe>>
    BY <1>3 DEF Apply
  <2> QED BY <2>1, <2>2, <2>3, <2>4
<1>4. ASSUME NEW p \in Servers, Attempted(p) \/ Retry(p) PROVE IndexTypeOK'
  BY <1>4 DEF Attempted, Retry, NextAttempt
<1>5. ASSUME NEW p \in Servers, Probe(p) \/ ProbeExpires(p) PROVE IndexTypeOK'
  BY <1>5 DEF Probe, ProbeExpires, Setback
<1>6. ASSUME NEW c \in Collections, Build(c) PROVE IndexTypeOK'
  BY <1>6 DEF Build
<1>7. CASE UNCHANGED indexVars
  BY <1>7 DEF indexVars
<1> HIDE DEF IndexTypeOK
<1> QED BY <1>1, <1>2, <1>3, <1>4, <1>5, <1>6, <1>7, IndexSteps DEF Bootstrap

\* No step takes an index away, or makes one that can be searched one that cannot.
LEMMA NextReadyCanSearch ==
    ASSUME IndexTypeOK, CreatedInv, ReadyCanSearch, [Next]_vars
    PROVE  CreatedInv' /\ ReadyCanSearch'
<1> USE IndexAssumption DEF IndexTypeOK, IndexStates, CreatedInv, ReadyCanSearch
<1>1. ASSUME created \subseteq created', UNCHANGED <<index, probe>>
      PROVE  CreatedInv' /\ ReadyCanSearch'
  BY <1>1
<1>2. ASSUME NEW p \in Servers, Apply(p) PROVE CreatedInv' /\ ReadyCanSearch'
  <2>1. UNCHANGED <<created, probe>>
    BY <1>2 DEF Apply
  <2>2. CASE UNCHANGED index
    BY <1>1, <2>1, <2>2
  <2>3. CASE index' # index
    <3> DEFINE c == listed[p]
    <3>1. /\ seen[p] \in {"absent", "drifted"} /\ (seen[p] = "absent" => c \in created)
          /\ index' = [index EXCEPT ![c] = IF @ = seen[p] THEN Changed(c, @) ELSE @]
      BY <1>2, <2>3 DEF Apply, Needed
    <3>2. c \in Collections /\ index[c] = seen[p]
      BY <2>3, <3>1
    <3>3. c \in created /\ index' = [index EXCEPT ![c] = Changed(c, index[c])]
      BY <3>1, <3>2
    <3>4. CASE index[c] = "drifted"
      BY <2>1, <3>2, <3>3, <3>4 DEF Changed
    <3>5. CASE index[c] = "absent"
      BY <2>1, <3>2, <3>3, <3>5 DEF Changed
    <3> QED BY <3>1, <3>2, <3>4, <3>5
  <2> QED BY <2>2, <2>3
<1>3. ASSUME NEW p \in Servers, Probe(p) \/ ProbeExpires(p) PROVE CreatedInv' /\ ReadyCanSearch'
  BY <1>3 DEF Probe, ProbeExpires, Searchable
<1>4. ASSUME NEW c \in Collections, Build(c) PROVE CreatedInv' /\ ReadyCanSearch'
  BY <1>4 DEF Build
<1>5. ASSUME NEW p \in Servers, EnsureCollections(p) \/ List(p) \/ Attempted(p) \/ Retry(p)
      PROVE  created \subseteq created' /\ UNCHANGED <<index, probe>>
  BY <1>5 DEF EnsureCollections, List, Attempted, Retry
<1>6. ASSUME UNCHANGED indexVars PROVE created \subseteq created' /\ UNCHANGED <<index, probe>>
  BY <1>6 DEF indexVars
<1> HIDE DEF IndexTypeOK, CreatedInv, ReadyCanSearch
<1> QED BY <1>1, <1>2, <1>3, <1>4, <1>5, <1>6, IndexSteps DEF Bootstrap

\* What the indexes keep, whoever steps.
LEMMA NextIndexInv ==
    ASSUME IndexInv, [Next]_vars
    PROVE  IndexInv'
BY NextIndexTypeOK, NextReadyCanSearch DEF IndexInv

-----------------------------------------------------------------------------
(* The theorems *)

\* Nothing is cached, held or counted at first, and no probe has asked.
LEMMA InitIInv == Init => IInv
<1> SUFFICES ASSUME Init PROVE IInv
  OBVIOUS
<1>1. CacheInv
  <2>1. CallTypeOK /\ FlagTypeOK
    BY DEF Init, ResultInit, CallTypeOK, CallLabels, FlagTypeOK
  <2>2. corpus \in Versions /\ inbox \in 0..MaxWrites /\ faults \in 0..MaxFaults /\ ChannelInv
    BY CacheAssumption DEF Init, ResultInit, Versions, ChannelInv
  <2>3. FlightShared /\ LoadedInv /\ StaleExplained
    BY CacheAssumption
    DEF Init, ResultInit, FlightShared, InFlight, Waiting, LoadedInv, StaleExplained
  <2> QED BY <2>1, <2>2, <2>3 DEF CacheInv, ResultTypeOK, CallTypeOK, FlagTypeOK
<1>2. RuntimeInv
  <2>1. RuntimeTypeOK /\ LockInv /\ Holders = {}
    BY RuntimeAssumption DEF Init, RuntimeInit, RuntimeTypeOK, SessionLabels, LockInv, Holders
  <2>2. Cardinality(Holders) = 0
    BY <2>1, FS_EmptySet
  <2>3. RuntimeInUse
    BY <2>2 DEF Init, ResultInit, RuntimeInit, RuntimeInUse, Holders
  <2> QED BY <2>1, <2>3 DEF RuntimeInv
<1>3. GateInv
  <2>1. minute \in Minutes /\ 0 \in Minutes
    BY GateAssumption DEF Init, GateInit, Minutes
  <2>2. GateTypeOK
    BY <2>1 DEF Init, GateInit, GateTypeOK, GateLabels
  <2>3. \A m \in Minutes : served[m] = 0 /\ counter[m] = 0
    BY DEF Init, GateInit
  <2>4. ServedInv /\ RateBound
    BY <2>3, GateAssumption DEF ServedInv, RateBound
  <2>5. CountersExpire
    BY <2>3 DEF CountersExpire
  <2> QED BY <2>2, <2>4, <2>5 DEF GateInv
<1>4. IndexInv
  BY IndexAssumption
  DEF Init, IndexInit, IndexInv, IndexTypeOK, IndexStates, Stages, CreatedInv, ReadyCanSearch
<1> QED BY <1>1, <1>2, <1>3, <1>4 DEF Init, IInv

\* Each component keeps its part, and none changes another.
LEMMA Inductive == IInv /\ [Next]_vars => IInv'
<1> SUFFICES ASSUME IInv, [Next]_vars PROVE IInv'
  OBVIOUS
<1>1. door' = door
  BY DEF Next, vars
<1> QED BY <1>1, NextCacheInv, NextRuntimeInv, NextGateInv, NextIndexInv DEF IInv

\* The inductive invariant holds throughout.
LEMMA Invariant == Spec => []IInv
BY InitIInv, Inductive, PTL DEF Spec

\* Every variable of the four components keeps its type, whichever process serves.
THEOREM TypeCorrect == Spec => []TypeOK
<1>1. IInv => TypeOK
  BY DEF IInv, TypeOK, CacheInv, RuntimeInv, GateInv, IndexInv
<1> QED BY <1>1, Invariant, PTL

\* The debounce of run_cache_invalidator leaves no stale entry of its own making:
\* whatever is stale is to be cleared, or its message is lost, or its query was outrun.
THEOREM StaleOnlyByRace == Spec => []StaleExplained
<1>1. IInv => StaleExplained
  BY DEF IInv, CacheInv
<1> QED BY <1>1, Invariant, PTL

\* Calls of one query share one flight and never wait for nobody (async_ttl_cache).
THEOREM OneFlight == Spec => []FlightShared
<1>1. IInv => FlightShared
  BY DEF IInv, CacheInv
<1> QED BY <1>1, Invariant, PTL

\* The runtime is open while anybody uses it, and its invalidator with it
\* (process_runtime, _open_runtime).
THEOREM RuntimeOutlivesSessions == Spec => []RuntimeInUse
<1>1. IInv => RuntimeInUse
  BY DEF IInv, RuntimeInv
<1> QED BY <1>1, Invariant, PTL

\* No key is served above its plan's limit in a minute (enforce_rate_limit).
THEOREM LimitKept == Spec => []RateBound
<1>1. IInv => RateBound
  BY DEF IInv, GateInv
<1> QED BY <1>1, Invariant, PTL

\* A counter without a TTL is one whose creator is about to set it, or was failed.
THEOREM CountersGetTTL == Spec => []CountersExpire
<1>1. IInv => CountersExpire
  BY DEF IInv, GateInv
<1> QED BY <1>1, Invariant, PTL

\* A ready server can search every collection, though its answer is cached
\* (SearchIndexProbe).
THEOREM ReadyMeansSearchable == Spec => []ReadyCanSearch
<1>1. IInv => ReadyCanSearch
  BY DEF IInv, IndexInv
<1> QED BY <1>1, Invariant, PTL
=============================================================================
