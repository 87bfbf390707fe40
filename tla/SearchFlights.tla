--------------------------- MODULE SearchFlights ---------------------------
(***************************************************************************)
(* AggregatorService.SearchFlights over FlightCache and Redis, for several *)
(* requests on several server instances that share one Redis.              *)
(*                                                                         *)
(* A request runs one Redis command, or the whole fan-out to the providers *)
(* (ProviderFanOut, which implements ProviderGather), per step.  Redis     *)
(* executes a command atomically; a command sent on a context that is      *)
(* already cancelled fails without being sent, one that is sent may be     *)
(* lost, or executed with its reply lost.                                  *)
(***************************************************************************)
EXTENDS FlightCatalog

CONSTANTS
  Requests,         \* the requests that can be in progress together
  Instances,        \* server processes
  InstanceOf,       \* InstanceOf[r]: the instance that serves r
  Searches,         \* the criteria clients ask for
  Flaky,            \* providers that may fail by themselves
  CacheExpiration,  \* FlightCacheExpiration, in ticks
  Faults,           \* what may go wrong
  MaxFaults         \* bound: how many times it may

FaultKinds == {"crash", "cancel", "get", "setnx", "set", "del"}

ASSUME SearchAssumption ==
  /\ InstanceOf \in [Requests -> Instances]
  /\ Searches \subseteq SearchCriteria
  /\ Searches # {}
  /\ Flaky \subseteq Providers
  /\ CacheExpiration \in Nat \ {0}
  /\ Faults \subseteq FaultKinds
  /\ MaxFaults \in Nat

VARIABLES
  pc,         \* pc[r]: the step r is about to take
  criteria,   \* criteria[r]: req of the last search r made
  live,       \* live[r]: has ctx not been cancelled?
  flights,    \* flights[r]: the local list; the response once r has replied
  metadata,   \* metadata[r]: likewise for the metadata
  cacheHit,
  acquired,
  reply,      \* reply[r]: "none", or the outcome "ok", "notFound" or "error"
  lock,            \* lock[k]: time to live of k's lock key, in Redis' encoding
  flightsTTL,      \* flightsTTL[k]: time to live of k's cached flights
  cachedFlights,   \* their value
  metadataTTL,     \* metadataTTL[k]: time to live of k's cached metadata
  cachedMetadata,  \* their value
  faultsLeft

requestVars ==
  <<pc, criteria, live, flights, metadata, cacheHit, acquired, reply>>
cacheVars == <<flightsTTL, cachedFlights, metadataTTL, cachedMetadata>>
vars == <<requestVars, lock, cacheVars, faultsLeft>>

-----------------------------------------------------------------------------
\* Time to live as Redis reports it: no such key, a key that never expires, or
\* the time left.
NoKey == -2
NoExpiry == -1
Expired(ttl) == IF ttl = 1 THEN NoKey ELSE IF ttl > 1 THEN ttl - 1 ELSE ttl

\* SET and SETNX with an expiration of 0 store a key that never expires.
ExpireAfter(expiration) == IF expiration = 0 THEN NoExpiry ELSE expiration

\* NewAggregatorService takes flightLockTimeout and does not store it: the
\* field keeps its zero value.
FlightLockTimeout == 0

Key(r) == GetCacheKey(criteria[r])

\* One more fault of this kind happens.
Fault(kind) ==
  /\ kind \in Faults
  /\ faultsLeft > 0
  /\ faultsLeft' = faultsLeft - 1

Init ==
  /\ pc = [r \in Requests |-> "idle"]
  /\ criteria \in [Requests -> Searches]
  /\ live = [r \in Requests |-> TRUE]
  /\ flights = [r \in Requests |-> {}]
  /\ metadata = [r \in Requests |-> ZeroMetadata]
  /\ cacheHit = [r \in Requests |-> FALSE]
  /\ acquired = [r \in Requests |-> FALSE]
  /\ reply = [r \in Requests |-> "none"]
  /\ lock = [k \in Keys |-> NoKey]
  /\ flightsTTL = [k \in Keys |-> NoKey]
  /\ cachedFlights = [k \in Keys |-> {}]
  /\ metadataTTL = [k \in Keys |-> NoKey]
  /\ cachedMetadata = [k \in Keys |-> ZeroMetadata]
  /\ faultsLeft = MaxFaults

Goto(r, step) == pc' = [pc EXCEPT ![r] = step]

-----------------------------------------------------------------------------
\* A request reaches the service.
Arrive(r) ==
  /\ pc[r] = "idle"
  /\ Goto(r, "getFlight")
  /\ \E req \in Searches : criteria' = [criteria EXCEPT ![r] = req]
  /\ live' = [live EXCEPT ![r] = TRUE]
  /\ flights' = [flights EXCEPT ![r] = {}]
  /\ metadata' = [metadata EXCEPT ![r] = ZeroMetadata]
  /\ cacheHit' = [cacheHit EXCEPT ![r] = FALSE]
  /\ acquired' = [acquired EXCEPT ![r] = FALSE]
  /\ reply' = [reply EXCEPT ![r] = "none"]
  /\ UNCHANGED <<lock, cacheVars, faultsLeft>>

\* flights, err := s.Cache.GetFlight(ctx, cacheKey): any error is a miss.
GetFlight(r) ==
  /\ pc[r] = "getFlight"
  /\ Goto(r, "getMetadata")
  /\ \/ /\ live[r]
        /\ flightsTTL[Key(r)] # NoKey
        /\ flights' = [flights EXCEPT ![r] = cachedFlights[Key(r)]]
        /\ cacheHit' = [cacheHit EXCEPT ![r] = TRUE]
        /\ UNCHANGED faultsLeft
     \/ /\ ~live[r] \/ flightsTTL[Key(r)] = NoKey
        /\ UNCHANGED <<flights, cacheHit, faultsLeft>>
     \/ /\ live[r]
        /\ Fault("get")
        /\ UNCHANGED <<flights, cacheHit>>
  /\ UNCHANGED <<criteria, live, metadata, acquired, reply, lock, cacheVars>>

\* metadata, err = s.Cache.GetMetadata(ctx, cacheKey), hit or miss; an error is
\* logged and leaves the zero Metadata.
GetMetadata(r) ==
  /\ pc[r] = "getMetadata"
  /\ Goto(r, IF cacheHit[r] THEN "process" ELSE "fetch")
  /\ \/ /\ live[r]
        /\ metadataTTL[Key(r)] # NoKey
        /\ metadata' = [metadata EXCEPT ![r] = cachedMetadata[Key(r)]]
        /\ UNCHANGED faultsLeft
     \/ /\ ~live[r] \/ metadataTTL[Key(r)] = NoKey
        /\ UNCHANGED <<metadata, faultsLeft>>
     \/ /\ live[r]
        /\ Fault("get")
        /\ UNCHANGED metadata
  /\ UNCHANGED <<criteria, live, flights, cacheHit, acquired, reply, lock,
                 cacheVars>>

\* getFromProvider returns, whether or not it found a flight.  A provider that
\* is not flaky fails only on a cancelled context.
FetchFiltered(r) ==
  /\ pc[r] = "fetch"
  /\ Goto(r, "lock")
  /\ \E ok \in SUBSET Providers :
       /\ live[r] => Providers \ Flaky \subseteq ok
       /\ flights' = [flights EXCEPT ![r] =
            FilterFlights(Merged(ok, criteria[r]), criteria[r].airline)]
       /\ metadata' = [metadata EXCEPT ![r] = MetadataOf(ok)]
  /\ UNCHANGED <<criteria, live, cacheHit, acquired, reply, lock, cacheVars,
                 faultsLeft>>
FetchCountsOn(r) ==
  /\ pc[r] = "fetch"
  /\ Goto(r, "lock")
  /\ \E ok \in SUBSET Providers :
       /\ live[r] => Providers \ Flaky \subseteq ok
       /\ flights' = [flights EXCEPT ![r] = Merged(ok, criteria[r])]
       /\ metadata' = [metadata EXCEPT ![r] =
            [@ EXCEPT !.ProvidersQueried = Cardinality(Providers),
                      !.ProvidersSucceeded = @ + MetadataOf(ok).ProvidersSucceeded,
                      !.ProvidersFailed = @ + MetadataOf(ok).ProvidersFailed]]
  /\ UNCHANGED <<criteria, live, cacheHit, acquired, lock, cacheVars, reply,
                 faultsLeft>>
Fetch(r) ==
  /\ pc[r] = "fetch"
  /\ Goto(r, "lock")
  /\ \E ok \in SUBSET Providers :
       /\ live[r] => Providers \ Flaky \subseteq ok
       /\ flights' = [flights EXCEPT ![r] = Merged(ok, criteria[r])]
       /\ metadata' = [metadata EXCEPT ![r] = MetadataOf(ok)]
  /\ UNCHANGED <<criteria, live, cacheHit, acquired, reply, lock, cacheVars,
                 faultsLeft>>

\* The search ends with an error at this step; the response is empty.
ReplyError(r) ==
  /\ flights' = [flights EXCEPT ![r] = {}]
  /\ metadata' = [metadata EXCEPT ![r] = ZeroMetadata]
  /\ reply' = [reply EXCEPT ![r] = "error"]

\* The SETNX is executed: the lock key is written unless it exists.
SetNX(k) ==
  lock' = [lock EXCEPT ![k] =
             IF lock[k] = NoKey THEN ExpireAfter(FlightLockTimeout) ELSE @]

\* acquired, err := s.Cache.AcquireLock(ctx, lockKey, s.FlightLockTimeout).
\* The release is deferred only after the error is checked, and for those who
\* did not acquire as well.  The client retries a command whose reply is lost,
\* and the retry of an executed SETNX finds the key it wrote itself.
AcquireLockDetached(r) ==
  /\ pc[r] = "lock"
  /\ SetNX(Key(r))
  /\ acquired' = [acquired EXCEPT ![r] = lock[Key(r)] = NoKey]
  /\ Goto(r, IF lock[Key(r)] = NoKey THEN "setFlights" ELSE "process")
  /\ live' = [live EXCEPT ![r] = TRUE]
  /\ UNCHANGED <<criteria, flights, metadata, cacheHit, reply, cacheVars,
                 faultsLeft>>
AcquireLockBlocking(r) ==
  /\ pc[r] = "lock"
  /\ lock[Key(r)] = NoKey
  /\ SetNX(Key(r))
  /\ acquired' = [acquired EXCEPT ![r] = TRUE]
  /\ Goto(r, "setFlights")
  /\ UNCHANGED <<criteria, live, flights, metadata, cacheHit, reply, cacheVars,
                 faultsLeft>>
AcquireLock(r) ==
  /\ pc[r] = "lock"
  /\ \/ /\ live[r]
        /\ SetNX(Key(r))
        /\ acquired' = [acquired EXCEPT ![r] = lock[Key(r)] = NoKey]
        /\ Goto(r, IF lock[Key(r)] = NoKey THEN "setFlights" ELSE "process")
        /\ UNCHANGED <<flights, metadata, reply, faultsLeft>>
     \/ /\ ~live[r]
        /\ Goto(r, "idle")
        /\ ReplyError(r)
        /\ UNCHANGED <<acquired, lock, faultsLeft>>
     \/ /\ live[r]
        /\ Fault("setnx")
        /\ Goto(r, "idle")
        /\ ReplyError(r)
        /\ SetNX(Key(r)) \/ UNCHANGED lock
        /\ UNCHANGED acquired
     \/ /\ live[r]
        /\ Fault("setnx")
        /\ SetNX(Key(r))
        /\ Goto(r, "process")
        /\ UNCHANGED <<acquired, flights, metadata, reply>>
  /\ UNCHANGED <<criteria, live, cacheHit, cacheVars>>

\* SetFlight, its first SET: the flights.  An error ends the search; the
\* deferred release still runs.
StoreFlights(r) ==
  /\ flightsTTL' = [flightsTTL EXCEPT ![Key(r)] = ExpireAfter(CacheExpiration)]
  /\ cachedFlights' = [cachedFlights EXCEPT ![Key(r)] = flights[r]]

SetFlightsNoRelease(r) ==
  /\ pc[r] = "setFlights"
  /\ \/ /\ live[r]
        /\ StoreFlights(r)
        /\ Goto(r, "setMetadata")
        /\ UNCHANGED <<flights, metadata, reply, faultsLeft>>
     \/ /\ ~live[r]
        /\ Goto(r, "idle")
        /\ ReplyError(r)
        /\ UNCHANGED <<flightsTTL, cachedFlights, faultsLeft>>
     \/ /\ live[r]
        /\ Fault("set")
        /\ Goto(r, "idle")
        /\ ReplyError(r)
        /\ StoreFlights(r) \/ UNCHANGED <<flightsTTL, cachedFlights>>
  /\ UNCHANGED <<criteria, live, cacheHit, acquired, lock, metadataTTL,
                 cachedMetadata>>
SetFlights(r) ==
  /\ pc[r] = "setFlights"
  /\ \/ /\ live[r]
        /\ StoreFlights(r)
        /\ Goto(r, "setMetadata")
        /\ UNCHANGED <<flights, metadata, reply, faultsLeft>>
     \/ /\ ~live[r]
        /\ Goto(r, "release")
        /\ ReplyError(r)
        /\ UNCHANGED <<flightsTTL, cachedFlights, faultsLeft>>
     \/ /\ live[r]
        /\ Fault("set")
        /\ Goto(r, "release")
        /\ ReplyError(r)
        /\ StoreFlights(r) \/ UNCHANGED <<flightsTTL, cachedFlights>>
  /\ UNCHANGED <<criteria, live, cacheHit, acquired, lock, metadataTTL,
                 cachedMetadata>>

\* SetFlight, its second SET: the metadata.
StoreMetadataWithLockTimeout(r) ==
  /\ metadataTTL' =
       [metadataTTL EXCEPT ![Key(r)] = ExpireAfter(FlightLockTimeout)]
  /\ cachedMetadata' = [cachedMetadata EXCEPT ![Key(r)] = metadata[r]]
StoreMetadata(r) ==
  /\ metadataTTL' =
       [metadataTTL EXCEPT ![Key(r)] = ExpireAfter(CacheExpiration)]
  /\ cachedMetadata' = [cachedMetadata EXCEPT ![Key(r)] = metadata[r]]

SetMetadata(r) ==
  /\ pc[r] = "setMetadata"
  /\ \/ /\ live[r]
        /\ StoreMetadata(r)
        /\ Goto(r, "process")
        /\ UNCHANGED <<flights, metadata, reply, faultsLeft>>
     \/ /\ ~live[r]
        /\ Goto(r, "release")
        /\ ReplyError(r)
        /\ UNCHANGED <<metadataTTL, cachedMetadata, faultsLeft>>
     \/ /\ live[r]
        /\ Fault("set")
        /\ Goto(r, "release")
        /\ ReplyError(r)
        /\ StoreMetadata(r) \/ UNCHANGED <<metadataTTL, cachedMetadata>>
  /\ UNCHANGED <<criteria, live, cacheHit, acquired, lock, flightsTTL,
                 cachedFlights>>

\* Filter, rank and sort, then build the response: no flight is an error of its
\* own.  The response is complete before the deferred release runs.
Process(r) ==
  /\ pc[r] = "process"
  /\ Goto(r, IF cacheHit[r] THEN "idle" ELSE "release")
  /\ LET filteredFlights == FilterFlights(flights[r], criteria[r].airline) IN
       /\ flights' = [flights EXCEPT ![r] = filteredFlights]
       /\ reply' = [reply EXCEPT ![r] =
                      IF filteredFlights = {} THEN "notFound" ELSE "ok"]
  /\ UNCHANGED <<criteria, live, metadata, cacheHit, acquired, lock, cacheVars,
                 faultsLeft>>

\* defer s.Cache.ReleaseLock(ctx, lockKey): a DEL, whoever holds the lock, that
\* a cancelled context does not send.  Its error is dropped.
ReleaseLockIfAcquired(r) ==
  /\ pc[r] = "release"
  /\ Goto(r, "idle")
  /\ \/ /\ live[r] /\ acquired[r]
        /\ lock' = [lock EXCEPT ![Key(r)] = NoKey]
        /\ UNCHANGED faultsLeft
     \/ /\ ~live[r] \/ ~acquired[r]
        /\ UNCHANGED <<lock, faultsLeft>>
     \/ /\ live[r]
        /\ Fault("del")
        /\ UNCHANGED lock
  /\ UNCHANGED <<criteria, live, flights, metadata, cacheHit, acquired, reply,
                 cacheVars>>
ReleaseLock(r) ==
  /\ pc[r] = "release"
  /\ Goto(r, "idle")
  /\ \/ /\ live[r]
        /\ lock' = [lock EXCEPT ![Key(r)] = NoKey]
        /\ UNCHANGED faultsLeft
     \/ /\ ~live[r]
        /\ UNCHANGED <<lock, faultsLeft>>
     \/ /\ live[r]
        /\ Fault("del")
        /\ UNCHANGED lock
  /\ UNCHANGED <<criteria, live, flights, metadata, cacheHit, acquired, reply,
                 cacheVars>>

\* The client goes away: net/http cancels the request's context.
Cancel(r) ==
  /\ pc[r] # "idle"
  /\ live[r]
  /\ Fault("cancel")
  /\ live' = [live EXCEPT ![r] = FALSE]
  /\ UNCHANGED <<pc, criteria, flights, metadata, cacheHit, acquired, reply,
                 lock, cacheVars>>

\* A process ends, by a crash or by a shutdown, which does not wait for its
\* requests: they run no deferred call.
Crash(i) ==
  LET lost == {r \in Requests : InstanceOf[r] = i /\ pc[r] # "idle"} IN
  /\ lost # {}
  /\ Fault("crash")
  /\ pc' = [r \in Requests |-> IF r \in lost THEN "idle" ELSE pc[r]]
  /\ flights' = [r \in Requests |-> IF r \in lost THEN {} ELSE flights[r]]
  /\ metadata' =
       [r \in Requests |-> IF r \in lost THEN ZeroMetadata ELSE metadata[r]]
  /\ reply' = [r \in Requests |-> IF r \in lost THEN "none" ELSE reply[r]]
  /\ UNCHANGED <<criteria, live, cacheHit, acquired, lock, cacheVars>>

\* Time passes in Redis.
Tick ==
  /\ \E k \in Keys : lock[k] > 0 \/ flightsTTL[k] > 0 \/ metadataTTL[k] > 0
  /\ lock' = [k \in Keys |-> Expired(lock[k])]
  /\ flightsTTL' = [k \in Keys |-> Expired(flightsTTL[k])]
  /\ cachedFlights' =
       [k \in Keys |-> IF flightsTTL[k] = 1 THEN {} ELSE cachedFlights[k]]
  /\ metadataTTL' = [k \in Keys |-> Expired(metadataTTL[k])]
  /\ cachedMetadata' =
       [k \in Keys |->
          IF metadataTTL[k] = 1 THEN ZeroMetadata ELSE cachedMetadata[k]]
  /\ UNCHANGED <<requestVars, faultsLeft>>

Step(r) ==
  \/ GetFlight(r) \/ GetMetadata(r) \/ Fetch(r) \/ AcquireLock(r)
  \/ SetFlights(r) \/ SetMetadata(r) \/ Process(r) \/ ReleaseLock(r)

Next ==
  \/ \E r \in Requests : Arrive(r) \/ Step(r) \/ Cancel(r)
  \/ \E i \in Instances : Crash(i)
  \/ Tick

Spec == Init /\ [][Next]_vars

\* The runtime runs every handler, Redis answers or fails every command, the
\* fan-out returns (Terminates of ProviderFanOut) and time passes.  Nothing
\* makes a client ask, leave, or a process crash.
StepFair(r) == WF_vars(Step(r))
FairSpec ==
  /\ Spec
  /\ \A r \in Requests : StepFair(r)
  /\ WF_vars(Tick)

-----------------------------------------------------------------------------
Steps == {"idle", "getFlight", "getMetadata", "fetch", "lock", "setFlights",
          "setMetadata", "process", "release"}

LockTTL == {NoKey, NoExpiry} \cup 1..FlightLockTimeout
CacheTTL == {NoKey} \cup 1..CacheExpiration

\* Every variable keeps its type; whatever SetFlight writes expires, each key
\* within CacheExpiration, and no key has a time to live of zero.
TypeOK ==
  /\ pc \in [Requests -> Steps]
  /\ criteria \in [Requests -> Searches]
  /\ live \in [Requests -> BOOLEAN]
  /\ flights \in [Requests -> SUBSET Flight]
  /\ metadata \in [Requests -> Metadata]
  /\ cacheHit \in [Requests -> BOOLEAN]
  /\ acquired \in [Requests -> BOOLEAN]
  /\ reply \in [Requests -> {"none", "ok", "notFound", "error"}]
  /\ lock \in [Keys -> LockTTL]
  /\ flightsTTL \in [Keys -> CacheTTL]
  /\ cachedFlights \in [Keys -> SUBSET Flight]
  /\ metadataTTL \in [Keys -> CacheTTL]
  /\ cachedMetadata \in [Keys -> Metadata]
  /\ faultsLeft \in 0..MaxFaults

\* The list is what some providers, all but flaky ones, answered to req.
Complete(list, req) ==
  \E ok \in SUBSET Providers :
    Providers \ Flaky \subseteq ok /\ list = Merged(ok, req)

\* An answered request got flights for its own criteria: the filtered merge of
\* some providers' answers to that criteria, from the cache or not, whoever
\* filled the cache and with whatever filter. All but flaky providers are among
\* them, so that a search is answered like any other or not at all, and alike
\* from the cache. One that did not come from the cache also reports exactly
\* how many of the providers failed (SearchFlights' response, GetCacheKey).
AnswerFaithful ==
  \A r \in Requests : reply[r] \in {"ok", "notFound"} =>
    \E ok \in SUBSET Providers :
      /\ Providers \ Flaky \subseteq ok
      /\ flights[r] = FilterFlights(Merged(ok, criteria[r]), criteria[r].airline)
      /\ ~cacheHit[r] => metadata[r] = MetadataOf(ok)

\* The counts are those of one search of all providers that only flaky ones failed.
HonestCounts(counts) ==
  \E ok \in SUBSET Providers :
    Providers \ Flaky \subseteq ok /\ counts = MetadataOf(ok)

\* An answered request reports the counts of one whole search of the providers, or
\* none at all if they could not be read back: never a mix of what the cache had
\* left (which is read on a miss too), of two searches, or of one whose client left
\* (GetMetadata before the fan-out, SetFlight's second SET).
MetadataHonest ==
  \A r \in Requests : reply[r] \in {"ok", "notFound"} =>
    \/ HonestCounts(metadata[r])
    \/ cacheHit[r] /\ metadata[r] = ZeroMetadata

\* A list in the cache lacks only what a flaky provider failed to answer: a
\* client that leaves during its fan-out makes the other providers fail, and
\* its truncated list is never published to later requests (the context that
\* getFromProvider, AcquireLock and SetFlight share).
CacheComplete ==
  \A k \in Keys : flightsTTL[k] # NoKey =>
    \E req \in Searches :
      GetCacheKey(req) = k /\ Complete(cachedFlights[k], req)

\* r is between acquiring the lock of key k and its deferred release.
Releasing(r, k) ==
  /\ pc[r] \in {"setFlights", "setMetadata", "process", "release"}
  /\ ~cacheHit[r]
  /\ Key(r) = k

\* While clients stay, processes run, and SETNX and DEL succeed, a lock is held
\* only as long as some request has its release ahead of it, on the error
\* paths of the cache writes too (the defer before SetFlight).
LockNeverLeaks ==
  Faults \cap {"crash", "cancel", "setnx", "del"} = {} =>
    \A k \in Keys : lock[k] # NoKey => \E r \in Requests : Releasing(r, k)

\* No request waits for the lock or for another request: wherever it is it can
\* go on, whoever holds the lock and however long (AcquireLock does not block).
NeverWaits == \A r \in Requests : pc[r] # "idle" => ENABLED <<Step(r)>>_vars

\* Every search ends, in a reply or with its process.
RequestsTerminate == \A r \in Requests : (pc[r] # "idle") ~> (pc[r] = "idle")

\* A key that keeps being asked for is cached again and again, whatever was
\* left behind: the lock has no expiration, so one left by a crash or by a
\* client that went away would disable the cache of its key for good if the
\* next request that misses did not delete it (ReleaseLock by requests that
\* did not acquire).
CacheRefills ==
  \A k \in Keys :
    ([]<>(\E r \in Requests : pc[r] = "getFlight" /\ Key(r) = k))
      => []<>(flightsTTL[k] # NoKey)

\* The lock and the cache implement a read-through cache.
Phase(r) ==
  CASE pc[r] \in {"getFlight", "fetch"} -> "asked"
    [] pc[r] = "getMetadata" -> IF cacheHit[r] THEN "remembered" ELSE "asked"
    [] pc[r] \in {"lock", "setFlights", "setMetadata"} -> "gathered"
    [] pc[r] = "process" -> IF cacheHit[r] THEN "remembered" ELSE "gathered"
    [] OTHER -> "idle"

ReadThrough == INSTANCE ReadThroughCache WITH
  phase <- [r \in Requests |-> Phase(r)],
  answer <- flights,
  memo <- [k \in {k \in Keys : flightsTTL[k] # NoKey} |-> cachedFlights[k]]

\* SearchFlights answers and remembers as ReadThroughCache says: answers come
\* from the key's memo or from the request's own fan-out, and only a request
\* that gathered writes the memo, with its whole unfiltered list.
ImplementsReadThrough == ReadThrough!Spec

-----------------------------------------------------------------------------
(* What the documents say of the program and the program does not do.      *)

\* At most one request saves to the cache of a key ("this ensure only 1
\* operation that fetch from provider and save to cache", SearchFlights).
SingleSaver ==
  \A r1, r2 \in Requests :
    /\ pc[r1] \in {"setFlights", "setMetadata"}
    /\ pc[r2] \in {"setFlights", "setMetadata"}
    /\ Key(r1) = Key(r2)
    => r1 = r2

\* A lock key goes away, at the latest when its three seconds are over ("SET NX
\* EX 3", README).
LockExpires == \A k \in Keys : (lock[k] # NoKey) ~> (lock[k] = NoKey)

\* A successful response says how many providers its flights come from, cached
\* or not ("Metadata tracking (cache hits, provider success/failure counts)",
\* README).
MetadataTracked ==
  \A r \in Requests : reply[r] = "ok" =>
    metadata[r].ProvidersQueried = Cardinality(Providers)
=============================================================================
