------------------------ MODULE SearchFlightsProofs ------------------------
(***************************************************************************)
(* Theorems about SearchFlights for every set of requests, instances,      *)
(* providers, searches and faults, checked by TLAPS.                       *)
(***************************************************************************)
EXTENDS SearchFlights, FiniteSetTheorems, TLAPS

-----------------------------------------------------------------------------
(* The data                                                                *)

LEMMA KeyType == \A req \in SearchCriteria : GetCacheKey(req) \in Keys
BY DEF SearchCriteria, GetCacheKey, Keys

LEMMA MergedType ==
  \A ok \in SUBSET Providers : \A req : Merged(ok, req) \in SUBSET Flight
BY CatalogAssumption DEF Merged, SearchResult

LEMMA FilterType ==
  \A list \in SUBSET Flight : \A airline :
    FilterFlights(list, airline) \in SUBSET Flight
BY DEF FilterFlights

LEMMA MetadataType ==
  /\ ZeroMetadata \in Metadata
  /\ \A ok \in SUBSET Providers : MetadataOf(ok) \in Metadata
<1>1. ZeroMetadata \in Metadata
  BY DEF ZeroMetadata, Metadata
<1>2. ASSUME NEW ok \in SUBSET Providers
      PROVE  MetadataOf(ok) \in Metadata
  <2>1. IsFiniteSet(Providers) /\ (Providers \ ok) \subseteq Providers
    BY CatalogAssumption
  <2>2. /\ Cardinality(Providers) \in Nat
        /\ Cardinality(Providers \ ok) \in Nat
        /\ Cardinality(Providers \ ok) <= Cardinality(Providers)
    BY <2>1, FS_Subset, FS_CardinalityType
  <2>3. Cardinality(Providers) - Cardinality(Providers \ ok) \in Nat
    BY <2>2
  <2> QED
    BY <2>2, <2>3 DEF MetadataOf, Metadata
<1> QED
  BY <1>1, <1>2

LEMMA RequestKeyType == TypeOK => \A r \in Requests : Key(r) \in Keys
BY KeyType, SearchAssumption DEF TypeOK, Key

-----------------------------------------------------------------------------
(* Type correctness                                                        *)

LEMMA TypeInit == Init => TypeOK
<1> SUFFICES ASSUME Init PROVE TypeOK
  OBVIOUS
<1> QED
  BY MetadataType, SearchAssumption
  DEF Init, TypeOK, Steps, LockTTL, CacheTTL

\* A fault leaves the budget a number below the one before.
LEMMA FaultType ==
  ASSUME faultsLeft \in 0..MaxFaults, NEW kind, Fault(kind)
  PROVE  faultsLeft' \in 0..MaxFaults
BY SearchAssumption DEF Fault

LEMMA ExpirationType ==
  /\ ExpireAfter(FlightLockTimeout) \in LockTTL
  /\ ExpireAfter(CacheExpiration) \in CacheTTL
  /\ \A ttl \in CacheTTL : Expired(ttl) \in CacheTTL
  /\ \A ttl \in LockTTL : Expired(ttl) \in LockTTL
BY SearchAssumption
DEF ExpireAfter, FlightLockTimeout, LockTTL, CacheTTL, Expired, NoKey, NoExpiry

LEMMA TypeNext == TypeOK /\ [Next]_vars => TypeOK'
<1> SUFFICES ASSUME TypeOK, [Next]_vars PROVE TypeOK'
  OBVIOUS
<1>k. \A r \in Requests : Key(r) \in Keys
  BY RequestKeyType
<1>1. ASSUME NEW r \in Requests, Arrive(r) PROVE TypeOK'
  BY <1>1, MetadataType
  DEF Arrive, Goto, TypeOK, Steps, cacheVars
<1>2. ASSUME NEW r \in Requests, GetFlight(r) PROVE TypeOK'
  <2>1. faultsLeft' \in 0..MaxFaults
    BY <1>2, FaultType DEF GetFlight, TypeOK
  <2> QED
    BY <1>2, <1>k, <2>1 DEF GetFlight, Goto, TypeOK, Steps, cacheVars
<1>3. ASSUME NEW r \in Requests, GetMetadata(r) PROVE TypeOK'
  <2>1. faultsLeft' \in 0..MaxFaults
    BY <1>3, FaultType DEF GetMetadata, TypeOK
  <2> QED
    BY <1>3, <1>k, <2>1 DEF GetMetadata, Goto, TypeOK, Steps, cacheVars
<1>4. ASSUME NEW r \in Requests, Fetch(r) PROVE TypeOK'
  BY <1>4, MergedType, MetadataType DEF Fetch, Goto, TypeOK, Steps, cacheVars
<1>5. ASSUME NEW r \in Requests, AcquireLock(r) PROVE TypeOK'
  <2>1. faultsLeft' \in 0..MaxFaults
    BY <1>5, FaultType DEF AcquireLock, TypeOK
  <2>2. lock' \in [Keys -> LockTTL]
    BY <1>5, <1>k, ExpirationType DEF AcquireLock, SetNX, TypeOK
  <2>3. /\ pc' \in [Requests -> Steps]
        /\ acquired' \in [Requests -> BOOLEAN]
    BY <1>5 DEF AcquireLock, Goto, TypeOK, Steps
  <2> QED
    BY <1>5, <2>1, <2>2, <2>3, MetadataType
    DEF AcquireLock, ReplyError, TypeOK, cacheVars
<1>6. ASSUME NEW r \in Requests, SetFlights(r) PROVE TypeOK'
  <2>1. faultsLeft' \in 0..MaxFaults
    BY <1>6, FaultType DEF SetFlights, TypeOK
  <2>2. /\ flightsTTL' \in [Keys -> CacheTTL]
        /\ cachedFlights' \in [Keys -> SUBSET Flight]
    BY <1>6, <1>k, ExpirationType DEF SetFlights, StoreFlights, TypeOK
  <2> QED
    BY <1>6, <2>1, <2>2, MetadataType
    DEF SetFlights, Goto, ReplyError, TypeOK, Steps
<1>7. ASSUME NEW r \in Requests, SetMetadata(r) PROVE TypeOK'
  <2>1. faultsLeft' \in 0..MaxFaults
    BY <1>7, FaultType DEF SetMetadata, TypeOK
  <2>2. /\ metadataTTL' \in [Keys -> CacheTTL]
        /\ cachedMetadata' \in [Keys -> Metadata]
    BY <1>7, <1>k, ExpirationType DEF SetMetadata, StoreMetadata, TypeOK
  <2> QED
    BY <1>7, <2>1, <2>2, MetadataType
    DEF SetMetadata, Goto, ReplyError, TypeOK, Steps
<1>8. ASSUME NEW r \in Requests, Process(r) PROVE TypeOK'
  BY <1>8, FilterType DEF Process, Goto, TypeOK, Steps, cacheVars
<1>9. ASSUME NEW r \in Requests, ReleaseLock(r) PROVE TypeOK'
  <2>1. faultsLeft' \in 0..MaxFaults
    BY <1>9, FaultType DEF ReleaseLock, TypeOK
  <2> QED
    BY <1>9, <1>k, <2>1
    DEF ReleaseLock, Goto, TypeOK, Steps, LockTTL, cacheVars
<1>10. ASSUME NEW r \in Requests, Cancel(r) PROVE TypeOK'
  <2>1. faultsLeft' \in 0..MaxFaults
    BY <1>10, FaultType DEF Cancel, TypeOK
  <2> QED
    BY <1>10, <2>1 DEF Cancel, TypeOK, cacheVars
<1>11. ASSUME NEW i \in Instances, Crash(i) PROVE TypeOK'
  <2>1. faultsLeft' \in 0..MaxFaults
    BY <1>11, FaultType DEF Crash, TypeOK
  <2> QED
    BY <1>11, <2>1, MetadataType DEF Crash, TypeOK, Steps, cacheVars
<1>12. CASE Tick
  BY <1>12, ExpirationType, MetadataType DEF Tick, TypeOK, requestVars
<1>13. CASE UNCHANGED vars
  BY <1>13 DEF vars, requestVars, cacheVars, TypeOK
<1> QED
  BY <1>1, <1>2, <1>3, <1>4, <1>5, <1>6, <1>7, <1>8, <1>9, <1>10, <1>11,
     <1>12, <1>13
  DEF Next, Step

\* Every reachable state is well typed, whatever the instance: in particular both
\* keys SetFlight writes expire within CacheExpiration.
THEOREM TypeCorrect == Spec => []TypeOK
BY TypeInit, TypeNext, PTL DEF Spec

-----------------------------------------------------------------------------
(* The lock is released on every path                                      *)

\* The faults under which a lock may be left behind do not happen.
LockSafe == Faults \cap {"crash", "cancel", "setnx", "del"} = {}

\* A request that is past the cache lookups on the miss path is not a hit.
MissPath ==
  \A r \in Requests :
    pc[r] \in {"fetch", "lock", "setFlights", "setMetadata", "release"}
      => ~cacheHit[r]

LockHeld == \A k \in Keys : lock[k] # NoKey => \E r \in Requests : Releasing(r, k)

\* LockNeverLeaks is not inductive by itself: a request that acquires must be
\* known to be a miss, and no context to be cancelled.
LockInv ==
  /\ TypeOK
  /\ MissPath
  /\ \A r \in Requests : live[r]
  /\ LockHeld

LEMMA LockInit == Init => LockInv
<1> SUFFICES ASSUME Init PROVE LockInv
  OBVIOUS
<1> QED
  BY TypeInit DEF Init, LockInv, MissPath, LockHeld

\* A step that writes no lock keeps LockHeld if the requests about to release
\* stay about to release.
LEMMA HeldUnchanged ==
  ASSUME LockHeld, UNCHANGED lock,
         \A r \in Requests : \A k \in Keys : Releasing(r, k) => Releasing(r, k)'
  PROVE  LockHeld'
BY DEF LockHeld

LEMMA LockNext == LockSafe /\ LockInv /\ [Next]_vars => LockInv'
<1> SUFFICES ASSUME LockSafe, LockInv, [Next]_vars PROVE LockInv'
  OBVIOUS
<1> USE DEF LockInv
<1>t. TypeOK'
  BY TypeNext
<1>k. \A r \in Requests : Key(r) \in Keys
  BY RequestKeyType
<1>f. /\ ~Fault("crash") /\ ~Fault("cancel")
      /\ ~Fault("setnx") /\ ~Fault("del")
  BY DEF LockSafe, Fault
<1>1. ASSUME NEW r \in Requests, Arrive(r) PROVE LockInv'
  <2>1. \A s \in Requests : \A k \in Keys :
          Releasing(s, k) => Releasing(s, k)'
    BY <1>1 DEF Arrive, Goto, Releasing, Key, TypeOK
  <2> QED
    BY <1>1, <1>t, <2>1, HeldUnchanged DEF Arrive, Goto, MissPath, TypeOK
<1>2. ASSUME NEW r \in Requests, GetFlight(r) PROVE LockInv'
  <2>1. \A s \in Requests : \A k \in Keys :
          Releasing(s, k) => Releasing(s, k)'
    BY <1>2 DEF GetFlight, Goto, Releasing, Key, TypeOK
  <2> QED
    BY <1>2, <1>t, <2>1, HeldUnchanged DEF GetFlight, Goto, MissPath, TypeOK
<1>3. ASSUME NEW r \in Requests, GetMetadata(r) PROVE LockInv'
  <2>1. \A s \in Requests : \A k \in Keys :
          Releasing(s, k) => Releasing(s, k)'
    BY <1>3 DEF GetMetadata, Goto, Releasing, Key, TypeOK
  <2> QED
    BY <1>3, <1>t, <2>1, HeldUnchanged DEF GetMetadata, Goto, MissPath, TypeOK
<1>4. ASSUME NEW r \in Requests, Fetch(r) PROVE LockInv'
  <2>1. \A s \in Requests : \A k \in Keys :
          Releasing(s, k) => Releasing(s, k)'
    BY <1>4 DEF Fetch, Goto, Releasing, Key, TypeOK
  <2> QED
    BY <1>4, <1>t, <2>1, HeldUnchanged DEF Fetch, Goto, MissPath, TypeOK
<1>5. ASSUME NEW r \in Requests, AcquireLock(r) PROVE LockInv'
  <2>1. /\ pc[r] = "lock"
        /\ SetNX(Key(r))
        /\ pc' = [pc EXCEPT ![r] =
                    IF lock[Key(r)] = NoKey THEN "setFlights" ELSE "process"]
        /\ UNCHANGED <<criteria, live, cacheHit>>
    BY <1>5, <1>f DEF AcquireLock, Goto
  <2>2. \A s \in Requests : \A k \in Keys :
          Releasing(s, k) => Releasing(s, k)'
    BY <2>1 DEF Releasing, Key, TypeOK
  <2>3. \A k \in Keys : k = Key(r) => Releasing(r, k)'
    BY <2>1 DEF Releasing, Key, TypeOK, MissPath
  <2>4. \A k \in Keys : k # Key(r) => lock'[k] = lock[k]
    BY <2>1, <1>k DEF SetNX, TypeOK
  <2>5. LockHeld'
    BY <2>2, <2>3, <2>4 DEF LockHeld
  <2> QED
    BY <1>t, <2>1, <2>5 DEF MissPath, TypeOK
<1>6. ASSUME NEW r \in Requests, SetFlights(r) PROVE LockInv'
  <2>1. \A s \in Requests : \A k \in Keys :
          Releasing(s, k) => Releasing(s, k)'
    BY <1>6 DEF SetFlights, Goto, Releasing, Key, TypeOK
  <2> QED
    BY <1>6, <1>t, <2>1, HeldUnchanged DEF SetFlights, Goto, MissPath, TypeOK
<1>7. ASSUME NEW r \in Requests, SetMetadata(r) PROVE LockInv'
  <2>1. \A s \in Requests : \A k \in Keys :
          Releasing(s, k) => Releasing(s, k)'
    BY <1>7 DEF SetMetadata, Goto, Releasing, Key, TypeOK
  <2> QED
    BY <1>7, <1>t, <2>1, HeldUnchanged DEF SetMetadata, Goto, MissPath, TypeOK
<1>8. ASSUME NEW r \in Requests, Process(r) PROVE LockInv'
  <2>1. \A s \in Requests : \A k \in Keys :
          Releasing(s, k) => Releasing(s, k)'
    BY <1>8 DEF Process, Goto, Releasing, Key, TypeOK
  <2> QED
    BY <1>8, <1>t, <2>1, HeldUnchanged DEF Process, Goto, MissPath, TypeOK
<1>9. ASSUME NEW r \in Requests, ReleaseLock(r) PROVE LockInv'
  <2>1. /\ pc[r] = "release"
        /\ pc' = [pc EXCEPT ![r] = "idle"]
        /\ lock' = [lock EXCEPT ![Key(r)] = NoKey]
        /\ UNCHANGED <<criteria, live, cacheHit>>
    BY <1>9, <1>f DEF ReleaseLock, Goto
  <2>2. lock'[Key(r)] = NoKey
    BY <2>1, <1>k DEF TypeOK
  <2>3. ASSUME NEW k \in Keys, lock'[k] # NoKey
        PROVE  \E s \in Requests : Releasing(s, k)'
    <3>1. k # Key(r) /\ lock[k] # NoKey
      BY <2>1, <2>2, <2>3, <1>k DEF TypeOK
    <3>2. PICK s \in Requests : Releasing(s, k)
      BY <3>1 DEF LockHeld
    <3>3. s # r
      BY <3>1, <3>2 DEF Releasing
    <3>4. Releasing(s, k)'
      BY <2>1, <3>2, <3>3 DEF Releasing, Key, TypeOK
    <3> QED
      BY <3>4
  <2> QED
    BY <1>t, <2>1, <2>3 DEF LockHeld, MissPath, TypeOK
<1>10. ASSUME NEW r \in Requests, Cancel(r) PROVE LockInv'
  BY <1>10, <1>f DEF Cancel
<1>11. ASSUME NEW i \in Instances, Crash(i) PROVE LockInv'
  BY <1>11, <1>f DEF Crash
<1>12. CASE Tick
  <2>1. \A k \in Keys : lock'[k] # NoKey => lock[k] # NoKey
    BY <1>12 DEF Tick, Expired, TypeOK, LockTTL, NoKey
  <2>2. UNCHANGED requestVars
    BY <1>12 DEF Tick
  <2>3. \A s \in Requests : \A k \in Keys :
          Releasing(s, k) => Releasing(s, k)'
    BY <2>2 DEF requestVars, Releasing, Key
  <2> QED
    BY <1>t, <2>1, <2>2, <2>3 DEF LockHeld, MissPath, requestVars
<1>13. CASE UNCHANGED vars
  BY <1>13, <1>t
  DEF vars, requestVars, MissPath, LockHeld, Releasing, Key
<1> QED
  BY <1>1, <1>2, <1>3, <1>4, <1>5, <1>6, <1>7, <1>8, <1>9, <1>10, <1>11,
     <1>12, <1>13
  DEF Next, Step

\* For any number of requests, keys and lookup or cache-write failures: as long
\* as nothing keeps a request's own SETNX and DEL from being answered, a held
\* lock always has a request that is going to release it (SearchFlights' defer).
THEOREM LockReleased == Spec => []LockNeverLeaks
<1>1. Init => (LockSafe => LockInv)
  BY LockInit
<1>2. (LockSafe => LockInv) /\ [Next]_vars => (LockSafe => LockInv)'
  <2>1. ASSUME ~LockSafe PROVE ~LockSafe'
    BY <2>1 DEF LockSafe
  <2> QED
    BY <2>1, LockNext
<1>3. (LockSafe => LockInv) => LockNeverLeaks
  BY DEF LockSafe, LockInv, LockHeld, LockNeverLeaks
<1> QED
  BY <1>1, <1>2, <1>3, PTL DEF Spec

-----------------------------------------------------------------------------
(* What requests answer and what the cache holds                           *)

\* The criteria of two searches that share a key have the same answers.
LEMMA KeyDeterminesAnswer ==
  ASSUME NEW a \in SearchCriteria, NEW b \in SearchCriteria,
         GetCacheKey(a) = GetCacheKey(b), NEW ok
  PROVE  Merged(ok, a) = Merged(ok, b)
<1>1. a.trip = b.trip /\ a.cabin = b.cabin
  BY DEF GetCacheKey
<1>2. \A p : SearchResult(p, a) = SearchResult(p, b)
  BY <1>1 DEF SearchResult
<1> QED
  BY <1>2 DEF Merged

\* r holds what its own fan-out returned, of all but flaky providers unless its
\* client left: then it will not get past the lock.
HoldsGathered(r) ==
  /\ ~cacheHit[r]
  /\ \E ok \in SUBSET Providers :
       /\ flights[r] = Merged(ok, criteria[r])
       /\ metadata[r] = MetadataOf(ok)
       /\ live[r] \/ pc[r] # "lock" => Providers \ Flaky \subseteq ok

\* r holds what the cache had.
HoldsRemembered(r) ==
  /\ cacheHit[r]
  /\ Complete(flights[r], criteria[r])

\* r has replied with flights.
HoldsAnswer(r) ==
  reply[r] \in {"ok", "notFound"} =>
    \E ok \in SUBSET Providers :
      /\ Providers \ Flaky \subseteq ok
      /\ flights[r] = FilterFlights(Merged(ok, criteria[r]), criteria[r].airline)
      /\ ~cacheHit[r] => metadata[r] = MetadataOf(ok)

\* What is known of a request at each of its steps.
RequestOK(r) ==
  /\ pc[r] \in {"idle", "release"} => HoldsAnswer(r)
  /\ pc[r] \notin {"idle", "release"} => reply[r] = "none"
  /\ pc[r] = "getFlight" => ~cacheHit[r]
  /\ pc[r] = "getMetadata" => ~cacheHit[r] \/ HoldsRemembered(r)
  /\ pc[r] = "fetch" => ~cacheHit[r]
  /\ pc[r] \in {"lock", "setFlights", "setMetadata"} => HoldsGathered(r)
  /\ pc[r] = "process" => HoldsGathered(r) \/ HoldsRemembered(r)
  /\ pc[r] = "release" => ~cacheHit[r]

SearchInv == TypeOK /\ CacheComplete /\ \A r \in Requests : RequestOK(r)

LEMMA SearchInit == Init => SearchInv
<1> SUFFICES ASSUME Init PROVE SearchInv
  OBVIOUS
<1> QED
  BY TypeInit DEF Init, SearchInv, CacheComplete, RequestOK, HoldsAnswer

\* The part of the state that belongs to request s.
Unmoved(s) ==
  /\ pc'[s] = pc[s] /\ criteria'[s] = criteria[s] /\ live'[s] = live[s]
  /\ flights'[s] = flights[s] /\ metadata'[s] = metadata[s]
  /\ cacheHit'[s] = cacheHit[s] /\ reply'[s] = reply[s]

LEMMA UnmovedOK ==
  ASSUME NEW s \in Requests, RequestOK(s), Unmoved(s)
  PROVE  RequestOK(s)'
BY DEF Unmoved, RequestOK, HoldsAnswer, HoldsGathered, HoldsRemembered, Complete

LEMMA CacheUnchanged ==
  ASSUME CacheComplete, UNCHANGED <<flightsTTL, cachedFlights>>
  PROVE  CacheComplete'
BY DEF CacheComplete, Complete

\* A step of request r keeps the invariant if it moves no other request.
LEMMA OneRequest ==
  ASSUME SearchInv, TypeOK', CacheComplete', NEW r \in Requests, RequestOK(r)',
         \A s \in Requests : s # r => Unmoved(s)
  PROVE  SearchInv'
BY UnmovedOK DEF SearchInv

LEMMA CriteriaType == TypeOK => \A r \in Requests : criteria[r] \in SearchCriteria
BY SearchAssumption DEF TypeOK

\* What the cache has for r's key is an answer to r's criteria.
LEMMA CachedAnswer ==
  ASSUME TypeOK, CacheComplete, NEW r \in Requests, flightsTTL[Key(r)] # NoKey
  PROVE  Complete(cachedFlights[Key(r)], criteria[r])
<1>1. criteria[r] \in SearchCriteria /\ Key(r) \in Keys
  BY CriteriaType, RequestKeyType
<1>2. PICK req \in Searches :
        GetCacheKey(req) = Key(r) /\ Complete(cachedFlights[Key(r)], req)
  BY <1>1 DEF CacheComplete
<1>3. PICK ok \in SUBSET Providers :
        Providers \ Flaky \subseteq ok /\ cachedFlights[Key(r)] = Merged(ok, req)
  BY <1>2 DEF Complete
<1>4. Merged(ok, req) = Merged(ok, criteria[r])
  BY <1>1, <1>2, SearchAssumption, KeyDeterminesAnswer DEF Key
<1> QED
  BY <1>3, <1>4 DEF Complete

\* Writing r's complete list under r's key keeps the cache right.
LEMMA StoreOK ==
  ASSUME TypeOK, CacheComplete, NEW r \in Requests, StoreFlights(r),
         Complete(flights[r], criteria[r])
  PROVE  CacheComplete'
<1>1. criteria[r] \in Searches /\ Key(r) \in Keys
  BY RequestKeyType DEF TypeOK
<1>2. ASSUME NEW k \in Keys, flightsTTL'[k] # NoKey
      PROVE  \E req \in Searches :
               GetCacheKey(req) = k /\ Complete(cachedFlights'[k], req)
  <2>1. CASE k = Key(r)
    BY <1>1, <2>1 DEF StoreFlights, TypeOK, Key
  <2>2. CASE k # Key(r)
    BY <1>2, <2>2 DEF StoreFlights, TypeOK, CacheComplete
  <2> QED
    BY <2>1, <2>2
<1> QED
  BY <1>2 DEF CacheComplete, Complete

LEMMA SearchNext == SearchInv /\ [Next]_vars => SearchInv'
<1> SUFFICES ASSUME SearchInv, [Next]_vars PROVE SearchInv'
  OBVIOUS
<1>t. TypeOK /\ TypeOK' /\ CacheComplete
  BY TypeNext DEF SearchInv
<1>r. \A r \in Requests : RequestOK(r)
  BY DEF SearchInv
<1>c. \A r \in Requests : criteria[r] \in SearchCriteria /\ Key(r) \in Keys
  BY <1>t, CriteriaType, RequestKeyType
<1>1. ASSUME NEW r \in Requests, Arrive(r) PROVE SearchInv'
  <2>1. \A s \in Requests : s # r => Unmoved(s)
    BY <1>1, <1>t DEF Arrive, Goto, Unmoved, TypeOK
  <2>2. RequestOK(r)'
    BY <1>1, <1>t DEF Arrive, Goto, RequestOK, TypeOK
  <2>3. CacheComplete'
    BY <1>1, <1>t, CacheUnchanged DEF Arrive, cacheVars
  <2> QED
    BY <1>t, <2>1, <2>2, <2>3, OneRequest
<1>2. ASSUME NEW r \in Requests, GetFlight(r) PROVE SearchInv'
  <2>1. \A s \in Requests : s # r => Unmoved(s)
    BY <1>2, <1>t DEF GetFlight, Goto, Unmoved, TypeOK
  <2>2. /\ pc'[r] = "getMetadata" /\ reply'[r] = "none"
        /\ criteria'[r] = criteria[r]
    BY <1>2, <1>t, <1>r DEF GetFlight, Goto, RequestOK, TypeOK
  <2>3. ASSUME flights' = flights /\ cacheHit' = cacheHit
      PROVE  RequestOK(r)'
    BY <1>2, <1>r, <2>2, <2>3 DEF GetFlight, RequestOK
  <2>4. ASSUME /\ flightsTTL[Key(r)] # NoKey
               /\ flights' = [flights EXCEPT ![r] = cachedFlights[Key(r)]]
               /\ cacheHit' = [cacheHit EXCEPT ![r] = TRUE]
      PROVE  RequestOK(r)'
    <3>1. HoldsRemembered(r)'
      BY <1>t, <2>2, <2>4, CachedAnswer DEF HoldsRemembered, Complete, TypeOK
    <3> QED
      BY <2>2, <3>1 DEF RequestOK
  <2>5. RequestOK(r)'
    BY <1>2, <2>3, <2>4 DEF GetFlight
  <2>6. CacheComplete'
    BY <1>2, <1>t, CacheUnchanged DEF GetFlight, cacheVars
  <2> QED
    BY <1>t, <2>1, <2>5, <2>6, OneRequest
<1>3. ASSUME NEW r \in Requests, GetMetadata(r) PROVE SearchInv'
  <2>1. \A s \in Requests : s # r => Unmoved(s)
    BY <1>3, <1>t DEF GetMetadata, Goto, Unmoved, TypeOK
  <2>2. RequestOK(r)'
    BY <1>3, <1>t, <1>r
    DEF GetMetadata, Goto, RequestOK, HoldsRemembered, Complete, TypeOK
  <2>3. CacheComplete'
    BY <1>3, <1>t, CacheUnchanged DEF GetMetadata, cacheVars
  <2> QED
    BY <1>t, <2>1, <2>2, <2>3, OneRequest
<1>4. ASSUME NEW r \in Requests, Fetch(r) PROVE SearchInv'
  <2>1. \A s \in Requests : s # r => Unmoved(s)
    BY <1>4, <1>t DEF Fetch, Goto, Unmoved, TypeOK
  <2>2. PICK ok \in SUBSET Providers :
          /\ live[r] => Providers \ Flaky \subseteq ok
          /\ flights' = [flights EXCEPT ![r] = Merged(ok, criteria[r])]
          /\ metadata' = [metadata EXCEPT ![r] = MetadataOf(ok)]
    BY <1>4 DEF Fetch
  <2>3. /\ pc'[r] = "lock" /\ reply'[r] = "none" /\ ~cacheHit'[r]
        /\ criteria'[r] = criteria[r] /\ live'[r] = live[r]
    BY <1>4, <1>t, <1>r DEF Fetch, Goto, RequestOK, TypeOK
  <2>4. HoldsGathered(r)'
    BY <1>t, <2>2, <2>3 DEF HoldsGathered, TypeOK
  <2>5. RequestOK(r)'
    BY <2>3, <2>4 DEF RequestOK
  <2>6. CacheComplete'
    BY <1>4, <1>t, CacheUnchanged DEF Fetch, cacheVars
  <2> QED
    BY <1>t, <2>1, <2>5, <2>6, OneRequest
<1>5. ASSUME NEW r \in Requests, AcquireLock(r) PROVE SearchInv'
  <2>1. \A s \in Requests : s # r => Unmoved(s)
    BY <1>5, <1>t DEF AcquireLock, ReplyError, Goto, Unmoved, TypeOK
  <2>2. pc[r] = "lock" /\ reply[r] = "none" /\ HoldsGathered(r)
    BY <1>5, <1>r DEF AcquireLock, RequestOK
  <2>3. ASSUME /\ pc'[r] \in {"setFlights", "process"} /\ live[r]
               /\ UNCHANGED <<flights, metadata, reply, criteria, live, cacheHit>>
      PROVE  RequestOK(r)'
    BY <2>2, <2>3 DEF RequestOK, HoldsGathered
  <2>4. ASSUME pc'[r] = "idle" /\ reply'[r] = "error"
      PROVE  RequestOK(r)'
    BY <2>4 DEF RequestOK, HoldsAnswer
  <2>5. RequestOK(r)'
    BY <1>5, <1>t, <2>3, <2>4 DEF AcquireLock, ReplyError, Goto, TypeOK
  <2>6. CacheComplete'
    BY <1>5, <1>t, CacheUnchanged DEF AcquireLock, cacheVars
  <2> QED
    BY <1>t, <2>1, <2>5, <2>6, OneRequest
<1>6. ASSUME NEW r \in Requests, SetFlights(r) PROVE SearchInv'
  <2>1. \A s \in Requests : s # r => Unmoved(s)
    BY <1>6, <1>t DEF SetFlights, ReplyError, Goto, Unmoved, TypeOK
  <2>2. pc[r] = "setFlights" /\ reply[r] = "none" /\ HoldsGathered(r)
    BY <1>6, <1>r DEF SetFlights, RequestOK
  <2>3. ASSUME /\ pc'[r] = "setMetadata"
               /\ UNCHANGED <<flights, metadata, reply, criteria, live, cacheHit>>
      PROVE  RequestOK(r)'
    BY <2>2, <2>3 DEF RequestOK, HoldsGathered
  <2>4. ASSUME /\ pc'[r] = "release" /\ reply'[r] = "error"
               /\ UNCHANGED cacheHit
      PROVE  RequestOK(r)'
    BY <2>2, <2>4 DEF RequestOK, HoldsAnswer, HoldsGathered
  <2>5. RequestOK(r)'
    BY <1>6, <1>t, <2>3, <2>4 DEF SetFlights, ReplyError, Goto, TypeOK
  <2>6. ASSUME live[r] /\ StoreFlights(r)
      PROVE  CacheComplete'
    BY <1>t, <2>2, <2>6, StoreOK DEF HoldsGathered, Complete
  <2>7. ASSUME UNCHANGED <<flightsTTL, cachedFlights>>
      PROVE  CacheComplete'
    BY <1>t, <2>7, CacheUnchanged
  <2>8. CacheComplete'
    BY <1>6, <2>6, <2>7 DEF SetFlights
  <2> QED
    BY <1>t, <2>1, <2>5, <2>8, OneRequest
<1>7. ASSUME NEW r \in Requests, SetMetadata(r) PROVE SearchInv'
  <2>1. \A s \in Requests : s # r => Unmoved(s)
    BY <1>7, <1>t DEF SetMetadata, ReplyError, Goto, Unmoved, TypeOK
  <2>2. pc[r] = "setMetadata" /\ reply[r] = "none" /\ HoldsGathered(r)
    BY <1>7, <1>r DEF SetMetadata, RequestOK
  <2>3. ASSUME /\ pc'[r] = "process"
               /\ UNCHANGED <<flights, metadata, reply, criteria, live, cacheHit>>
      PROVE  RequestOK(r)'
    BY <2>2, <2>3 DEF RequestOK, HoldsGathered
  <2>4. ASSUME /\ pc'[r] = "release" /\ reply'[r] = "error"
               /\ UNCHANGED cacheHit
      PROVE  RequestOK(r)'
    BY <2>2, <2>4 DEF RequestOK, HoldsAnswer, HoldsGathered
  <2>5. RequestOK(r)'
    BY <1>7, <1>t, <2>3, <2>4 DEF SetMetadata, ReplyError, Goto, TypeOK
  <2>6. CacheComplete'
    BY <1>7, <1>t, CacheUnchanged DEF SetMetadata
  <2> QED
    BY <1>t, <2>1, <2>5, <2>6, OneRequest
<1>8. ASSUME NEW r \in Requests, Process(r) PROVE SearchInv'
  <2>1. \A s \in Requests : s # r => Unmoved(s)
    BY <1>8, <1>t DEF Process, Goto, Unmoved, TypeOK
  <2>2. PICK ok \in SUBSET Providers :
          /\ Providers \ Flaky \subseteq ok
          /\ flights[r] = Merged(ok, criteria[r])
          /\ ~cacheHit[r] => metadata[r] = MetadataOf(ok)
    BY <1>8, <1>r DEF Process, RequestOK, HoldsGathered, HoldsRemembered, Complete
  <2>3. /\ pc'[r] = IF cacheHit[r] THEN "idle" ELSE "release"
        /\ flights'[r] = FilterFlights(Merged(ok, criteria[r]),
                                       criteria[r].airline)
        /\ UNCHANGED <<criteria, metadata, cacheHit>>
    BY <1>8, <1>t, <2>2 DEF Process, Goto, TypeOK
  <2>4. RequestOK(r)'
    BY <2>2, <2>3 DEF RequestOK, HoldsAnswer
  <2>5. CacheComplete'
    BY <1>8, <1>t, CacheUnchanged DEF Process, cacheVars
  <2> QED
    BY <1>t, <2>1, <2>4, <2>5, OneRequest
<1>9. ASSUME NEW r \in Requests, ReleaseLock(r) PROVE SearchInv'
  <2>1. \A s \in Requests : s # r => Unmoved(s)
    BY <1>9, <1>t DEF ReleaseLock, Goto, Unmoved, TypeOK
  <2>2. RequestOK(r)'
    BY <1>9, <1>t, <1>r DEF ReleaseLock, Goto, RequestOK, HoldsAnswer, TypeOK
  <2>3. CacheComplete'
    BY <1>9, <1>t, CacheUnchanged DEF ReleaseLock, cacheVars
  <2> QED
    BY <1>t, <2>1, <2>2, <2>3, OneRequest
<1>10. ASSUME NEW r \in Requests, Cancel(r) PROVE SearchInv'
  <2>1. \A s \in Requests : s # r => Unmoved(s)
    BY <1>10, <1>t DEF Cancel, Unmoved, TypeOK
  <2>2. RequestOK(r)'
    BY <1>10, <1>t, <1>r
    DEF Cancel, RequestOK, HoldsAnswer, HoldsGathered, HoldsRemembered, Complete,
        TypeOK
  <2>3. CacheComplete'
    BY <1>10, <1>t, CacheUnchanged DEF Cancel, cacheVars
  <2> QED
    BY <1>t, <2>1, <2>2, <2>3, OneRequest
<1>11. ASSUME NEW i \in Instances, Crash(i) PROVE SearchInv'
  <2>1. ASSUME NEW s \in Requests PROVE RequestOK(s)'
    <3>1. CASE InstanceOf[s] = i /\ pc[s] # "idle"
      BY <1>11, <3>1 DEF Crash, RequestOK, HoldsAnswer
    <3>2. CASE ~(InstanceOf[s] = i /\ pc[s] # "idle")
      <4>1. Unmoved(s)
        BY <1>11, <1>t, <3>2 DEF Crash, Unmoved, TypeOK
      <4> QED
        BY <1>r, <4>1, UnmovedOK
    <3> QED
      BY <3>1, <3>2
  <2>2. CacheComplete'
    BY <1>11, <1>t, CacheUnchanged DEF Crash, cacheVars
  <2> QED
    BY <1>t, <2>1, <2>2 DEF SearchInv
<1>12. CASE Tick
  <2>1. \A s \in Requests : RequestOK(s)'
    BY <1>12, <1>r, UnmovedOK DEF Tick, requestVars, Unmoved
  <2>2. \A k \in Keys : flightsTTL'[k] # NoKey =>
          flightsTTL[k] # NoKey /\ cachedFlights'[k] = cachedFlights[k]
    BY <1>12 DEF Tick, Expired, NoKey
  <2>3. CacheComplete'
    BY <1>t, <2>2 DEF CacheComplete, Complete
  <2> QED
    BY <1>t, <2>1, <2>3 DEF SearchInv
<1>13. CASE UNCHANGED vars
  <2>1. \A s \in Requests : RequestOK(s)'
    BY <1>13, <1>r, UnmovedOK DEF vars, requestVars, Unmoved
  <2>2. CacheComplete'
    BY <1>13, <1>t, CacheUnchanged DEF vars, cacheVars
  <2> QED
    BY <1>t, <2>1, <2>2 DEF SearchInv
<1> QED
  BY <1>1, <1>2, <1>3, <1>4, <1>5, <1>6, <1>7, <1>8, <1>9, <1>10, <1>11,
     <1>12, <1>13
  DEF Next, Step

\* For any number of requests, providers and faults: what is published in the
\* cache lacks only flaky providers, because a context that dies during the
\* fan-out dies before the cache write that shares it (SearchFlights).
THEOREM CacheNeverTruncated == Spec => []CacheComplete
<1>1. SearchInv => CacheComplete
  BY DEF SearchInv
<1> QED
  BY SearchInit, SearchNext, <1>1, PTL DEF Spec

\* For any number of requests, providers and faults: an answer is the filtered
\* merge of the answers of all but flaky providers to the request's own criteria,
\* cached or not, and on a miss its metadata counts those providers (SearchFlights).
THEOREM AnswersFaithful == Spec => []AnswerFaithful
<1>1. SearchInv => AnswerFaithful
  BY DEF SearchInv, AnswerFaithful, RequestOK, HoldsAnswer
<1> QED
  BY SearchInit, SearchNext, <1>1, PTL DEF Spec

-----------------------------------------------------------------------------
(* What requests report                                                    *)

\* r's counts as long as it has not gathered itself: none before it reads the
\* cache's, and on a hit those or none.
CountsOK(r) ==
  /\ pc[r] \in {"getFlight", "getMetadata"} => metadata[r] = ZeroMetadata
  /\ cacheHit[r] => HonestCounts(metadata[r]) \/ metadata[r] = ZeroMetadata

\* The cached counts are honest.
CountsCached ==
  \A k \in Keys : metadataTTL[k] # NoKey => HonestCounts(cachedMetadata[k])

\* MetadataHonest needs to know where counts come from: the cache's from a whole
\* search (SearchInv), and a hit's from the cache.
MetadataInv == SearchInv /\ CountsCached /\ \A r \in Requests : CountsOK(r)

LEMMA MetadataInit == Init => MetadataInv
<1> SUFFICES ASSUME Init PROVE MetadataInv
  OBVIOUS
<1>1. SearchInv
  BY SearchInit
<1>2. CountsCached
  BY DEF Init, CountsCached
<1>3. \A r \in Requests : CountsOK(r)
  BY DEF Init, CountsOK
<1> QED
  BY <1>1, <1>2, <1>3 DEF MetadataInv

LEMMA CountsKept ==
  ASSUME CountsCached, UNCHANGED <<metadataTTL, cachedMetadata>>
  PROVE  CountsCached'
BY DEF CountsCached, HonestCounts

LEMMA UnmovedCounts ==
  ASSUME NEW s \in Requests, CountsOK(s), Unmoved(s)
  PROVE  CountsOK(s)'
BY DEF Unmoved, CountsOK, HonestCounts

\* Only SetMetadata writes counts to the cache, and only whole ones.
LEMMA CountsCachedNext ==
  SearchInv /\ CountsCached /\ [Next]_vars => CountsCached'
<1> SUFFICES ASSUME SearchInv, CountsCached, [Next]_vars PROVE CountsCached'
  OBVIOUS
<1>t. TypeOK /\ \A r \in Requests : RequestOK(r) /\ Key(r) \in Keys
  BY RequestKeyType DEF SearchInv
<1>1. ASSUME NEW r \in Requests, SetMetadata(r), StoreMetadata(r), live[r]
      PROVE  CountsCached'
  <2>1. HonestCounts(metadata[r])
    BY <1>1, <1>t DEF SetMetadata, RequestOK, HoldsGathered, HonestCounts
  <2>2. ASSUME NEW k \in Keys, metadataTTL'[k] # NoKey
        PROVE  HonestCounts(cachedMetadata'[k])
    <3>1. CASE k = Key(r)
      BY <1>1, <1>t, <2>1, <3>1 DEF StoreMetadata, TypeOK
    <3>2. CASE k # Key(r)
      BY <1>1, <1>t, <2>2, <3>2 DEF StoreMetadata, CountsCached, TypeOK
    <3> QED
      BY <3>1, <3>2
  <2> QED
    BY <2>2 DEF CountsCached, HonestCounts
<1>2. ASSUME NEW r \in Requests, SetMetadata(r) PROVE CountsCached'
  <2>1. \/ StoreMetadata(r) /\ live[r]
        \/ UNCHANGED <<metadataTTL, cachedMetadata>>
    BY <1>2 DEF SetMetadata
  <2> QED
    BY <1>1, <1>2, <2>1, CountsKept
<1>3. ASSUME NEW r \in Requests,
             \/ Arrive(r) \/ GetFlight(r) \/ GetMetadata(r) \/ Fetch(r)
             \/ AcquireLock(r) \/ SetFlights(r) \/ Process(r) \/ ReleaseLock(r)
             \/ Cancel(r)
      PROVE  CountsCached'
  <2>1. UNCHANGED <<metadataTTL, cachedMetadata>>
    BY <1>3
    DEF Arrive, GetFlight, GetMetadata, Fetch, AcquireLock, SetFlights, Process,
        ReleaseLock, Cancel, cacheVars
  <2> QED
    BY <2>1, CountsKept
<1>4. ASSUME NEW i \in Instances, Crash(i) PROVE CountsCached'
  BY <1>4, CountsKept DEF Crash, cacheVars
<1>5. CASE Tick
  <2>1. \A k \in Keys : metadataTTL'[k] # NoKey =>
          metadataTTL[k] # NoKey /\ cachedMetadata'[k] = cachedMetadata[k]
    BY <1>5 DEF Tick, Expired, NoKey
  <2> QED
    BY <2>1 DEF CountsCached, HonestCounts
<1>6. CASE UNCHANGED vars
  BY <1>6, CountsKept DEF vars, cacheVars
<1> QED
  BY <1>2, <1>3, <1>4, <1>5, <1>6 DEF Next, Step

LEMMA CountsNext ==
  ASSUME MetadataInv, [Next]_vars, NEW s \in Requests
  PROVE  CountsOK(s)'
<1>t. TypeOK /\ CountsCached /\ CountsOK(s)
  BY DEF MetadataInv, SearchInv
<1>r. \A r \in Requests : RequestOK(r) /\ CountsOK(r) /\ Key(r) \in Keys
  BY <1>t, RequestKeyType DEF MetadataInv, SearchInv
<1>1. ASSUME NEW r \in Requests, Arrive(r) PROVE CountsOK(s)'
  <2>1. CASE s = r
    BY <1>1, <1>t, <2>1 DEF Arrive, Goto, CountsOK, TypeOK
  <2>2. CASE s # r
    BY <1>1, <1>t, <2>2, UnmovedCounts DEF Arrive, Goto, Unmoved, TypeOK
  <2> QED
    BY <2>1, <2>2
<1>2. ASSUME NEW r \in Requests, GetFlight(r) PROVE CountsOK(s)'
  <2>1. CASE s = r
    BY <1>2, <1>t, <2>1 DEF GetFlight, Goto, CountsOK, TypeOK
  <2>2. CASE s # r
    BY <1>2, <1>t, <2>2, UnmovedCounts DEF GetFlight, Goto, Unmoved, TypeOK
  <2> QED
    BY <2>1, <2>2
<1>3. ASSUME NEW r \in Requests, GetMetadata(r) PROVE CountsOK(s)'
  <2>1. CASE s = r
    <3>1. /\ metadata'[s] = ZeroMetadata \/ HonestCounts(metadata'[s])
          /\ pc'[s] \notin {"getFlight", "getMetadata"}
      <4>1. metadata[s] = ZeroMetadata /\ pc'[s] \in {"process", "fetch"}
        BY <1>3, <1>t, <2>1 DEF GetMetadata, Goto, CountsOK, TypeOK
      <4>2. metadataTTL[Key(s)] # NoKey => HonestCounts(cachedMetadata[Key(s)])
        BY <1>t, <1>r DEF CountsCached
      <4>3. \/ metadata'[s] = metadata[s]
            \/ /\ metadataTTL[Key(s)] # NoKey
               /\ metadata'[s] = cachedMetadata[Key(s)]
        BY <1>3, <1>t, <2>1 DEF GetMetadata, TypeOK
      <4> QED
        BY <4>1, <4>2, <4>3
    <3> QED
      BY <3>1 DEF CountsOK, HonestCounts
  <2>2. CASE s # r
    BY <1>3, <1>t, <2>2, UnmovedCounts DEF GetMetadata, Goto, Unmoved, TypeOK
  <2> QED
    BY <2>1, <2>2
<1>4. ASSUME NEW r \in Requests, Fetch(r) PROVE CountsOK(s)'
  <2>1. CASE s = r
    BY <1>4, <1>t, <1>r, <2>1 DEF Fetch, Goto, CountsOK, RequestOK, TypeOK
  <2>2. CASE s # r
    BY <1>4, <1>t, <2>2, UnmovedCounts DEF Fetch, Goto, Unmoved, TypeOK
  <2> QED
    BY <2>1, <2>2
\* Past the lookups only an error changes the counts, to none.
<1>5. ASSUME NEW r \in Requests,
             pc'[s] \notin {"getFlight", "getMetadata"},
             metadata'[s] \in {metadata[s], ZeroMetadata}, cacheHit'[s] = cacheHit[s]
      PROVE  CountsOK(s)'
  BY <1>5, <1>t DEF CountsOK, HonestCounts
<1>6. ASSUME NEW r \in Requests,
             \/ AcquireLock(r) \/ SetFlights(r) \/ SetMetadata(r) \/ Process(r)
             \/ ReleaseLock(r)
      PROVE  CountsOK(s)'
  <2>1. CASE s = r
    <3>1. pc'[s] \notin {"getFlight", "getMetadata"}
      BY <1>6, <1>t, <2>1
      DEF AcquireLock, SetFlights, SetMetadata, Process, ReleaseLock, Goto, TypeOK
    <3>2. metadata'[s] \in {metadata[s], ZeroMetadata}
      BY <1>6, <1>t, <2>1
      DEF AcquireLock, SetFlights, SetMetadata, Process, ReleaseLock, ReplyError,
          TypeOK
    <3>3. cacheHit'[s] = cacheHit[s]
      BY <1>6 DEF AcquireLock, SetFlights, SetMetadata, Process, ReleaseLock
    <3> QED
      BY <1>5, <3>1, <3>2, <3>3
  <2>2. CASE s # r
    <3>1. Unmoved(s)
      BY <1>6, <1>t, <2>2
      DEF AcquireLock, SetFlights, SetMetadata, Process, ReleaseLock, ReplyError,
          Goto, Unmoved, TypeOK
    <3> QED
      BY <1>t, <3>1, UnmovedCounts
  <2> QED
    BY <2>1, <2>2
<1>7. ASSUME NEW r \in Requests, Cancel(r) PROVE CountsOK(s)'
  BY <1>7, <1>t DEF Cancel, CountsOK, HonestCounts
<1>8. ASSUME NEW i \in Instances, Crash(i) PROVE CountsOK(s)'
  <2>1. CASE InstanceOf[s] = i /\ pc[s] # "idle"
    BY <1>8, <2>1 DEF Crash, CountsOK
  <2>2. CASE ~(InstanceOf[s] = i /\ pc[s] # "idle")
    <3>1. Unmoved(s)
      BY <1>8, <1>t, <2>2 DEF Crash, Unmoved, TypeOK
    <3> QED
      BY <1>t, <3>1, UnmovedCounts
  <2> QED
    BY <2>1, <2>2
<1>9. CASE Tick \/ UNCHANGED vars
  <2>1. Unmoved(s)
    BY <1>9 DEF Tick, vars, requestVars, Unmoved
  <2> QED
    BY <1>t, <2>1, UnmovedCounts
<1> QED
  BY <1>1, <1>2, <1>3, <1>4, <1>6, <1>7, <1>8, <1>9 DEF Next, Step

LEMMA MetadataNext == MetadataInv /\ [Next]_vars => MetadataInv'
<1> SUFFICES ASSUME MetadataInv, [Next]_vars PROVE MetadataInv'
  OBVIOUS
<1>1. SearchInv' /\ CountsCached'
  BY SearchNext, CountsCachedNext DEF MetadataInv
<1>2. \A s \in Requests : CountsOK(s)'
  BY CountsNext
<1> QED
  BY <1>1, <1>2 DEF MetadataInv

\* For any number of requests, providers and faults: the counts that are reported,
\* on a hit or a miss, are those of one search that asked every provider and that
\* only flaky ones failed, or they are absent (SearchFlights' metadata).
THEOREM MetadataAlwaysHonest == Spec => []MetadataHonest
<1>1. MetadataInv => MetadataHonest
  <2> SUFFICES ASSUME MetadataInv, NEW r \in Requests, reply[r] \in {"ok", "notFound"}
               PROVE  \/ HonestCounts(metadata[r])
                      \/ cacheHit[r] /\ metadata[r] = ZeroMetadata
    BY DEF MetadataHonest
  <2>1. RequestOK(r) /\ CountsOK(r)
    BY DEF MetadataInv, SearchInv
  <2>2. ~cacheHit[r] => HonestCounts(metadata[r])
    BY <2>1 DEF RequestOK, HoldsAnswer, HonestCounts
  <2> QED
    BY <2>1, <2>2 DEF CountsOK
<1> QED
  BY MetadataInit, MetadataNext, <1>1, PTL DEF Spec

-----------------------------------------------------------------------------
(* The refinement                                                          *)

\* The refinement mapping, as ReadThroughCache's variables see it.
PhaseMap == [r \in Requests |-> Phase(r)]
MemoKeys == {k \in Keys : flightsTTL[k] # NoKey}
MemoMap == [k \in MemoKeys |-> cachedFlights[k]]

\* ReadThroughCache reads the same catalogue.
LEMMA SameCatalog ==
  /\ \A ok, req : ReadThrough!Merged(ok, req) = Merged(ok, req)
  /\ \A req : ReadThrough!GetCacheKey(req) = GetCacheKey(req)
  /\ \A list, airline :
       ReadThrough!FilterFlights(list, airline) = FilterFlights(list, airline)
  /\ ReadThrough!Keys = Keys
  /\ \A list, req : ReadThrough!Whole(list, req) = Complete(list, req)
BY DEF ReadThrough!Merged, Merged, ReadThrough!SearchResult, SearchResult,
       ReadThrough!GetCacheKey, GetCacheKey, ReadThrough!FilterFlights,
       FilterFlights, ReadThrough!Keys, Keys, ReadThrough!Whole, Complete

LEMMA ReadThroughInit == Init => ReadThrough!Init
<1> SUFFICES ASSUME Init PROVE ReadThrough!Init
  OBVIOUS
<1>1. [r \in Requests |-> Phase(r)] = [r \in Requests |-> "idle"]
  BY DEF Init, Phase
<1>2. {k \in Keys : flightsTTL[k] # NoKey} = {}
  BY DEF Init
<1>3. [k \in {k \in Keys : flightsTTL[k] # NoKey} |-> cachedFlights[k]]
        = [k \in {} |-> {}]
  BY <1>2
<1> QED
  BY <1>1, <1>3 DEF Init, ReadThrough!Init

\* The mapped phases after a step of request r alone.
LEMMA PhaseStep ==
  ASSUME NEW r \in Requests, NEW to,
         \A s \in Requests : s # r => Unmoved(s),
         Phase(r)' = to
  PROVE  PhaseMap' = [PhaseMap EXCEPT ![r] = to]
<1>1. \A s \in Requests : s # r => Phase(s)' = Phase(s)
  BY DEF Unmoved, Phase
<1> QED
  BY <1>1 DEF PhaseMap

LEMMA PhaseStay ==
  ASSUME NEW r \in Requests,
         \A s \in Requests : s # r => Unmoved(s),
         Phase(r)' = Phase(r)
  PROVE  PhaseMap' = PhaseMap
<1>1. \A s \in Requests : Phase(s)' = Phase(s)
  BY DEF Unmoved, Phase
<1> QED
  BY <1>1 DEF PhaseMap

LEMMA MemoStay ==
  ASSUME UNCHANGED <<flightsTTL, cachedFlights>>
  PROVE  MemoMap' = MemoMap
BY DEF MemoMap, MemoKeys

\* Storing r's list makes it the memo of r's key.
LEMMA MemoStore ==
  ASSUME TypeOK, NEW r \in Requests, StoreFlights(r)
  PROVE  MemoMap' = [k \in DOMAIN MemoMap \cup {Key(r)} |->
                       IF k = Key(r) THEN flights[r] ELSE MemoMap[k]]
<1>1. Key(r) \in Keys
  BY RequestKeyType
<1>2. ExpireAfter(CacheExpiration) # NoKey
  BY SearchAssumption DEF ExpireAfter, NoKey, NoExpiry
<1>3. MemoKeys' = MemoKeys \cup {Key(r)}
  BY <1>1, <1>2 DEF StoreFlights, MemoKeys, TypeOK
<1>4. \A k \in MemoKeys' :
        cachedFlights'[k] = IF k = Key(r) THEN flights[r] ELSE cachedFlights[k]
  BY <1>1 DEF StoreFlights, MemoKeys, TypeOK
<1>5. DOMAIN MemoMap = MemoKeys
  BY DEF MemoMap
<1> QED
  BY <1>3, <1>4, <1>5 DEF MemoMap

LEMMA ReadThroughNext ==
  SearchInv /\ [Next]_vars => [ReadThrough!Next]_(ReadThrough!vars)
<1> SUFFICES ASSUME SearchInv, [Next]_vars
             PROVE  [ReadThrough!Next]_(ReadThrough!vars)
  OBVIOUS
<1>t. TypeOK /\ CacheComplete /\ \A r \in Requests : RequestOK(r)
  BY DEF SearchInv
<1>k. \A r \in Requests : Key(r) \in Keys
  BY <1>t, RequestKeyType
<1>s. ASSUME PhaseMap' = PhaseMap, MemoMap' = MemoMap,
             UNCHANGED <<criteria, flights, reply>>
      PROVE  UNCHANGED ReadThrough!vars
  BY <1>s DEF ReadThrough!vars, PhaseMap, MemoMap, MemoKeys
<1>1. ASSUME NEW r \in Requests, Arrive(r) PROVE ReadThrough!Ask(r)
  <2>1. \A s \in Requests : s # r => Unmoved(s)
    BY <1>1, <1>t DEF Arrive, Goto, Unmoved, TypeOK
  <2>2. Phase(r) = "idle" /\ Phase(r)' = "asked"
    BY <1>1, <1>t DEF Arrive, Goto, Phase, TypeOK
  <2>3. PhaseMap' = [PhaseMap EXCEPT ![r] = "asked"]
    BY <2>1, <2>2, PhaseStep
  <2>4. MemoMap' = MemoMap
    BY <1>1, MemoStay DEF Arrive, cacheVars
  <2> QED
    BY <1>1, <2>2, <2>3, <2>4
    DEF Arrive, ReadThrough!Ask, PhaseMap, MemoMap, MemoKeys
<1>2. ASSUME NEW r \in Requests, GetFlight(r)
      PROVE  ReadThrough!Remember(r) \/ UNCHANGED ReadThrough!vars
  <2>1. \A s \in Requests : s # r => Unmoved(s)
    BY <1>2, <1>t DEF GetFlight, Goto, Unmoved, TypeOK
  <2>2. Phase(r) = "asked" /\ ~cacheHit[r]
    BY <1>2, <1>t DEF GetFlight, Phase, RequestOK
  <2>3. MemoMap' = MemoMap
    BY <1>2, MemoStay DEF GetFlight, cacheVars
  <2>4. CASE flights' = flights /\ cacheHit' = cacheHit
    <3>1. Phase(r)' = "asked"
      BY <1>2, <1>t, <2>2, <2>4 DEF GetFlight, Goto, Phase, TypeOK
    <3>2. PhaseMap' = PhaseMap
      BY <2>1, <2>2, <3>1, PhaseStay
    <3> QED
      BY <1>2, <1>s, <2>3, <2>4, <3>2 DEF GetFlight
  <2>5. CASE /\ flightsTTL[Key(r)] # NoKey
             /\ flights' = [flights EXCEPT ![r] = cachedFlights[Key(r)]]
             /\ cacheHit' = [cacheHit EXCEPT ![r] = TRUE]
    <3>1. Phase(r)' = "remembered"
      BY <1>2, <1>t, <2>5 DEF GetFlight, Goto, Phase, TypeOK
    <3>2. PhaseMap' = [PhaseMap EXCEPT ![r] = "remembered"]
      BY <2>1, <3>1, PhaseStep
    <3>3. Key(r) \in MemoKeys /\ MemoMap[Key(r)] = cachedFlights[Key(r)]
      BY <1>k, <2>5 DEF MemoKeys, MemoMap
    <3> QED
      BY <1>2, <2>2, <2>3, <2>5, <3>2, <3>3, SameCatalog
      DEF GetFlight, ReadThrough!Remember, PhaseMap, MemoMap, MemoKeys, Key
  <2> QED
    BY <1>2, <2>4, <2>5 DEF GetFlight
<1>3. ASSUME NEW r \in Requests, GetMetadata(r)
      PROVE  UNCHANGED ReadThrough!vars
  <2>1. \A s \in Requests : s # r => Unmoved(s)
    BY <1>3, <1>t DEF GetMetadata, Goto, Unmoved, TypeOK
  <2>2. Phase(r)' = Phase(r)
    BY <1>3, <1>t DEF GetMetadata, Goto, Phase, TypeOK
  <2>3. PhaseMap' = PhaseMap /\ MemoMap' = MemoMap
    BY <1>3, <2>1, <2>2, PhaseStay, MemoStay DEF GetMetadata, cacheVars
  <2> QED
    BY <1>3, <1>s, <2>3 DEF GetMetadata
<1>4. ASSUME NEW r \in Requests, Fetch(r) PROVE ReadThrough!Gather(r)
  <2>1. \A s \in Requests : s # r => Unmoved(s)
    BY <1>4, <1>t DEF Fetch, Goto, Unmoved, TypeOK
  <2>2. Phase(r) = "asked" /\ Phase(r)' = "gathered"
    BY <1>4, <1>t DEF Fetch, Goto, Phase, TypeOK
  <2>3. PhaseMap' = [PhaseMap EXCEPT ![r] = "gathered"]
    BY <2>1, <2>2, PhaseStep
  <2>4. MemoMap' = MemoMap
    BY <1>4, MemoStay DEF Fetch, cacheVars
  <2> QED
    BY <1>4, <2>2, <2>3, <2>4, SameCatalog
    DEF Fetch, ReadThrough!Gather, PhaseMap, MemoMap, MemoKeys
<1>m. ASSUME NEW r \in Requests, pc[r] \in {"lock", "setFlights", "setMetadata"},
             live[r], StoreFlights(r)
      PROVE  ReadThrough!Memoised(r)
  <2>1. Phase(r) = "gathered" /\ Complete(flights[r], criteria[r])
    BY <1>m, <1>t DEF RequestOK, HoldsGathered, Complete, Phase
  <2>2. MemoMap' = [k \in DOMAIN MemoMap \cup {Key(r)} |->
                     IF k = Key(r) THEN flights[r] ELSE MemoMap[k]]
    BY <1>m, <1>t, MemoStore
  <2> QED
    BY <2>1, <2>2, SameCatalog
    DEF ReadThrough!Memoised, MemoMap, MemoKeys, Key, Complete
<1>f. ASSUME NEW r \in Requests, pc[r] \in {"lock", "setFlights", "setMetadata"},
             ReplyError(r), pc' = [pc EXCEPT ![r] = "release"]
                              \/ pc' = [pc EXCEPT ![r] = "idle"],
             UNCHANGED <<criteria, live, cacheHit>>,
             MemoMap' = MemoMap \/ (live[r] /\ StoreFlights(r))
      PROVE  ReadThrough!Fail(r)
  <2>1. \A s \in Requests : s # r => Unmoved(s)
    BY <1>f, <1>t DEF ReplyError, Unmoved, TypeOK
  <2>2. Phase(r) = "gathered" /\ Phase(r)' = "idle"
    BY <1>f, <1>t DEF Phase, TypeOK
  <2>3. PhaseMap' = [PhaseMap EXCEPT ![r] = "idle"]
    BY <2>1, <2>2, PhaseStep
  <2> QED
    BY <1>f, <1>m, <2>2, <2>3
    DEF ReplyError, ReadThrough!Fail, PhaseMap, MemoMap, MemoKeys
<1>5. ASSUME NEW r \in Requests, AcquireLock(r)
      PROVE  ReadThrough!Fail(r) \/ UNCHANGED ReadThrough!vars
  <2>1. \A s \in Requests : s # r => Unmoved(s)
    BY <1>5, <1>t DEF AcquireLock, ReplyError, Goto, Unmoved, TypeOK
  <2>2. MemoMap' = MemoMap
    BY <1>5, MemoStay DEF AcquireLock, cacheVars
  <2>3. CASE Goto(r, "idle") /\ ReplyError(r)
    <3>1. /\ pc[r] \in {"lock", "setFlights", "setMetadata"}
          /\ UNCHANGED <<criteria, live, cacheHit>>
      BY <1>5 DEF AcquireLock
    <3> QED
      BY <1>f, <2>2, <2>3, <3>1 DEF Goto
  <2>4. CASE /\ Goto(r, "setFlights") \/ Goto(r, "process")
             /\ UNCHANGED <<flights, metadata, reply>>
    <3>1. ~cacheHit[r]
      BY <1>5, <1>t DEF AcquireLock, RequestOK, HoldsGathered
    <3>2. Phase(r)' = Phase(r)
      BY <1>5, <1>t, <2>4, <3>1 DEF AcquireLock, Goto, Phase, TypeOK
    <3>3. PhaseMap' = PhaseMap
      BY <2>1, <3>2, PhaseStay
    <3> QED
      BY <1>5, <1>s, <2>2, <2>4, <3>3 DEF AcquireLock
  <2> QED
    BY <1>5, <2>3, <2>4 DEF AcquireLock, Goto
<1>6. ASSUME NEW r \in Requests, SetFlights(r)
      PROVE  ReadThrough!Memoise(r) \/ ReadThrough!Fail(r)
  <2>1. \A s \in Requests : s # r => Unmoved(s)
    BY <1>6, <1>t DEF SetFlights, ReplyError, Goto, Unmoved, TypeOK
  <2>2. CASE Goto(r, "release") /\ ReplyError(r)
    <3>1. /\ pc[r] \in {"lock", "setFlights", "setMetadata"}
          /\ UNCHANGED <<criteria, live, cacheHit>>
      BY <1>6 DEF SetFlights
    <3>2. MemoMap' = MemoMap \/ (live[r] /\ StoreFlights(r))
      BY <1>6, MemoStay DEF SetFlights
    <3> QED
      BY <1>f, <2>2, <3>1, <3>2 DEF Goto
  <2>3. CASE /\ live[r] /\ StoreFlights(r) /\ Goto(r, "setMetadata")
             /\ UNCHANGED <<flights, metadata, reply>>
    <3>1. Phase(r) = "gathered" /\ Phase(r)' = Phase(r)
      BY <1>6, <1>t, <2>3 DEF SetFlights, Goto, Phase, TypeOK
    <3>2. PhaseMap' = PhaseMap
      BY <2>1, <3>1, PhaseStay
    <3>3. ReadThrough!Memoised(r)
      BY <1>6, <1>m, <2>3 DEF SetFlights
    <3> QED
      BY <1>6, <2>3, <3>2, <3>3
      DEF SetFlights, ReadThrough!Memoise, PhaseMap
  <2> QED
    BY <1>6, <2>2, <2>3 DEF SetFlights
<1>7. ASSUME NEW r \in Requests, SetMetadata(r)
      PROVE  ReadThrough!Fail(r) \/ UNCHANGED ReadThrough!vars
  <2>1. \A s \in Requests : s # r => Unmoved(s)
    BY <1>7, <1>t DEF SetMetadata, ReplyError, Goto, Unmoved, TypeOK
  <2>2. MemoMap' = MemoMap
    BY <1>7, MemoStay DEF SetMetadata
  <2>3. CASE Goto(r, "release") /\ ReplyError(r)
    <3>1. /\ pc[r] \in {"lock", "setFlights", "setMetadata"}
          /\ UNCHANGED <<criteria, live, cacheHit>>
      BY <1>7 DEF SetMetadata
    <3> QED
      BY <1>f, <2>2, <2>3, <3>1 DEF Goto
  <2>4. CASE Goto(r, "process") /\ UNCHANGED <<flights, metadata, reply>>
    <3>1. ~cacheHit[r]
      BY <1>7, <1>t DEF SetMetadata, RequestOK, HoldsGathered
    <3>2. Phase(r)' = Phase(r)
      BY <1>7, <1>t, <2>4, <3>1 DEF SetMetadata, Goto, Phase, TypeOK
    <3>3. PhaseMap' = PhaseMap
      BY <2>1, <3>2, PhaseStay
    <3> QED
      BY <1>7, <1>s, <2>2, <2>4, <3>3 DEF SetMetadata
  <2> QED
    BY <1>7, <2>3, <2>4 DEF SetMetadata
<1>8. ASSUME NEW r \in Requests, Process(r) PROVE ReadThrough!Reply(r)
  <2>1. \A s \in Requests : s # r => Unmoved(s)
    BY <1>8, <1>t DEF Process, Goto, Unmoved, TypeOK
  <2>2. Phase(r) \in {"remembered", "gathered"} /\ Phase(r)' = "idle"
    BY <1>8, <1>t DEF Process, Goto, Phase, TypeOK
  <2>3. PhaseMap' = [PhaseMap EXCEPT ![r] = "idle"]
    BY <2>1, <2>2, PhaseStep
  <2>4. MemoMap' = MemoMap
    BY <1>8, MemoStay DEF Process, cacheVars
  <2>5. Phase(r) = "gathered" => Complete(flights[r], criteria[r])
    BY <1>8, <1>t
    DEF Process, Phase, RequestOK, HoldsGathered, HoldsRemembered, Complete
  <2> QED
    BY <1>8, <2>2, <2>3, <2>4, <2>5, SameCatalog
    DEF Process, ReadThrough!Reply, PhaseMap, MemoMap, MemoKeys
<1>9. ASSUME NEW r \in Requests, ReleaseLock(r)
      PROVE  UNCHANGED ReadThrough!vars
  <2>1. \A s \in Requests : s # r => Unmoved(s)
    BY <1>9, <1>t DEF ReleaseLock, Goto, Unmoved, TypeOK
  <2>2. Phase(r)' = Phase(r)
    BY <1>9, <1>t DEF ReleaseLock, Goto, Phase, TypeOK
  <2>3. PhaseMap' = PhaseMap /\ MemoMap' = MemoMap
    BY <1>9, <2>1, <2>2, PhaseStay, MemoStay DEF ReleaseLock, cacheVars
  <2> QED
    BY <1>9, <1>s, <2>3 DEF ReleaseLock
<1>10. ASSUME NEW r \in Requests, Cancel(r)
       PROVE  UNCHANGED ReadThrough!vars
  <2>1. PhaseMap' = PhaseMap
    BY <1>10 DEF Cancel, PhaseMap, Phase
  <2>2. MemoMap' = MemoMap
    BY <1>10, MemoStay DEF Cancel, cacheVars
  <2> QED
    BY <1>10, <1>s, <2>1, <2>2 DEF Cancel
<1>11. ASSUME NEW i \in Instances, Crash(i)
       PROVE  \E lost \in SUBSET Requests : ReadThrough!Lose(lost)
  <2> DEFINE lost == {r \in Requests : InstanceOf[r] = i /\ pc[r] # "idle"}
  <2>1. PhaseMap' = [r \in Requests |->
                       IF r \in lost THEN "idle" ELSE PhaseMap[r]]
    BY <1>11, <1>t DEF Crash, PhaseMap, Phase, TypeOK
  <2>2. MemoMap' = MemoMap
    BY <1>11, MemoStay DEF Crash, cacheVars
  <2>3. ReadThrough!Lose(lost)
    BY <1>11, <2>1, <2>2
    DEF Crash, ReadThrough!Lose, PhaseMap, MemoMap, MemoKeys
  <2> QED
    BY <2>3
<1>12. CASE Tick
  <2>e. PICK expired \in SUBSET Keys :
          expired = {k \in Keys : flightsTTL[k] = 1}
    OBVIOUS
  <2>1. PhaseMap' = PhaseMap
    BY <1>12 DEF Tick, requestVars, PhaseMap, Phase
  <2>2. MemoKeys' = MemoKeys \ expired
    BY <1>12, <1>t, <2>e DEF Tick, Expired, MemoKeys, NoKey, TypeOK, CacheTTL
  <2>3. \A k \in MemoKeys' : cachedFlights'[k] = cachedFlights[k]
    BY <1>12, <2>2, <2>e DEF Tick, MemoKeys
  <2>4. MemoMap' = [k \in DOMAIN MemoMap \ expired |-> MemoMap[k]]
    BY <2>2, <2>3 DEF MemoMap
  <2>5. ReadThrough!Forget(expired)
    BY <1>12, <2>1, <2>4
    DEF Tick, requestVars, ReadThrough!Forget, PhaseMap, MemoMap, MemoKeys
  <2> QED
    BY <2>5, SameCatalog DEF ReadThrough!Next
<1>13. CASE UNCHANGED vars
  BY <1>13, <1>s
  DEF vars, requestVars, cacheVars, PhaseMap, Phase, MemoMap, MemoKeys
<1> QED
  BY <1>1, <1>2, <1>3, <1>4, <1>5, <1>6, <1>7, <1>8, <1>9, <1>10, <1>11,
     <1>12, <1>13
  DEF Next, Step, ReadThrough!Next

\* For any number of requests, keys, providers and faults, the lock, the two
\* cache entries and the expirations together behave as a read-through cache:
\* the state ImplementsReadThrough is checked against on a small instance.
THEOREM ReadThroughRefined == Spec => ImplementsReadThrough
BY SearchInit, SearchNext, ReadThroughInit, ReadThroughNext, PTL
DEF Spec, ImplementsReadThrough, ReadThrough!Spec
-----------------------------------------------------------------------------
(* The fan-out of a request is the one ProviderFanOut implements           *)

\* The call of getFromProvider that r makes.
GatherOf(r) == INSTANCE ProviderGather WITH
  req      <- criteria[r],
  returned <- pc[r] # "fetch",
  flights  <- IF pc[r] = "fetch" THEN {} ELSE flights[r],
  failed   <- IF pc[r] = "fetch" THEN 0 ELSE metadata[r].ProvidersFailed

LEMMA GatherOfCatalog ==
  ASSUME NEW r \in Requests
  PROVE  /\ \A ok, c : GatherOf(r)!Merged(ok, c) = Merged(ok, c)
         /\ \A S : GatherOf(r)!Cardinality(S) = Cardinality(S)
BY DEF GatherOf!Merged, Merged, GatherOf!SearchResult, SearchResult,
       GatherOf!Cardinality, Cardinality

\* What a request does in one step between its lookup and its lock is what
\* ProviderGather promises of getFromProvider, and so, by FanOutGathers, what
\* the goroutines of ProviderFanOut do in many: the two modules compose.
THEOREM FetchIsGather ==
  Spec => [][\A r \in Requests : Fetch(r) => GatherOf(r)!Next]_vars
<1>1. ASSUME TypeOK, NEW r \in Requests, Fetch(r) PROVE GatherOf(r)!Next
  <2>1. PICK ok \in SUBSET Providers :
          /\ flights' = [flights EXCEPT ![r] = Merged(ok, criteria[r])]
          /\ metadata' = [metadata EXCEPT ![r] = MetadataOf(ok)]
    BY <1>1 DEF Fetch
  <2>2. /\ pc[r] = "fetch" /\ pc'[r] = "lock" /\ criteria'[r] = criteria[r]
        /\ flights'[r] = Merged(ok, criteria[r])
        /\ metadata'[r].ProvidersFailed = Cardinality(Providers \ ok)
    BY <1>1, <2>1 DEF Fetch, Goto, TypeOK, MetadataOf
  <2>3. GatherOf(r)!Gather(ok)
    BY <2>2, GatherOfCatalog DEF GatherOf!Gather
  <2> QED
    BY <2>3 DEF GatherOf!Next
<1>2. TypeOK => \A r \in Requests : Fetch(r) => GatherOf(r)!Next
  BY <1>1
<1> QED
  BY <1>2, TypeCorrect, PTL

-----------------------------------------------------------------------------
(* Every search ends                                                       *)
(*                                                                         *)
(* A request moves along Steps without ever going back, so fairness of its *)
(* own step carries it to its end, provided that step is always possible.  *)

\* Where r may be after its step from each place.
Follows(step) ==
  CASE step = "getFlight"   -> {"getMetadata"}
    [] step = "getMetadata" -> {"fetch", "process"}
    [] step = "fetch"       -> {"lock"}
    [] step = "lock"        -> {"setFlights", "process", "idle"}
    [] step = "setFlights"  -> {"setMetadata", "release"}
    [] step = "setMetadata" -> {"process", "release"}
    [] step = "process"     -> {"release", "idle"}
    [] step = "release"     -> {"idle"}
    [] OTHER                -> {}

LEMMA StepFollows ==
  ASSUME TypeOK, NEW r \in Requests, Step(r)
  PROVE  pc'[r] \in Follows(pc[r])
<1>1. CASE GetFlight(r) \/ GetMetadata(r)
  BY <1>1 DEF GetFlight, GetMetadata, Goto, TypeOK, Follows
<1>2. CASE Fetch(r) \/ AcquireLock(r)
  BY <1>2 DEF Fetch, AcquireLock, Goto, TypeOK, Follows
<1>3. CASE SetFlights(r) \/ SetMetadata(r)
  BY <1>3 DEF SetFlights, SetMetadata, Goto, TypeOK, Follows
<1>4. CASE Process(r) \/ ReleaseLock(r)
  BY <1>4 DEF Process, ReleaseLock, Goto, TypeOK, Follows
<1> QED
  BY <1>1, <1>2, <1>3, <1>4 DEF Step

\* Other requests, time and a client that leaves do not move r; a crash ends it.
LEMMA NextFollows ==
  ASSUME TypeOK, NEW r \in Requests, pc[r] # "idle", [Next]_vars
  PROVE  pc'[r] \in Follows(pc[r]) \cup {pc[r], "idle"}
<1>1. ASSUME NEW q \in Requests, Arrive(q)
      PROVE  pc'[r] = pc[r]
  BY <1>1 DEF Arrive, Goto, TypeOK
<1>2. ASSUME NEW q \in Requests, Step(q), q # r
      PROVE  pc'[r] = pc[r]
  BY <1>2
  DEF Step, GetFlight, GetMetadata, Fetch, AcquireLock, SetFlights,
      SetMetadata, Process, ReleaseLock, Goto, TypeOK
<1>3. ASSUME NEW q \in Requests, Cancel(q)
      PROVE  pc'[r] = pc[r]
  BY <1>3 DEF Cancel
<1>4. ASSUME NEW i \in Instances, Crash(i)
      PROVE  pc'[r] \in {pc[r], "idle"}
  BY <1>4 DEF Crash
<1>5. CASE Tick \/ UNCHANGED vars
  BY <1>5 DEF Tick, vars, requestVars
<1> QED
  BY <1>1, <1>2, <1>3, <1>4, <1>5, StepFollows DEF Next

\* The request leaves each place by its step, for a later one.
LeavesFor(r, step, next) == pc[r] = step ~> pc[r] \in next

LEMMA OneStepOn ==
  ASSUME NEW r \in Requests, NEW step \in Steps \ {"idle"}
  PROVE  Spec /\ StepFair(r) /\ []NeverWaits
           => LeavesFor(r, step, Follows(step) \cup {"idle"})
<1> DEFINE Here  == pc[r] = step
           There == pc[r] \in Follows(step) \cup {"idle"}
<1>1. TypeOK /\ Here /\ [Next]_vars => Here' \/ There'
  BY NextFollows
<1>2. TypeOK /\ Here /\ <<Step(r)>>_vars => There'
  BY StepFollows
<1>3. NeverWaits /\ Here => ENABLED <<Step(r)>>_vars
  BY DEF NeverWaits
<1> HIDE DEF Here, There
<1>4. Spec /\ StepFair(r) /\ []NeverWaits => (Here ~> There)
  BY <1>1, <1>2, <1>3, TypeCorrect, PTL DEF Spec, StepFair
<1> QED
  BY <1>4 DEF Here, There, LeavesFor

LEMMA HandlerFair == ASSUME NEW q \in Requests PROVE FairSpec => StepFair(q)
<1>1. (\A r \in Requests : StepFair(r)) => StepFair(q)
  OBVIOUS
<1> QED
  BY <1>1, PTL DEF FairSpec

\* Whatever the requests, the faults and the interleaving, every search ends,
\* given that no request ever waits for another (NeverWaits) and that the
\* runtime schedules its handler.
THEOREM EveryRequestEnds == FairSpec /\ []NeverWaits => RequestsTerminate
<1> SUFFICES ASSUME NEW r \in Requests
             PROVE  FairSpec /\ []NeverWaits => (pc[r] # "idle" ~> pc[r] = "idle")
  BY DEF RequestsTerminate
<1> DEFINE Fair == Spec /\ StepFair(r) /\ []NeverWaits
           At(step) == pc[r] = step
<1>1. Fair => (At("release") ~> At("idle"))
  <2>1. Fair => LeavesFor(r, "release", Follows("release") \cup {"idle"})
    BY OneStepOn DEF Steps
  <2>2. pc[r] \in Follows("release") \cup {"idle"}
          => At("idle")
    BY DEF Follows
  <2> QED
    BY <2>1, <2>2, PTL DEF LeavesFor
<1>2. Fair => (At("process") ~> At("release") \/ At("idle"))
  <2>1. Fair => LeavesFor(r, "process", Follows("process") \cup {"idle"})
    BY OneStepOn DEF Steps
  <2>2. pc[r] \in Follows("process") \cup {"idle"}
          => At("release") \/ At("idle")
    BY DEF Follows
  <2> QED
    BY <2>1, <2>2, PTL DEF LeavesFor
<1>3. Fair => (At("setMetadata") ~> At("process") \/ At("release") \/ At("idle"))
  <2>1. Fair => LeavesFor(r, "setMetadata", Follows("setMetadata") \cup {"idle"})
    BY OneStepOn DEF Steps
  <2>2. pc[r] \in Follows("setMetadata") \cup {"idle"}
          => At("process") \/ At("release") \/ At("idle")
    BY DEF Follows
  <2> QED
    BY <2>1, <2>2, PTL DEF LeavesFor
<1>4. Fair => (At("setFlights") ~> At("setMetadata") \/ At("release") \/ At("idle"))
  <2>1. Fair => LeavesFor(r, "setFlights", Follows("setFlights") \cup {"idle"})
    BY OneStepOn DEF Steps
  <2>2. pc[r] \in Follows("setFlights") \cup {"idle"}
          => At("setMetadata") \/ At("release") \/ At("idle")
    BY DEF Follows
  <2> QED
    BY <2>1, <2>2, PTL DEF LeavesFor
<1>5. Fair => (At("lock") ~> At("setFlights") \/ At("process") \/ At("idle"))
  <2>1. Fair => LeavesFor(r, "lock", Follows("lock") \cup {"idle"})
    BY OneStepOn DEF Steps
  <2>2. pc[r] \in Follows("lock") \cup {"idle"}
          => At("setFlights") \/ At("process") \/ At("idle")
    BY DEF Follows
  <2> QED
    BY <2>1, <2>2, PTL DEF LeavesFor
<1>6. Fair => (At("fetch") ~> At("lock") \/ At("idle"))
  <2>1. Fair => LeavesFor(r, "fetch", Follows("fetch") \cup {"idle"})
    BY OneStepOn DEF Steps
  <2>2. pc[r] \in Follows("fetch") \cup {"idle"}
          => At("lock") \/ At("idle")
    BY DEF Follows
  <2> QED
    BY <2>1, <2>2, PTL DEF LeavesFor
<1>7. Fair => (At("getMetadata") ~> At("fetch") \/ At("process") \/ At("idle"))
  <2>1. Fair => LeavesFor(r, "getMetadata", Follows("getMetadata") \cup {"idle"})
    BY OneStepOn DEF Steps
  <2>2. pc[r] \in Follows("getMetadata") \cup {"idle"}
          => At("fetch") \/ At("process") \/ At("idle")
    BY DEF Follows
  <2> QED
    BY <2>1, <2>2, PTL DEF LeavesFor
<1>8. Fair => (At("getFlight") ~> At("getMetadata") \/ At("idle"))
  <2>1. Fair => LeavesFor(r, "getFlight", Follows("getFlight") \cup {"idle"})
    BY OneStepOn DEF Steps
  <2>2. pc[r] \in Follows("getFlight") \cup {"idle"}
          => At("getMetadata") \/ At("idle")
    BY DEF Follows
  <2> QED
    BY <2>1, <2>2, PTL DEF LeavesFor
<1>9. TypeOK => \/ At("idle") \/ At("getFlight") \/ At("getMetadata")
                \/ At("fetch") \/ At("lock") \/ At("setFlights")
                \/ At("setMetadata") \/ At("process") \/ At("release")
  BY DEF TypeOK, Steps
<1>10. FairSpec /\ []NeverWaits => Fair
  <2>1. FairSpec => StepFair(r)
    BY HandlerFair
  <2> QED
    BY <2>1, PTL DEF FairSpec
<1> QED
  BY <1>1, <1>2, <1>3, <1>4, <1>5, <1>6, <1>7, <1>8, <1>9, <1>10,
     TypeCorrect, PTL
=============================================================================
