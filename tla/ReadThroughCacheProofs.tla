----------------------- MODULE ReadThroughCacheProofs -----------------------
(***************************************************************************)
(* What a client of ReadThroughCache may rely on, for every set of         *)
(* requests, providers and searches.  SearchFlights inherits it by         *)
(* ReadThroughRefined of SearchFlightsProofs.                              *)
(***************************************************************************)
EXTENDS ReadThroughCache, TLAPS

\* Criteria that share a key get the same answers: the key has the trip and the
\* cabin, and providers look at nothing else.
LEMMA KeyDecides ==
  ASSUME NEW a, NEW b, a \in SearchCriteria, b \in SearchCriteria,
         GetCacheKey(a) = GetCacheKey(b), NEW list, Whole(list, a)
  PROVE  Whole(list, b)
<1>1. a.trip = b.trip /\ a.cabin = b.cabin
  BY DEF GetCacheKey
<1>2. \A p : SearchResult(p, a) = SearchResult(p, b)
  BY <1>1 DEF SearchResult
<1> QED
  BY <1>2 DEF Whole, Merged

Types ==
  /\ phase \in [Requests -> {"idle", "asked", "remembered", "gathered"}]
  /\ criteria \in [Requests -> Searches]
  /\ DOMAIN answer = Requests
  /\ DOMAIN reply = Requests

\* Every memo is whole, for whoever asks its key.
MemoWhole ==
  \A k \in DOMAIN memo : \A req \in Searches :
    GetCacheKey(req) = k => Whole(memo[k], req)

\* A request that remembers holds a whole list, one that was answered its
\* filtered flights.
Holds(r) ==
  /\ phase[r] = "remembered" => Whole(answer[r], criteria[r])
  /\ phase[r] # "idle" => reply[r] = "none"
  /\ reply[r] \in {"ok", "notFound"} =>
       \E ok \in SUBSET Providers :
         /\ Providers \ Flaky \subseteq ok
         /\ answer[r] = FilterFlights(Merged(ok, criteria[r]), criteria[r].airline)

CacheInv == Types /\ MemoWhole /\ \A r \in Requests : Holds(r)

\* A request whose own state stays holds what it held.
LEMMA HoldsFrame ==
  ASSUME NEW q, Holds(q), phase'[q] = phase[q], criteria'[q] = criteria[q],
         answer'[q] = answer[q], reply'[q] = reply[q]
  PROVE  Holds(q)'
BY DEF Holds, Whole

LEMMA CacheInit == Init => CacheInv
BY DEF Init, CacheInv, Types, MemoWhole, Holds

\* Writing what r gathered keeps every memo whole.
LEMMA MemoisedWhole ==
  ASSUME Searches \subseteq SearchCriteria, Types, MemoWhole,
         NEW r \in Requests, Memoised(r)
  PROVE  MemoWhole'
<1> DEFINE key == GetCacheKey(criteria[r])
<1>1. /\ DOMAIN memo' = DOMAIN memo \cup {key}
      /\ memo'[key] = answer[r]
      /\ \A k \in DOMAIN memo \ {key} : memo'[k] = memo[k]
      /\ Whole(answer[r], criteria[r])
  BY DEF Memoised
<1>2. ASSUME NEW k \in DOMAIN memo', NEW req \in Searches, GetCacheKey(req) = k
      PROVE  Whole(memo'[k], req)
  <2>1. CASE k = key
    BY <1>1, <1>2, <2>1, KeyDecides DEF Types
  <2>2. CASE k # key
    BY <1>1, <1>2, <2>2 DEF MemoWhole
  <2> QED
    BY <2>1, <2>2
<1> QED
  BY <1>2 DEF MemoWhole, Whole

LEMMA CacheNext ==
  Searches \subseteq SearchCriteria /\ CacheInv /\ [Next]_vars => CacheInv'
<1> SUFFICES ASSUME Searches \subseteq SearchCriteria, CacheInv, [Next]_vars
             PROVE  CacheInv'
  OBVIOUS
<1> USE DEF CacheInv
<1>m. ASSUME UNCHANGED memo PROVE MemoWhole'
  BY <1>m DEF MemoWhole, Whole
<1>1. ASSUME NEW r \in Requests, Ask(r) PROVE CacheInv'
  <2>1. Types' /\ Holds(r)'
    BY <1>1 DEF Ask, Types, Holds
  <2>2. \A q \in Requests : q # r => Holds(q)'
    BY <1>1, HoldsFrame DEF Ask, Types
  <2> QED
    BY <1>1, <1>m, <2>1, <2>2 DEF Ask
<1>2. ASSUME NEW r \in Requests, Remember(r) PROVE CacheInv'
  <2>1. Types'
    BY <1>2 DEF Remember, Types
  <2>2. Whole(memo[GetCacheKey(criteria[r])], criteria[r])
    BY <1>2 DEF Remember, MemoWhole, Types
  <2>3. Holds(r)'
    BY <1>2, <2>2 DEF Remember, Types, Holds, Whole
  <2>4. \A q \in Requests : q # r => Holds(q)'
    BY <1>2, HoldsFrame DEF Remember, Types
  <2> QED
    BY <1>2, <1>m, <2>1, <2>3, <2>4 DEF Remember
<1>3. ASSUME NEW r \in Requests, Gather(r) PROVE CacheInv'
  <2>1. Types' /\ Holds(r)'
    BY <1>3 DEF Gather, Types, Holds
  <2>2. \A q \in Requests : q # r => Holds(q)'
    BY <1>3, HoldsFrame DEF Gather, Types
  <2> QED
    BY <1>3, <1>m, <2>1, <2>2 DEF Gather
<1>4. ASSUME NEW r \in Requests, Memoise(r) PROVE CacheInv'
  <2>1. Types' /\ \A q \in Requests : Holds(q)'
    BY <1>4, HoldsFrame DEF Memoise, Types
  <2> QED
    BY <1>4, <2>1, MemoisedWhole DEF Memoise
<1>5. ASSUME NEW r \in Requests, Reply(r) PROVE CacheInv'
  <2>1. Types'
    BY <1>5 DEF Reply, Types
  <2>2. PICK ok \in SUBSET Providers :
          Providers \ Flaky \subseteq ok /\ answer[r] = Merged(ok, criteria[r])
    BY <1>5 DEF Reply, Holds, Whole
  <2>3. Holds(r)'
    BY <1>5, <2>2 DEF Reply, Types, Holds
  <2>4. \A q \in Requests : q # r => Holds(q)'
    BY <1>5, HoldsFrame DEF Reply, Types
  <2> QED
    BY <1>5, <1>m, <2>1, <2>3, <2>4 DEF Reply
<1>6. ASSUME NEW r \in Requests, Fail(r) PROVE CacheInv'
  <2>1. Types' /\ Holds(r)'
    BY <1>6 DEF Fail, Types, Holds
  <2>2. \A q \in Requests : q # r => Holds(q)'
    BY <1>6, HoldsFrame DEF Fail, Types
  <2> QED
    BY <1>6, <1>m, <2>1, <2>2, MemoisedWhole DEF Fail
<1>7. ASSUME NEW lost \in SUBSET Requests, Lose(lost) PROVE CacheInv'
  <2>1. Types'
    BY <1>7 DEF Lose, Types
  <2>2. ASSUME NEW q \in Requests PROVE Holds(q)'
    <3>1. CASE q \in lost
      BY <1>7, <3>1 DEF Lose, Holds
    <3>2. CASE q \notin lost
      BY <1>7, <3>2, HoldsFrame DEF Lose
    <3> QED
      BY <3>1, <3>2
  <2> QED
    BY <1>7, <1>m, <2>1, <2>2 DEF Lose
<1>8. ASSUME NEW expired \in SUBSET Keys, Forget(expired) PROVE CacheInv'
  <2>1. Types' /\ \A q \in Requests : Holds(q)'
    BY <1>8, HoldsFrame DEF Forget, Types
  <2>2. MemoWhole'
    BY <1>8 DEF Forget, MemoWhole, Whole
  <2> QED
    BY <2>1, <2>2
<1>9. CASE UNCHANGED vars
  <2>1. Types' /\ \A q \in Requests : Holds(q)'
    BY <1>9, HoldsFrame DEF vars, Types
  <2> QED
    BY <1>9, <1>m, <2>1 DEF vars
<1> QED
  BY <1>1, <1>2, <1>3, <1>4, <1>5, <1>6, <1>7, <1>8, <1>9 DEF Next

\* Whoever filled the memo, and with whatever filter, a request that is answered
\* gets the filtered flights of all but flaky providers for its own criteria.
THEOREM CacheAnswersWhole ==
  Searches \subseteq SearchCriteria => (Spec => []RepliesWhole)
<1> SUFFICES ASSUME Searches \subseteq SearchCriteria
             PROVE  Spec => []RepliesWhole
  OBVIOUS
<1>1. CacheInv /\ [Next]_vars => CacheInv'
  BY CacheNext
<1>2. CacheInv => RepliesWhole
  BY DEF CacheInv, Holds, RepliesWhole
<1> QED
  BY <1>1, <1>2, CacheInit, PTL DEF Spec
=============================================================================
