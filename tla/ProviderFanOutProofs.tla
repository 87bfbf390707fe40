------------------------ MODULE ProviderFanOutProofs ------------------------
(***************************************************************************)
(* Theorems about ProviderFanOut for every finite set of providers,        *)
(* checked by TLAPS.                                                       *)
(***************************************************************************)
EXTENDS ProviderFanOut, FiniteSetTheorems, TLAPS

\* Goroutines that have not called wg.Done, and those that have not sent.
Running == {p \in Providers : goroutine[p] # "exit"}
Unsent == {p \in Providers : goroutine[p] \in {"search", "send"}}

Types ==
  /\ req \in SearchCriteria
  /\ goroutine \in [Providers -> GoroutineState]
  /\ outcome \in [Providers -> {"pending", "ok", "err"}]
  /\ results \in Seq(Providers)
  /\ closed \in BOOLEAN
  /\ returned \in BOOLEAN

\* The WaitGroup counts the running goroutines, so it is zero, and the channel
\* closed, only after the last send.
Counted ==
  /\ wg = Cardinality(Running)
  /\ closed => wg = 0

\* Answers are buffered once each, after they were sent, and with those still
\* to come they fit in the channel.
Buffers ==
  /\ \A p \in Providers : goroutine[p] # "search" => outcome[p] # "pending"
  /\ \A i \in 1..Len(results) : results[i] \in Sent
  /\ \A i, j \in 1..Len(results) : results[i] = results[j] => i = j
  /\ Len(results) + Cardinality(Unsent) <= Cardinality(Providers)

\* The caller has merged exactly what it has received.
Tallied ==
  /\ numberOfFailedProviders = Cardinality(Failed(Received))
  /\ allFlights = Merged(Succeeded(Received), req)

FanOutInv ==
  /\ Types
  /\ Counted
  /\ Buffers
  /\ Tallied
  /\ returned => closed /\ results = <<>>

-----------------------------------------------------------------------------
LEMMA MergedFlights ==
  \A ok \in SUBSET Providers : \A c : Merged(ok, c) \in SUBSET Flight
BY CatalogAssumption DEF Merged, SearchResult

LEMMA MergedAdd ==
  ASSUME NEW ok, NEW p, NEW c
  PROVE  Merged(ok \cup {p}, c) = Merged(ok, c) \cup SearchResult(p, c)
BY DEF Merged

\* Every set of providers is finite and no larger than all of them.
LEMMA ProviderSets ==
  ASSUME NEW S \in SUBSET Providers
  PROVE  /\ IsFiniteSet(S)
         /\ Cardinality(S) \in Nat
         /\ Cardinality(S) <= Cardinality(Providers)
         /\ Cardinality(Providers) \in Nat
BY CatalogAssumption, FS_Subset, FS_CardinalityType

LEMMA AddProvider ==
  ASSUME NEW S \in SUBSET Providers, NEW p \in Providers, p \notin S
  PROVE  Cardinality(S \cup {p}) = Cardinality(S) + 1
BY ProviderSets, FS_AddElement

LEMMA RemoveProvider ==
  ASSUME NEW S \in SUBSET Providers, NEW p \in S
  PROVE  Cardinality(S \ {p}) = Cardinality(S) - 1
BY ProviderSets, FS_RemoveElement

LEMMA NoProviders ==
  ASSUME NEW S \in SUBSET Providers
  PROVE  Cardinality(S) = 0 <=> S = {}
BY ProviderSets, FS_EmptySet

-----------------------------------------------------------------------------
LEMMA FanOutInit == Init => FanOutInv
<1> SUFFICES ASSUME Init PROVE FanOutInv
  OBVIOUS
<1>1. Types
  <2>1. <<>> \in Seq(Providers)
    OBVIOUS
  <2> QED
    BY <2>1 DEF Init, Types, GoroutineState
<1>2. Running = Providers /\ Unsent = Providers /\ Received = {}
  BY DEF Init, Running, Unsent, Received, Sent, Buffered
<1>3. Counted
  BY <1>2 DEF Init, Counted, WaitGroupSize
<1>4. Buffers
  BY <1>2, ProviderSets DEF Init, Buffers
<1>5. Failed(Received) = {} /\ Succeeded(Received) = {}
  BY <1>2 DEF Failed, Succeeded
<1>6. Tallied
  BY <1>5, FS_EmptySet DEF Init, Tallied, Merged
<1> QED
  BY <1>1, <1>3, <1>4, <1>6 DEF Init, FanOutInv

\* Sent, Running and the rest depend on these variables only.
LEMMA TalliedUnchanged ==
  ASSUME Tallied, UNCHANGED <<req, allFlights, numberOfFailedProviders>>,
         Received' = Received,
         \A p \in Received : outcome'[p] = outcome[p]
  PROVE  Tallied'
<1>1. Failed(Received)' = Failed(Received)
  BY DEF Failed
<1>2. Succeeded(Received)' = Succeeded(Received)
  BY DEF Succeeded
<1> QED
  BY <1>1, <1>2 DEF Tallied, Merged, SearchResult

LEMMA FanOutNext == FanOutInv /\ [Next]_vars => FanOutInv'
<1> SUFFICES ASSUME FanOutInv, [Next]_vars PROVE FanOutInv'
  OBVIOUS
<1> USE DEF FanOutInv
<1>1. ASSUME NEW p \in Providers, Search(p) PROVE FanOutInv'
  <2>1. Types'
    BY <1>1 DEF Search, callerVars, Types, GoroutineState
  <2>2. Running' = Running /\ Unsent' = Unsent /\ Sent' = Sent
    BY <1>1 DEF Search, Running, Unsent, Sent, Types
  <2>3. Counted'
    BY <1>1, <2>2 DEF Search, Counted
  <2>4. Buffers'
    BY <1>1, <2>2 DEF Search, Buffers, Types
  <2>5. Received' = Received
    BY <1>1, <2>2 DEF Search, Received, Buffered
  <2>6. Tallied'
    BY <1>1, <2>5, TalliedUnchanged
    DEF Search, callerVars, Received, Sent, Types
  <2> QED
    BY <1>1, <2>1, <2>3, <2>4, <2>6 DEF Search, callerVars
<1>2. ASSUME NEW p \in Providers, Send(p) PROVE FanOutInv'
  <2>1. Types'
    BY <1>2 DEF Send, callerVars, Types, GoroutineState
  <2>2. /\ Running' = Running /\ Sent' = Sent \cup {p} /\ p \notin Sent
        /\ Unsent' = Unsent \ {p} /\ p \in Unsent
    BY <1>2 DEF Send, Running, Unsent, Sent, Types
  <2>3. Counted'
    BY <1>2, <2>2 DEF Send, Counted
  <2>4. /\ Len(results') = Len(results) + 1
        /\ results'[Len(results) + 1] = p
        /\ \A i \in 1..Len(results) : results'[i] = results[i]
    BY <1>2 DEF Send, Types
  <2>5. Cardinality(Unsent') = Cardinality(Unsent) - 1
    BY <2>2, RemoveProvider DEF Unsent
  <2>6. Len(results) \in Nat /\ Cardinality(Unsent) \in Nat
        /\ Cardinality(Providers) \in Nat
    BY ProviderSets DEF Unsent, Types
  <2>7. Buffers'
    <3>1. \A q \in Providers : (goroutine[q] # "search" => outcome[q] # "pending")'
      BY <1>2 DEF Send, Buffers, Types
    <3>2. \A i \in 1..Len(results') : results'[i] \in Sent'
      BY <2>2, <2>4, <2>6 DEF Buffers
    <3>3. \A i, j \in 1..Len(results') : results'[i] = results'[j] => i = j
      BY <2>2, <2>4, <2>6 DEF Buffers
    <3> QED
      BY <2>4, <2>5, <2>6, <3>1, <3>2, <3>3 DEF Buffers
  <2>8. Buffered' = Buffered \cup {p}
    BY <2>4, <2>6 DEF Buffered
  <2>9. Received' = Received
    BY <2>2, <2>8 DEF Received, Buffered, Buffers
  <2>10. Tallied'
    BY <1>2, <2>9, TalliedUnchanged DEF Send, callerVars
  <2> QED
    BY <1>2, <2>1, <2>3, <2>7, <2>10 DEF Send, callerVars
<1>3. ASSUME NEW p \in Providers, WgDone(p) PROVE FanOutInv'
  <2>1. Types'
    BY <1>3 DEF WgDone, callerVars, Types, GoroutineState
  <2>2. /\ Running' = Running \ {p} /\ p \in Running
        /\ Unsent' = Unsent /\ Sent' = Sent
    BY <1>3 DEF WgDone, Running, Unsent, Sent, Types
  <2>3. Cardinality(Running') = Cardinality(Running) - 1
        /\ Cardinality(Running) \in Nat /\ Cardinality(Running) # 0
    BY <2>2, RemoveProvider, ProviderSets, NoProviders DEF Running
  <2>4. Counted'
    BY <1>3, <2>3 DEF WgDone, Counted
  <2>5. Buffers'
    BY <1>3, <2>2 DEF WgDone, Buffers, Types
  <2>6. Received' = Received
    BY <1>3, <2>2 DEF WgDone, Received, Buffered
  <2>7. Tallied'
    BY <1>3, <2>6, TalliedUnchanged DEF WgDone, callerVars
  <2> QED
    BY <1>3, <2>1, <2>4, <2>5, <2>7 DEF WgDone, callerVars
<1>4. CASE CloseResults
  <2>1. Types' /\ Counted' /\ Buffers'
    BY <1>4
    DEF CloseResults, callerVars, Types, Counted, Buffers, Running, Sent, Unsent
  <2>2. Received' = Received
    BY <1>4 DEF CloseResults, Received, Buffered, Sent
  <2>3. Tallied'
    BY <1>4, <2>2, TalliedUnchanged DEF CloseResults, callerVars
  <2> QED
    BY <1>4, <2>1, <2>3 DEF CloseResults, callerVars
<1>5. CASE Receive
  <2> DEFINE p == Head(results)
  <2>1. /\ Len(results) \in Nat /\ Len(results) > 0
        /\ p = results[1] /\ p \in Providers
        /\ Len(results') = Len(results) - 1
        /\ \A i \in 1..Len(results') : results'[i] = results[i + 1]
        /\ results' \in Seq(Providers)
    BY <1>5 DEF Receive, Types
  <2>2. Types'
    BY <1>5, <2>1 DEF Receive, Types
  <2>3. Running' = Running /\ Unsent' = Unsent /\ Sent' = Sent
    BY <1>5 DEF Receive, Running, Unsent, Sent
  <2>4. Counted'
    BY <1>5, <2>3 DEF Receive, Counted
  <2>5. Cardinality(Unsent) \in Nat /\ Cardinality(Providers) \in Nat
    BY ProviderSets DEF Unsent
  <2>6. Buffers'
    <3>1. \A q \in Providers : (goroutine[q] # "search" => outcome[q] # "pending")'
      BY <1>5 DEF Receive, Buffers
    <3>2. \A i \in 1..Len(results') : results'[i] \in Sent'
      BY <2>1, <2>3 DEF Buffers
    <3>3. \A i, j \in 1..Len(results') : results'[i] = results'[j] => i = j
      BY <2>1 DEF Buffers
    <3> QED
      BY <2>1, <2>3, <2>5, <3>1, <3>2, <3>3 DEF Buffers
  <2>7. p \in Sent /\ p \in Buffered /\ Buffered' = Buffered \ {p}
    <3>1. p \in Sent /\ p \in Buffered
      BY <2>1 DEF Buffers, Buffered
    <3>2. \A q \in Buffered' : q \in Buffered /\ q # p
      BY <2>1 DEF Buffers, Buffered
    <3>3. ASSUME NEW q \in Buffered, q # p PROVE q \in Buffered'
      <4>1. PICK i \in 1..Len(results) : results[i] = q
        BY <3>3 DEF Buffered
      <4>2. i - 1 \in 1..Len(results') /\ results'[i - 1] = q
        BY <2>1, <3>3, <4>1
      <4> QED
        BY <4>2 DEF Buffered
    <3> QED
      BY <3>1, <3>2, <3>3
  <2>8. Received' = Received \cup {p} /\ p \notin Received
    BY <2>3, <2>7 DEF Received
  <2>9. outcome' = outcome /\ req' = req
    BY <1>5 DEF Receive
  <2>10. CASE /\ outcome[p] = "err"
              /\ numberOfFailedProviders' = numberOfFailedProviders + 1
              /\ UNCHANGED allFlights
    <3>1. /\ Failed(Received)' = Failed(Received) \cup {p}
          /\ p \notin Failed(Received)
          /\ Failed(Received) \in SUBSET Providers
      BY <2>8, <2>9, <2>10 DEF Failed, Received, Sent
    <3>2. Succeeded(Received)' = Succeeded(Received)
      BY <2>8, <2>9, <2>10 DEF Succeeded
    <3>3. Cardinality(Failed(Received)') = Cardinality(Failed(Received)) + 1
      BY <2>1, <3>1, AddProvider
    <3>4. Tallied'
      BY <2>9, <2>10, <3>2, <3>3 DEF Tallied, Merged, SearchResult
    <3> QED
      BY <1>5, <2>2, <2>4, <2>6, <3>4 DEF Receive
  <2>11. CASE /\ outcome[p] = "ok"
              /\ allFlights' = allFlights \cup SearchResult(p, req)
              /\ UNCHANGED numberOfFailedProviders
    <3>1. Failed(Received)' = Failed(Received)
      BY <2>8, <2>9, <2>11 DEF Failed
    <3>2. Succeeded(Received)' = Succeeded(Received) \cup {p}
      BY <2>8, <2>9, <2>11 DEF Succeeded
    <3>3. Merged(Succeeded(Received), req)'
            = Merged(Succeeded(Received), req) \cup SearchResult(p, req)
      BY <2>9, <3>2, MergedAdd DEF Merged, SearchResult
    <3>4. Tallied'
      BY <2>11, <3>1, <3>3 DEF Tallied
    <3> QED
      BY <1>5, <2>2, <2>4, <2>6, <3>4 DEF Receive
  <2> QED
    BY <1>5, <2>10, <2>11 DEF Receive
<1>6. CASE Return
  <2>1. Types' /\ Counted' /\ Buffers'
    BY <1>6 DEF Return, Types, Counted, Buffers, Running, Sent, Unsent
  <2>2. Received' = Received
    BY <1>6 DEF Return, Received, Buffered, Sent
  <2>3. Tallied'
    BY <1>6, <2>2, TalliedUnchanged DEF Return
  <2> QED
    BY <1>6, <2>1, <2>3 DEF Return
<1>7. CASE UNCHANGED vars
  <2>1. Types' /\ Counted' /\ Buffers'
    BY <1>7 DEF vars, callerVars, Types, Counted, Buffers, Running, Sent, Unsent
  <2>2. Received' = Received
    BY <1>7 DEF vars, callerVars, Received, Buffered, Sent
  <2>3. Tallied'
    BY <1>7, <2>2, TalliedUnchanged DEF vars, callerVars
  <2> QED
    BY <1>7, <2>1, <2>3 DEF vars, callerVars
<1> QED
  BY <1>1, <1>2, <1>3, <1>4, <1>5, <1>6, <1>7
  DEF Next, Goroutine, Terminated

-----------------------------------------------------------------------------
LEMMA FanOutTypes == FanOutInv => TypeOK
<1> SUFFICES ASSUME FanOutInv PROVE TypeOK
  OBVIOUS
<1>1. Cardinality(Running) \in 0..Cardinality(Providers)
  BY ProviderSets DEF Running
<1>2. /\ Failed(Received) \in SUBSET Providers
      /\ Succeeded(Received) \in SUBSET Providers
  BY DEF Failed, Succeeded, Received, Sent
<1>3. numberOfFailedProviders \in Nat /\ allFlights \in SUBSET Flight
  BY <1>2, ProviderSets, MergedFlights DEF FanOutInv, Tallied
<1> QED
  BY <1>1, <1>3 DEF FanOutInv, Types, Counted, TypeOK

LEMMA FanOutPanics == FanOutInv => NoPanic
<1> SUFFICES ASSUME FanOutInv PROVE NoPanic
  OBVIOUS
<1>1. wg \in Nat /\ (wg = 0 => Running = {})
  BY ProviderSets, NoProviders DEF FanOutInv, Counted, Running
<1> QED
  BY <1>1 DEF FanOutInv, Counted, Running, NoPanic

LEMMA FanOutRoom == FanOutInv => SendNeverBlocks
<1> SUFFICES ASSUME FanOutInv, NEW p \in Providers, goroutine[p] = "send"
             PROVE  Len(results) < ChannelCapacity
  BY DEF SendNeverBlocks
<1>1. Unsent \in SUBSET Providers /\ Unsent # {}
  BY DEF Unsent
<1>2. Cardinality(Unsent) \in Nat \ {0} /\ Cardinality(Providers) \in Nat
  BY <1>1, ProviderSets, NoProviders
<1>3. Len(results) \in Nat
  BY DEF FanOutInv, Types
<1> QED
  BY <1>2, <1>3 DEF FanOutInv, Buffers, ChannelCapacity

\* When the channel is closed and drained, every provider has been received.
LEMMA AllReceived ==
  ASSUME FanOutInv, closed, results = <<>>
  PROVE  /\ \A p \in Providers : outcome[p] \in {"ok", "err"}
         /\ numberOfFailedProviders = Cardinality(Failed(Providers))
         /\ allFlights = Merged(Succeeded(Providers), req)
<1>1. Running = {}
  BY ProviderSets, NoProviders DEF FanOutInv, Counted, Running
<1>2. \A p \in Providers : goroutine[p] = "exit"
  BY <1>1 DEF Running
<1>3. Received = Providers
  BY <1>2 DEF Received, Sent, Buffered
<1> QED
  BY <1>2, <1>3 DEF FanOutInv, Buffers, Tallied, Types

LEMMA FanOutAnswer == FanOutInv => AnswerComplete
BY AllReceived DEF FanOutInv, AnswerComplete

\* For every finite set of providers, whatever the order in which goroutines
\* run: types are kept, nothing panics, a goroutine with an answer can always
\* send it, and the returned answer accounts for every provider exactly once
\* (getFromProvider).
THEOREM FanOutTypeCorrect == Spec => []TypeOK
BY FanOutInit, FanOutNext, FanOutTypes, PTL DEF Spec

\* No goroutine of the fan-out panics, for every finite set of providers.
THEOREM FanOutNeverPanics == Spec => []NoPanic
BY FanOutInit, FanOutNext, FanOutPanics, PTL DEF Spec

\* The channel's capacity suffices, for every finite set of providers.
THEOREM FanOutNeverBlocks == Spec => []SendNeverBlocks
BY FanOutInit, FanOutNext, FanOutRoom, PTL DEF Spec

\* The answer is complete when it is returned, for every finite set of
\* providers.
THEOREM FanOutAnswersCompletely == Spec => []AnswerComplete
BY FanOutInit, FanOutNext, FanOutAnswer, PTL DEF Spec

-----------------------------------------------------------------------------
(* The fan-out ends: it can go on until it is finished, and not for ever   *)

LEMMA FanOutOpen == FanOutInv => NeverStuck
<1> SUFFICES ASSUME FanOutInv,
                    \A p \in Providers : goroutine[p] \notin {"search", "done"},
                    wg # 0 \/ closed,
                    returned \/ (results = <<>> /\ ~closed),
                    \A p \in Providers : goroutine[p] = "send"
                      => closed \/ ~(Len(results) < ChannelCapacity)
             PROVE  Finished
  BY DEF NeverStuck
<1>1. ASSUME NEW p \in Providers PROVE goroutine[p] = "exit"
  <2>1. ~closed => goroutine[p] # "send"
    BY FanOutRoom DEF SendNeverBlocks
  <2>2. closed => goroutine[p] # "send"
    BY FanOutPanics DEF NoPanic
  <2> QED
    BY <2>1, <2>2 DEF FanOutInv, Types, GoroutineState
<1>2. Running = {}
  BY <1>1 DEF Running
<1>3. wg = 0
  BY <1>2, NoProviders DEF FanOutInv, Counted, Running
<1> QED
  BY <1>1, <1>3 DEF Finished

\* Goroutines that have not searched.
Unsearched == {p \in Providers : goroutine[p] = "search"}

LEMMA StepCounts == FanOutInv /\ FanOutInv' /\ [Next]_vars => [Remaining' < Remaining]_vars
<1> SUFFICES ASSUME FanOutInv, FanOutInv', Next, vars' # vars
             PROVE  Remaining' < Remaining
  OBVIOUS
<1> DEFINE Rest == (IF closed THEN 0 ELSE 1) + (IF returned THEN 0 ELSE 1)
           s == Cardinality(Unsearched)
           u == Cardinality(Unsent)
           e == Cardinality(Running)
           n == Len(results)
<1>1. /\ Remaining = s + 2 * u + e + n + Rest
      /\ s \in Nat /\ u \in Nat /\ e \in Nat /\ n \in Nat /\ Rest \in Nat
  BY ProviderSets DEF Remaining, Unsearched, Unsent, Running, FanOutInv, Types
<1>2. /\ Remaining' = s' + 2 * u' + e' + n' + Rest'
      /\ s' \in Nat /\ u' \in Nat /\ e' \in Nat /\ n' \in Nat /\ Rest' \in Nat
  BY ProviderSets DEF Remaining, Unsearched, Unsent, Running, FanOutInv, Types
<1>3. ASSUME NEW p \in Providers, Search(p) PROVE Remaining' < Remaining
  <2>1. /\ Unsearched' = Unsearched \ {p} /\ p \in Unsearched
        /\ Unsent' = Unsent /\ Running' = Running
    BY <1>3 DEF Search, Unsearched, Unsent, Running, FanOutInv, Types
  <2>2. s' = s - 1 /\ u' = u /\ e' = e
    BY <2>1, RemoveProvider DEF Unsearched
  <2>3. n' = n /\ Rest' = Rest
    BY <1>3 DEF Search, callerVars
  <2> HIDE DEF s, u, e, n, Rest
  <2> QED
    BY <1>1, <1>2, <2>2, <2>3
<1>4. ASSUME NEW p \in Providers, Send(p) PROVE Remaining' < Remaining
  <2>1. /\ Unsent' = Unsent \ {p} /\ p \in Unsent
        /\ Unsearched' = Unsearched /\ Running' = Running
    BY <1>4 DEF Send, Unsearched, Unsent, Running, FanOutInv, Types
  <2>2. u' = u - 1 /\ s' = s /\ e' = e
    BY <2>1, RemoveProvider DEF Unsent
  <2>3. n' = n + 1 /\ Rest' = Rest
    BY <1>4 DEF Send, callerVars, FanOutInv, Types
  <2> HIDE DEF s, u, e, n, Rest
  <2> QED
    BY <1>1, <1>2, <2>2, <2>3
<1>5. ASSUME NEW p \in Providers, WgDone(p) PROVE Remaining' < Remaining
  <2>1. /\ Running' = Running \ {p} /\ p \in Running
        /\ Unsearched' = Unsearched /\ Unsent' = Unsent
    BY <1>5 DEF WgDone, Unsearched, Unsent, Running, FanOutInv, Types
  <2>2. e' = e - 1 /\ s' = s /\ u' = u
    BY <2>1, RemoveProvider DEF Running
  <2>3. n' = n /\ Rest' = Rest
    BY <1>5 DEF WgDone, callerVars
  <2> HIDE DEF s, u, e, n, Rest
  <2> QED
    BY <1>1, <1>2, <2>2, <2>3
<1>6. CASE CloseResults \/ Return
  <2>1. Unsearched' = Unsearched /\ Unsent' = Unsent /\ Running' = Running
    BY <1>6 DEF CloseResults, Return, Unsearched, Unsent, Running
  <2>2. s' = s /\ u' = u /\ e' = e
    BY <2>1
  <2>3. n' = n /\ Rest' = Rest - 1
    BY <1>6 DEF CloseResults, Return, callerVars
  <2> HIDE DEF s, u, e, n, Rest
  <2> QED
    BY <1>1, <1>2, <2>2, <2>3
<1>7. CASE Receive
  <2>1. Unsearched' = Unsearched /\ Unsent' = Unsent /\ Running' = Running
    BY <1>7 DEF Receive, Unsearched, Unsent, Running
  <2>2. s' = s /\ u' = u /\ e' = e
    BY <2>1
  <2>3. n' = n - 1 /\ Rest' = Rest
    BY <1>7 DEF Receive, FanOutInv, Types
  <2> HIDE DEF s, u, e, n, Rest
  <2> QED
    BY <1>1, <1>2, <2>2, <2>3
<1> QED
  BY <1>3, <1>4, <1>5, <1>6, <1>7 DEF Next, Goroutine, Terminated

\* For every finite set of providers a fan-out that is not finished can go on:
\* the caller, the closer and the goroutines never all wait for one another.
THEOREM FanOutNeverStuck == Spec => []NeverStuck
BY FanOutInit, FanOutNext, FanOutOpen, PTL DEF Spec

\* The bound is a number, and the one that make and wg.Add suggest at the start.
LEMMA RemainingBound ==
  /\ FanOutInv => Remaining \in Nat
  /\ Init => Remaining = 4 * Cardinality(Providers) + 2
<1>1. FanOutInv => Remaining \in Nat
  BY ProviderSets DEF Remaining, FanOutInv, Types
<1>2. ASSUME Init PROVE Remaining = 4 * Cardinality(Providers) + 2
  <2>1. /\ {p \in Providers : goroutine[p] = "search"} = Providers
        /\ {p \in Providers : goroutine[p] \in {"search", "send"}} = Providers
        /\ {p \in Providers : goroutine[p] # "exit"} = Providers
    BY <1>2 DEF Init
  <2>2. Len(results) = 0 /\ ~closed /\ ~returned
    BY <1>2 DEF Init
  <2> QED
    <3> DEFINE c == Cardinality(Providers)
    <3>1. c \in Nat /\ Remaining = c + 2 * c + c + 0 + 1 + 1
      BY <2>1, <2>2, ProviderSets DEF Remaining
    <3> HIDE DEF c
    <3>2. Remaining = 4 * c + 2
      BY <3>1
    <3> QED
      BY <3>2 DEF c
<1> QED
  BY <1>1, <1>2

\* getFromProvider takes at most 4n + 2 steps for n providers, in whatever order its
\* goroutines run: Remaining starts there, every step lowers it, and it is never
\* negative. With FanOutNeverStuck, every fan-out ends.
THEOREM FanOutStepsBounded ==
  Spec => /\ Remaining = 4 * Cardinality(Providers) + 2
          /\ [](Remaining \in Nat)
          /\ EveryStepCounts
BY FanOutInit, FanOutNext, StepCounts, RemainingBound, PTL DEF Spec, EveryStepCounts

-----------------------------------------------------------------------------
LEMMA GatherCatalog ==
  /\ \A ok, c : Gather!Merged(ok, c) = Merged(ok, c)
  /\ Gather!SearchCriteria = SearchCriteria
  /\ \A S : Gather!Cardinality(S) = Cardinality(S)
BY DEF Gather!Cardinality, Cardinality, Gather!Merged, Merged, Gather!SearchResult, SearchResult,
       Gather!SearchCriteria, SearchCriteria

LEMMA GatherInit == Init => Gather!Init
BY GatherCatalog DEF Init, Gather!Init

LEMMA GatherNext ==
  FanOutInv /\ [Next]_vars => [Gather!Next]_(Gather!vars)
<1> SUFFICES ASSUME FanOutInv, [Next]_vars
             PROVE  [Gather!Next]_(Gather!vars)
  OBVIOUS
<1>1. CASE Return
  <2> DEFINE ok == Succeeded(Providers)
  <2>1. closed /\ results = <<>> /\ ~returned
    BY <1>1 DEF Return
  <2>2. /\ Providers \ ok = Failed(Providers)
        /\ numberOfFailedProviders = Cardinality(Providers \ ok)
        /\ allFlights = Merged(ok, req)
    <3>1. Providers \ ok = Failed(Providers)
      BY <2>1, AllReceived DEF Succeeded, Failed
    <3> QED
      BY <2>1, <3>1, AllReceived
  <2>3. ok \in SUBSET Providers
    BY DEF Succeeded
  <2>4. PICK oks \in SUBSET Providers :
          /\ numberOfFailedProviders = Cardinality(Providers \ oks)
          /\ allFlights = Merged(oks, req)
    BY <2>2, <2>3
  <2>5. Gather!Gather(oks)
    BY <1>1, <2>4, GatherCatalog DEF Return, Gather!Gather
  <2> QED
    BY <2>5 DEF Gather!Next
<1>2. CASE Receive
  <2>1. ~returned /\ UNCHANGED <<req, returned>>
    BY <1>2 DEF Receive
  <2> QED
    BY <2>1 DEF Gather!vars
<1>3. ASSUME UNCHANGED <<req, callerVars>>
      PROVE  UNCHANGED Gather!vars
  BY <1>3 DEF callerVars, Gather!vars
<1>4. ASSUME NEW p \in Providers, Goroutine(p) PROVE UNCHANGED Gather!vars
  BY <1>3, <1>4 DEF Goroutine, Search, Send, WgDone
<1>5. CASE CloseResults
  BY <1>3, <1>5 DEF CloseResults
<1>6. CASE UNCHANGED vars
  BY <1>3, <1>6 DEF vars, callerVars
<1> QED
  BY <1>1, <1>2, <1>4, <1>5, <1>6 DEF Next, Terminated

\* For every finite set of providers the goroutines, the wait group and the
\* channel implement one atomic gathering of answers (the safety part of
\* ImplementsGather; that the call returns is left to the model checker).
THEOREM FanOutGathers == Spec => Gather!Init /\ [][Gather!Next]_(Gather!vars)
BY FanOutInit, FanOutNext, GatherInit, GatherNext, PTL DEF Spec
=============================================================================
