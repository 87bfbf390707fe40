--------------------------- MODULE ProviderFanOut ---------------------------
(***************************************************************************)
(* AggregatorService.getFromProvider: one goroutine per provider sends its *)
(* answer on a buffered channel, one goroutine waits for all of them and   *)
(* closes the channel, and the caller drains the channel until it is       *)
(* closed.                                                                 *)
(***************************************************************************)
EXTENDS FlightCatalog, Sequences

VARIABLES
  req,        \* the criteria the call was made with
  goroutine,  \* goroutine[p]: where the goroutine of provider p stands
  outcome,    \* outcome[p]: "pending", "ok" or "err", what p.Search returned
  wg,         \* counter of the WaitGroup
  results,    \* the channel: providers whose answer is buffered, oldest first
  closed,     \* has the channel been closed?
  allFlights, \* the list merged so far
  numberOfFailedProviders,
  returned    \* has getFromProvider returned?

vars == <<req, goroutine, outcome, wg, results, closed, allFlights,
          numberOfFailedProviders, returned>>

callerVars == <<allFlights, numberOfFailedProviders, returned>>

\* make(chan providerResult, len(providers))
ChannelCapacityOne == 1
ChannelCapacity == Cardinality(Providers)

\* wg.Add(len(providers)), before any goroutine starts
WaitGroupSizeShort == Cardinality(Providers) - 1
WaitGroupSize == Cardinality(Providers)

Init ==
  /\ req \in SearchCriteria
  /\ goroutine = [p \in Providers |-> "search"]
  /\ outcome = [p \in Providers |-> "pending"]
  /\ wg = WaitGroupSize
  /\ results = <<>>
  /\ closed = FALSE
  /\ allFlights = {}
  /\ numberOfFailedProviders = 0
  /\ returned = FALSE

-----------------------------------------------------------------------------
\* flights, err := p.Search(ctx, req)
SearchUntilOk(p) ==
  /\ goroutine[p] = "search"
  /\ \E o \in {"ok", "err"} :
       /\ outcome' = [outcome EXCEPT ![p] = o]
       /\ goroutine' =
            [goroutine EXCEPT ![p] = IF o = "ok" THEN "send" ELSE "search"]
  /\ UNCHANGED <<req, wg, results, closed, callerVars>>
Search(p) ==
  /\ goroutine[p] = "search"
  /\ \E o \in {"ok", "err"} : outcome' = [outcome EXCEPT ![p] = o]
  /\ goroutine' = [goroutine EXCEPT ![p] = "send"]
  /\ UNCHANGED <<req, wg, results, closed, callerVars>>

\* results <- providerResult{...}; it blocks while the buffer is full.
Send(p) ==
  /\ goroutine[p] = "send"
  /\ ~closed
  /\ Len(results) < ChannelCapacity
  /\ results' = Append(results, p)
  /\ goroutine' = [goroutine EXCEPT ![p] = "done"]
  /\ UNCHANGED <<req, outcome, wg, closed, callerVars>>

\* The deferred wg.Done(), then the goroutine is gone.
WgDoneOnlyOnSuccess(p) ==
  /\ goroutine[p] = "done"
  /\ wg' = IF outcome[p] = "ok" THEN wg - 1 ELSE wg
  /\ goroutine' = [goroutine EXCEPT ![p] = "exit"]
  /\ UNCHANGED <<req, outcome, results, closed, callerVars>>
WgDone(p) ==
  /\ goroutine[p] = "done"
  /\ wg' = wg - 1
  /\ goroutine' = [goroutine EXCEPT ![p] = "exit"]
  /\ UNCHANGED <<req, outcome, results, closed, callerVars>>

\* go func() { wg.Wait(); close(results) }()
CloseResults ==
  /\ wg = 0
  /\ ~closed
  /\ closed' = TRUE
  /\ UNCHANGED <<req, goroutine, outcome, wg, results, callerVars>>

\* One turn of "for result := range results".
ReceiveWithoutContinue ==
  /\ ~returned
  /\ results # <<>>
  /\ LET p == Head(results) IN
       /\ numberOfFailedProviders' =
            numberOfFailedProviders + (IF outcome[p] = "err" THEN 1 ELSE 0)
       /\ allFlights' = allFlights \cup SearchResult(p, req)
  /\ results' = Tail(results)
  /\ UNCHANGED <<req, goroutine, outcome, wg, closed, returned>>
Receive ==
  /\ ~returned
  /\ results # <<>>
  /\ LET p == Head(results) IN
       \/ /\ outcome[p] = "err"
          /\ numberOfFailedProviders' = numberOfFailedProviders + 1
          /\ UNCHANGED allFlights
       \/ /\ outcome[p] = "ok"
          /\ allFlights' = allFlights \cup SearchResult(p, req)
          /\ UNCHANGED numberOfFailedProviders
  /\ results' = Tail(results)
  /\ UNCHANGED <<req, goroutine, outcome, wg, closed, returned>>

\* The range loop ends on a closed and drained channel, and the call returns.
ReturnWhenDrained ==
  /\ ~returned
  /\ results = <<>>
  /\ returned' = TRUE
  /\ UNCHANGED <<req, goroutine, outcome, wg, results, closed, allFlights,
                 numberOfFailedProviders>>
Return ==
  /\ ~returned
  /\ closed
  /\ results = <<>>
  /\ returned' = TRUE
  /\ UNCHANGED <<req, goroutine, outcome, wg, results, closed, allFlights,
                 numberOfFailedProviders>>

\* The call has returned and every goroutine is gone.
Finished == returned /\ \A p \in Providers : goroutine[p] = "exit"
Terminated == Finished /\ UNCHANGED vars

Goroutine(p) == Search(p) \/ Send(p) \/ WgDone(p)

Next ==
  \/ \E p \in Providers : Goroutine(p)
  \/ CloseResults
  \/ Receive
  \/ Return
  \/ Terminated

Spec == Init /\ [][Next]_vars

\* A goroutine that can run is eventually run; Search ends because every
\* provider bounds it with its own context timeout.
FairSpec ==
  /\ Spec
  /\ \A p \in Providers : WF_vars(Goroutine(p))
  /\ WF_vars(CloseResults)
  /\ WF_vars(Receive)
  /\ WF_vars(Return)

-----------------------------------------------------------------------------
GoroutineState == {"search", "send", "done", "exit"}

\* Every variable keeps its type; the WaitGroup never leaves the range it was
\* given by wg.Add (getFromProvider).
TypeOK ==
  /\ req \in SearchCriteria
  /\ goroutine \in [Providers -> GoroutineState]
  /\ outcome \in [Providers -> {"pending", "ok", "err"}]
  /\ wg \in 0..Cardinality(Providers)
  /\ results \in Seq(Providers)
  /\ closed \in BOOLEAN
  /\ allFlights \in SUBSET Flight
  /\ numberOfFailedProviders \in Nat
  /\ returned \in BOOLEAN

Buffered == {results[i] : i \in 1..Len(results)}
Sent == {p \in Providers : goroutine[p] \in {"done", "exit"}}
Received == Sent \ Buffered
Succeeded(S) == {p \in S : outcome[p] = "ok"}
Failed(S) == {p \in S : outcome[p] = "err"}

\* No goroutine can send on a closed channel or take the WaitGroup below zero:
\* both are panics, in a goroutine no recover covers, and would end the process
\* (getFromProvider's wg, send and close).
NoPanic ==
  /\ wg >= 0
  /\ \A p \in Providers : goroutine[p] \in {"search", "send"} => ~closed

\* A goroutine with an answer finds room in the channel whatever the caller
\* does, so a slow or departed caller never leaves a goroutine blocked (the
\* channel's capacity is the number of providers).
SendNeverBlocks ==
  \A p \in Providers : goroutine[p] = "send" => Len(results) < ChannelCapacity

\* When the call returns, every provider has been counted once: the failures
\* are exactly those that failed and the list is exactly what the others
\* answered, in whatever order the answers came (the range loop).
AnswerComplete ==
  returned =>
    /\ \A p \in Providers : outcome[p] # "pending"
    /\ numberOfFailedProviders = Cardinality(Failed(Providers))
    /\ allFlights = Merged(Succeeded(Providers), req)

\* What is not finished goes on: the channel has room for whoever sends, and the
\* caller, who waits for the close, the closer, who waits for the last Done, and
\* the goroutines never wait for one another in a circle.
NeverStuck ==
  \/ Finished
  \/ \E p \in Providers : goroutine[p] \in {"search", "done"}
  \/ \E p \in Providers :
       goroutine[p] = "send" /\ ~closed /\ Len(results) < ChannelCapacity
  \/ wg = 0 /\ ~closed
  \/ ~returned /\ (results # <<>> \/ closed)

\* An upper bound of the steps that are left: a search, a send with its receive,
\* and a Done for each goroutine, the close and the return.
Remaining ==
  Cardinality({p \in Providers : goroutine[p] = "search"})
    + 2 * Cardinality({p \in Providers : goroutine[p] \in {"search", "send"}})
    + Cardinality({p \in Providers : goroutine[p] # "exit"})
    + Len(results) + (IF closed THEN 0 ELSE 1) + (IF returned THEN 0 ELSE 1)

\* Nothing is searched, sent or received twice: every step brings the fan-out
\* nearer to its end, in whatever order the goroutines run.
EveryStepCounts == [][Remaining' < Remaining]_vars

\* The call returns and leaves no goroutine behind.
Terminates == <>Finished

\* getFromProvider implements its abstract description: the whole fan-out is
\* one atomic answer taken when the call returns.
Gather == INSTANCE ProviderGather WITH
  flights <- IF returned THEN allFlights ELSE {},
  failed  <- IF returned THEN numberOfFailedProviders ELSE 0

ImplementsGather == Gather!Spec
=============================================================================
