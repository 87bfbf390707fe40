# TLA+ models of the flight search aggregation service

Modules, model-checking configurations and machine-checked proofs for the Go
service in `src/`. The service answers `POST /api/v1/flights/search`: it looks a
criteria up in Redis, asks four simulated airline providers when it misses,
caches the merged list under a lock, and filters, ranks and sorts the answer.

    tlc -config MCSearchFlights.cfg MCSearchFlights    # one run
    tlapm SearchFlightsProofs.tla                      # one proof module

## The system

| Part | State | Operations | Interacts with |
|---|---|---|---|
| Aggregator service (`internal/app/service`) | none across requests; per request the list, metadata, `cacheHit`, `acquired` | `SearchFlights`, `getFromProvider` | cache, providers, pipeline |
| Flight cache (`internal/pkg/flight/cache.go`) | in Redis: a lock key, a flights key and a metadata key per criteria, each with a time to live | `AcquireLock`, `ReleaseLock`, `SetFlight`, `GetFlight`, `GetMetadata` | all instances share it |
| Providers (`internal/pkg/flightprovider/*`) | in Redis: one rate limiter per provider; per search the attempt and its timers | `Search`, `flightToDTO`, criteria filter | limiter, clock, caller's context |
| Pipeline (`internal/pkg/flight/{filter,ranker,sorter}.go`) | the list, changed in place | `FilterFlights`, `RankFlights`, `SortFlights` | aggregator |
| Criteria (`internal/app/dto`) | none | `Bind`, `Validate` | transport |
| HTTP transport, endpoints, router (`internal/pkg/transport`, `internal/app/transport`, `internal/app/endpoints`) | per request its error, its reply and its connection | route, decode, search, encode, encode an error, recover | net/http, aggregator |
| Server lifecycle (`cmd/main.go`) | the process, its root context, its wait group | start, signal, shutdown | everything |
| Config, logger, factory wiring | set once at start | — | — |

Many handlers run at once, in several processes, and meet only in Redis. Inside
a handler, one goroutine per provider meets the handler in a channel and a wait
group. What makes this hard:

- the order of Redis commands of requests for the same key: lookup, lock, two
  separate writes, an unconditional delete of the lock;
- one context for everything: when the client leaves, providers fail, commands
  are not sent, and the deferred release is not sent either;
- a process that ends between commands, a command or a reply that is lost, a
  non-idempotent command that the Redis client sends again;
- retries, backoff and a timeout that race in one `select`, and a limiter shared
  by all instances;
- an unstable sort and a score that depends on the whole list;
- a reply that several hands may write, for an error wrapped on its way, to a client
  that may be gone.

What makes each part correct: an answer is made of providers' answers to this very
criteria; the cache never holds a truncated list; a lock never outlives its use
and never disables its key; every request ends; the fan-out never panics, never
leaks a goroutine and counts every provider once; a search outlives its context by
no more than a command already sent; the limiter neither exceeds nor wastes its quota;
the pipeline loses and invents nothing and never prefers a dominated flight; every client that waits is
answered, with the status of what became of its request.

## The modules

| Module | Models | How it corresponds |
|---|---|---|
| `FlightCatalog` | flights, criteria, cache keys, what a provider answers, merging, metadata | pure definitions the next four share |
| `ProviderFanOut` | `getFromProvider` | `goroutine`, `wg`, `results`, `closed`; one action per goroutine step, close and turn of the range loop |
| `ProviderGather` | what `getFromProvider` promises: one atomic answer | refined by `ProviderFanOut` |
| `SearchFlights` | `SearchFlights` over `FlightCache`, several requests and processes | `pc[r]` is the next Redis command (or the fan-out, one step by the refinement above); `lock`, `flightsTTL`, `metadataTTL` are Redis' times to live (-2 no key, -1 no expiration) |
| `ReadThroughCache` | what searching promises: answer from a memo or from one's own gathering; only a whole gathering may be memoised | refined by `SearchFlights` |
| `ProviderSearch` | `Search` of one provider, several searches, the shared limiter | `step[s]` is the statement the goroutine waits in; time in ticks |
| `ProviderAnswers` | the types of the four APIs, `flightToDTO` of each, the providers' filter by criteria | pure definitions; a raw flight has the fields of the provider's own types |
| `FlightPipeline` | `Validate`, then the answers, `FilterFlights`, `RankFlights`, `SortFlights`, the response | one action per call, `stage` is the program counter |
| `ServerLifecycle` | `runApp`, `startHTTPServer`, `ListenAndServe`, handlers | one variable per goroutine, `waitGroup`, `ctxDone` |
| `RequestHandling` | the router, its middlewares, decoder, endpoint, encoders and recovery, with `ServerLifecycle` around them | extends `ServerLifecycle`: `place[r]` is where the handler of `r` is, and its `Deliver` is a `Finish` there |
| `LeastNumbers` | — | induction with a set in the place of a predicate, and the existence of functions defined by recursion, both from the least number of a set; used by two proof modules |
| `*Proofs` | — | theorems about the module of the same name |
| `MC*` | — | constants for TLC |

Notes on faithfulness.

- *`SearchFlights`.* A lookup that fails is a miss; the metadata lookup runs on a miss
  as well; the fan-out comes before the lock; the release is deferred after the
  error check and for requests that did not acquire; `FlightLockTimeout` is zero
  because `NewAggregatorService` drops its argument. A fault of kind `"setnx"` is
  a lost command, a lost reply, or a lost reply after which the client's retry
  finds its own key. `Crash` also stands for a shutdown, which does not wait for
  requests in progress: `Shutdown` is given the context that was just cancelled.
- *`ProviderSearch`.* The four `Search` functions are the same loop with another delay
  and failure rate, so a profile is what is left of each; the lines of the
  loop are mapped to AirAsia's, the only one whose calls can fail. Time passes
  only when no goroutine can go on, as in a process that is not starved. Durations
  are rounded up to ticks. The limiter's script is the generic cell rate algorithm
  of `redis_rate`. Its command is three steps, sent, executed and answered, and takes
  time: `main.go:104` makes the client without `ContextTimeoutEnabled`, so that a command
  once sent ends by the client's own timeouts (`RedisTimeoutMs`: those to connect, to
  write and to read together) and not with the context. Between commands, where it
  backs off and sends a lost one again, or sends the script Redis did not know, the
  client does look at the context. A command that Redis runs after the client gave
  it up is one whose reply is lost. Reading and decoding the file take no time.
- *`ProviderAnswers`.* A time is its local minutes and the offset of its zone, so that its
  date, clock and timestamp are what `Format` and `Unix` give; a duration text is
  the numbers before its `h` and `m`, of which `Sscanf` reads the first as hours.
  A Batik Air flight with an unreadable time leaves `ZeroFlight` in the list, a
  Lion Air one `ZeroTime` in the flight, which is answered with it if only its arrival
  is unreadable. AirAsia's hours are floats: `TruncatedMinutes` is what `int(hours * 60)`
  gives for every number of hundredths below 30 hours, one minute less than the exact
  product for eight of them, such as 2.05. JSON decoding fails as a whole for the
  other two and is a failed search. A list a loop builds by `append` is `Keep` of the
  positions it keeps: the set of the one list that has their elements in order, which
  the provers can reason about as they cannot about `SelectSeq`.
- *`ServerLifecycle`.* `ListenAndServe` is three steps, as in `net/http`: it looks whether a
  shutdown has begun, opens its socket, and makes it known to `Shutdown` under a mutex
  or, if one has begun, closes it. `Shutdown` is three as well: it says so, closes the
  sockets it knows, and waits for `Serve` to return and then for its context or for idle
  connections, whichever is first; the context is already done. A socket opened
  between the first and the last step of `ListenAndServe` may thus be open when `runApp`
  logs `All service closed...`; what is never so is that a request begins then. A
  connection may be in the hands of `Serve` when its socket is closed. A request is a
  connection: that a later request comes over one kept alive is left out. A
  signal before `Notify` kills the process. A panic of the validator's
  initialisation is left out: nothing outside the program can cause it.
- *`RequestHandling`.* The middlewares a request enters follow from the order of
  `Chain`: CORS answers a preflight and passes it to nothing behind it, and
  `/health` has none. The body is read as JSON whatever its header says, because
  `SetContentType` is in the chain; no body at all leaves empty criteria, which
  `Validate` refuses, and one that cannot be read is an error without a status.
  An error is what `errors.As` finds in it and how often it was wrapped. The first
  `WriteHeader` counts. A panic is possible wherever a handler runs the service's
  code; `uuid.New` cannot panic with the Go version of `go.mod`. `LoseConnection` is
  the client or `WriteTimeout`, of which no handler learns but through a
  search that fails. `ReplyTellsOutcome` and `RepliesIdentified` are about what was received.
- *`FlightPipeline`.* The list is what the providers answered to the same criteria, now
  or when it was cached, which `AnswerFaithful` of `SearchFlights` establishes. Scores are
  exact: the sum is kept over the common denominator of the four ranges, weights in twentieths. `sort.Slice` is a choice among all
  ordered permutations. `FilterFlights` of `FlightCatalog`, which `SearchFlights`
  uses, keeps only the airline option of the one here.

## The runs

| Run | Asks | Bounds |
|---|---|---|
| `fan_out` | no panic, no blocked goroutine, no state it is stuck in, complete answer, a bounded number of steps, termination, refinement | 3 providers, each answering or failing, in every order |
| `search_two_keys` | answers are for the request's own criteria; a held lock has a releaser | 2 requests, 2 keys, with and without filter, one lookup or write fails |
| `search_faults` | types, no truncated list, whole answers with the counts of one search, refinement; no request waits for another, requests end, an asked-for key is cached again and again | 2 requests on 2 instances, 1 key, 1 fault of any kind, under fairness |
| `provider_search` | types, lateness, retries fit the timeout, limiter's upper bound, limiter's fairness, progress of every search | 2 searches, every provider, the shipped 3 retries, a timeout of 6.5 s, 2 tokens a second, commands of 2 s sent again once, ticks of 500 ms, 2 faults |
| `pipeline` | types, nothing lost or invented from the raw answers on, order, dominance, the order of arrival does not matter | at most 3 of 8 raw flights of all providers, 81 criteria |
| `lifecycle` | no request begins after the shutdown, a signal ends the process and nothing is stuck on the way; each reply tells its outcome and has its id; no handler ends in silence or is stuck, every waiting client is answered | 2 requests of any of 8 kinds |
| `single_saver`, `lock_expires`, `metadata_tracked`, `durations`, `windows`, `graceful_shutdown` | a documented claim each that the program does not keep | as small as shows it |

Why the bounds suffice. Two requests are what the lock protocol's races need:
each property about the lock or the cache relates one request to one other, and a
slot of `Requests` serves one search after another, so a third search (as in
`single_saver`) follows in the first slot. One fault is what each recovery is from;
that safety needs no bound on faults is proved below. The cache lives two ticks in `search_faults`,
so that the two keys of an entry, written at different times, expire apart. Two searches,
each of which may begin anew within a second and whose commands may be lost after
they were executed, exceed a limit of two. The retries are those shipped. The timeout is
not the shipped 15 s but what these retries and one too many need, so that it can pass
while a command is under way, sent again after three failed calls; that the retries fit
into 15 s is proved, for every provider (`ShippedTimeoutCovers`). A tick of half a second is the emission interval of the limiter, and
rounds every delay and backoff up, never down. A lost command and the client's leaving
make two faults.
Three flights are needed for a list whose scores depend on a flight that is
neither of two compared; windows with one end, with an unreadable end, and with an
end in the middle of an hour are among the criteria; the eight raw ones have an unreadable text of each kind
the code survives, an unknown zone, a departure just after midnight, a duration
without hours and one in fractions of an hour. Handlers share nothing but the process,
so two of them, one of which may be lost while the other is answered, are enough; the
kinds of request take every branch of the decoder. The proofs below
remove the bounds of every module.

Bounds are named: `MaxFaults` in both machines, `MaxFlights` in `FlightPipeline`,
`Requests` in `ServerLifecycle`, `Sent` in `RequestHandling`;
`CacheExpiration`, `TimeoutMs`, `RateLimitRPS`, `RedisTimeoutMs` and `RedisMaxRetries`
are the program's own limits made small.

## Fairness

`SearchFlights!FairSpec` is weak fairness of every request's next step (`StepFair`) and of time.
A handler is a goroutine the runtime schedules; a Redis command answers or fails
by the client's timeouts; the fan-out ends because it terminates
(`Terminates` of `ProviderFanOut`) once every `Search` does, and every `Search` is
bounded by its context and one Redis command (`LateByOneCommand` of `ProviderSearch`). There is no
fairness of `Arrive`, `Cancel` or `Crash`: nobody has to ask, leave or crash.
`CacheRefills` therefore assumes in its own premise that the key keeps being asked
for. `ProviderFanOut!FairSpec` is weak fairness of each goroutine, the closer and
the receiving caller. `ServerLifecycle!FairSpec` is weak fairness of `runApp`, of
`startHTTPServer` and of `ListenAndServe`, and not of handlers: the process ends
even if they never do. `HandlingFairSpec` keeps that. `EveryRequestAnswered` has the
fairness of handlers in its own premise (`HandlersScheduled`): a handler is a goroutine
the runtime schedules, and its search returns by `RequestsTerminate` of `SearchFlights`.
What is fair there is `Serve`, a handler without its panics, and `Deliver`: nobody
has to panic for a client to be answered, and one that may is answered all the same.

## What is proved

`SearchFlightsProofs`, for all providers, criteria, requests, instances, cache
expirations and faults (assumptions `CatalogAssumption`, `SearchAssumption`):

- `TypeCorrect`: `Spec => []TypeOK`, by itself inductive: what `SetFlight` writes expires,
  both keys within the expiration of the cache.
- `LockReleased`: `Spec => []LockNeverLeaks`. `LockNeverLeaks` is not inductive: the
  release might be skipped if the request's context were cancelled, and a request
  might hold at `"process"` after a hit. `LockInv` adds that nobody is cancelled
  when no fault can cancel, that a request past the lock came through a miss, and
  that each lock in Redis has such a request.
- `CacheNeverTruncated`: `Spec => []CacheComplete`, and `AnswersFaithful`:
  `Spec => []AnswerFaithful`. `SearchInv` strengthens both: for every request the
  local list between the fan-out and the writes is the merge of some providers'
  answers, and complete as long as the context lives, which is the only
  time it can be written or answered; a list read from the cache is complete for the
  request's key, hence for its criteria. An answer therefore has the flights of all
  but flaky providers, and not only of some.
- `MetadataAlwaysHonest`: `Spec => []MetadataHonest`. The two keys of an entry are
  written one after the other, expire apart and may be lost one by one; `MetadataInv` says
  that nevertheless the counts in Redis and those of a request past its
  fan-out are those of one search of all providers, or none. They may be those of an
  older search than the flights: that is what `metadata_tracked` finds.
- `ReadThroughRefined`: `Spec => ImplementsReadThrough`, with `SearchInv`: every step maps
  to a step of `ReadThroughCache` or leaves its variables unchanged.
- `FetchIsGather`: what a request does between its lookup and its lock is a step of
  `ProviderGather` on its own list and metadata. `FanOutGathers` below says that the
  goroutines of `ProviderFanOut` do just that, so that the two machines compose.
- `EveryRequestEnds`: `FairSpec /\ []NeverWaits => RequestsTerminate`. The places of a
  request are a chain of eight leads-to steps, each one weak fairness; that the
  step is enabled at each place is `NeverWaits`, which TLC checks.

`ReadThroughCacheProofs`: `CacheAnswersWhole`, `Spec => []RepliesWhole` for criteria
of the catalogue: in the abstract cache too an answer is whole and for its own criteria,
though the memo was left by another request with another filter. `CacheInv` needs
that a memo is whole for every criteria of its key, which holds because what the key
leaves out, the airline, is what the providers' answers do not depend on.

`ProviderFanOutProofs`, for every finite set of providers: `FanOutTypeCorrect`,
`FanOutNeverPanics`, `FanOutNeverBlocks`, `FanOutAnswersCompletely` and
`FanOutGathers` (the safety part of the refinement). Their common invariant
`FanOutInv` says that the wait group counts the goroutines that have not exited,
that the buffer holds each answer once and only of goroutines that have sent, and
that the list and the failure count are those of the answers received so far.
`FanOutNeverStuck` says that, until the call has returned and its goroutines are gone,
somebody can take a step; `FanOutStepsBounded` that each step lowers a natural number that is
`4n + 2` at the start for `n` providers. Together they are the termination of the
fan-out, short of the temporal induction that would conclude `Terminates` from them.

`ServerLifecycleProofs`, for any set of requests: `LifecycleTypeCorrect` and
`NothingAcceptedAfterShutdown`, an action property.
`ClosedInv` adds that the wait group is zero exactly when `startHTTPServer` has
returned, and that `Serve` then has neither a socket that `Shutdown` knows nor a connection
in hand; it gets neither later, `inShutdown` being set for good.
`SignalEndsProcess`: `FairSpec /\ []ShutdownNeverStuck => ExitsAfterSignal`, a chain through the
places of `runApp`, `startHTTPServer` and `ListenAndServe` (`ShutdownForward`: none of the
others moves them back), whatever the handlers do.

`FlightPipelineProofs`, for any offers the four APIs may answer, lists of any length
and any criteria (`AnswersAssumption`, `PipelineAssumption`): `TypesHold`, `AnswerIsAsked`
(what is in a window to the minute is in it to the hour: `WindowOfHours`),
`AnswerIsOrdered`, `RankingIsFair`, `OrderOfArrivalIrrelevant`. `PipelineInv` has five
parts. `Traced` is the heart: a bijection from the positions of the list to the
offers that survived the filters so far; `Find` and `Filter` restrict it, `Rank` and `Sort`
compose it with a permutation. `Scored` says that the scores are those of this very
list, which the sort must not change; that they are normalised, and greater for
a dominated flight, is the lemma `ScoresNormalisedAndFair`. That the sum of a Batik Air
flight's durations is a number is `ActualDurationTyped`, by recursion over its
connections. `OrderOfArrivalIrrelevant` compares the list with every permutation of
it: a loop keeps the same flights of both (`KeptPermuted`), the scores depend on the
set of flights only (`RanksPermuted`), and the sort forgets the order it is given
(`SortingsForget`), so that the answers that may come of either are the same.

`ProviderSearchProofs`, for any searches, limit, timeout, retries and grain
(`ProviderAssumption`; `GrainAssumption`: a second is a whole number of emission
intervals):
`SearchTypeCorrect`, `SearchLateByOneCommand`, `LimiterGrantsBounded`,
`LimiterRefusesOnlyAtLimit`. `LateInv` says that a search is not late where it can
still learn of its context, and that its lateness and what is left of a command under
way are at most one command together. `LimiterInv` relates the one number the
limiter stores to the ages of the last tokens: the theoretical arrival time lies no
further ahead than the tokens granted since then account for, so that a burst and a
refill bound the grants, and a refusal needs a full quota within the last second.
`RetriesAlwaysFit`: if the timeout is longer than all delays and backoffs together and
a tick for each that is rounded up (`TimeoutCoversRetries`), then `Spec => []RetriesFitTimeout`;
`ShippedTimeoutCovers`: with 15 seconds, three retries and ticks of up to 500 ms it is. `RetriesInv`
says that what is left of the timeout covers what may still be ahead, a
difference of powers of two (`Doubling`: `PowerOfTwo`, the code's shift, is 1 at
0 and doubles, by `RecursionExists`). `SearchesAlwaysAdvance`: every step of a search and
every tick lowers the natural number `Remaining(s)`, which is never above the ticks of the timeout
and of all commands it may send, two steps for each retry, three for each command sent
again, and five (`MostRemaining`), and no other step raises it: a search ends after
boundedly many steps, with no assumption on scheduling.

`RequestHandlingProofs`, for any requests of any kinds (`SentAssumption`):
`HandlingImplementsLifecycle` (`HandlingSpec => Spec`, so that the theorems of
`ServerLifecycleProofs` hold of it), `HandlingTypeCorrect`, `RepliesTellOutcome`,
`RepliesAreIdentified`, `NoReplyIsSilent`. `Own(r)` says what the handler of `r` knows where it is: the error on
its way has the status of the outcome until something is written, and a second
`WriteHeader` comes only where the client is lost.

`WaitingClientsAnswered`: `HandlingSpec /\ []HandlerNeverStuck => EveryRequestAnswered`, for
one client at a time: `Serve` moves a handler on, a panic moves it to
`"written"`, and nobody else moves it at all.

Only model-checked: `NeverWaits`, `ShutdownNeverStuck` and `HandlerNeverStuck`, which say that an
action is ENABLED, of which the provers know nothing; the liveness theorems above
take them as premises, in the same form the runs check. `Terminates`, `CacheRefills` and the
liveness half of `ImplementsGather` need an induction over a count or a fault budget
inside a temporal proof, which is out of reach as well: it would conclude
`\A n : []P(n)` from all `[]P(n)` and a leads-to from infinitely many, and the temporal prover
is propositional. The two facts such an induction rests on are proved where the count is
explicit: `FanOutStepsBounded` for `Terminates`, `SearchesAlwaysAdvance` for a search.

An induction over data is proved with `InductiveSet` and a recursive function with
`RecursionExists` (`LeastNumbers`); nothing about recursion is assumed.

## Where the documents and the program differ

Each is a run whose expected outcome is a violation.

| Run | The text | The program |
|---|---|---|
| `single_saver` | `aggregator_service.go:104`: only one operation saves to cache | the loser of the lock deletes it on return |
| `lock_expires` | `README.md:350`: `NX EX 3` | the lock has no expiration |
| `metadata_tracked` | `README.md:271`: metadata counts are tracked | a hit between the two writes reports zero providers |
| `durations` | `utils.go:32`: converts a duration to minutes | `55m` is 55 hours |
| `windows` | `filter.go:65-66`: 14:00 is between start and end | hours are compared, so that 23:50 is within 12:00 to 23:00 |
| `graceful_shutdown` | `main.go:99`: shutdown gracefully | `Shutdown` gets the cancelled context |

More were met on the way and have no run, each being visible in one definition:
`README.md:261` says the lock prevents a thundering herd, but `AcquireLock` follows
`Fetch`, so all that miss together ask the providers; `README.md:269` promises
"Result merging and deduplication", but `Merged` and the list of `ProviderFanOut` only
append, and a flight offered twice is answered twice (`AnswerIsWhatWasAsked` accepts either);
a window of which one end is given is ignored, and one with an end that cannot be read
empties the answer and only logs why (`InWindow`, `IsWithinTimeRange`), about which the
repository says nothing; `README.md:281` speaks of a limit of requests per second, but a
bucket that begins full grants almost twice as many within one (`GrantsBounded`);
`main.go:72` says all services are closed, while a socket opened late may still be
open (`Listen` before, `TrackListener` after); `main.go:68`
would report a failed start, but `Listen` only logs one and the context is
cancelled by that `select` alone, so the branch is unreachable and the process stays
up without a socket; `README.md:113` offers `recommended` as
a sort field, which `Valid` rejects as the code does (the field is `score`); and a
search asks the limiter only after its simulated call (`CallSucceeds`, then
`Allow`), so what the limiter bounds is the reading of answers; a body that is no JSON
is answered 500, not 400 (`DecodeRequest`); `encoder.go:57` sets the content type of an
error after its header was written.

## Not modelled

- *JSON of the cached values, floating-point rounding of scores*: the first is faithful
  for the types there are; the second can only swap flights of nearly equal score. (The
  rounding of AirAsia's durations is modelled.)
- *Redis' own failures*: the loss of its data and its replication.
- *Configuration* (`config.go`, `loader.go`): read once, before anything runs. A missing
  setting is zero: no HTTP deadline, a cache without expiration, a search that fails at once. The
  documents name some settings otherwise than the loader does (`REDIS_HOST` and
  `REDIS_PORT`, `AIR_ASIA_PROVIDER_TIMEOUT` in `README.md:387-421`), and `REDIS_TIMEOUT` is read but
  not given to the client (`main.go:104`).
- *Wiring and factory*: a map that is filled before the server starts; its iteration
  order is one of the interleavings of `ProviderFanOut`.
- *Formatting* of durations and prices, names, baggage, messages and their translation,
  logging: no step depends on them.
- *A panic of a provider*: nothing in the mocked answers causes one, and what the end of
  the process does to everything else is `Crash`.
- *404 and 405 of routes chi does not know*; `NoContentResponse` and `CreatedResponse`, which
  no route uses.
- *Generated mocks, tests and API documentation*.
- *`ProviderSearch` within `ProviderFanOut`*: the two meet in one fact, that every `Search`
  returns, which the one proves with a bound and the other assumes as fairness; their
  product, with clocks, is out of reach for TLC and would show nothing more.
