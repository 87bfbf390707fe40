--------------------------- MODULE ProviderSearch ---------------------------
(***************************************************************************)
(* Provider.Search of one provider, called by several searches at once, of *)
(* any server instance, that share the provider's rate limiter in Redis:   *)
(* the simulated call and its delay, retries with exponential backoff, the *)
(* timeout, the command of the rate limit, and reading the answer.         *)
(*                                                                         *)
(* Time passes in ticks of TickMs milliseconds and only when no goroutine  *)
(* can go on: a select whose timer or context is ready goes on at once.    *)
(* The four providers share the loop and differ in a profile.              *)
(***************************************************************************)
EXTENDS Integers

CONSTANTS
  Searches,      \* concurrent calls of Search
  Profiles,      \* the providers considered: a set of the profiles below
  MaxRetries,
  TimeoutMs,     \* the provider's timeout
  RateLimitRPS,
  RedisTimeoutMs,  \* what a command of the Redis client may take, once sent
  RedisMaxRetries, \* how often that client sends a command again
  TickMs,        \* milliseconds of a tick
  MaxFaults      \* bound: lost limiter commands, unread files, departed clients

\* The simulated delay of a call, in milliseconds, and whether calls may fail.
LionAir  == [delayMs |-> <<100, 200>>, mayFail |-> FALSE]
BatikAir == [delayMs |-> <<200, 400>>, mayFail |-> FALSE]
AirAsia  == [delayMs |-> <<50, 150>>,  mayFail |-> TRUE]
Garuda   == [delayMs |-> <<100, 300>>, mayFail |-> FALSE]

ASSUME ProviderAssumption ==
  /\ Profiles \subseteq {LionAir, BatikAir, AirAsia, Garuda}
  /\ MaxRetries \in Nat
  /\ TimeoutMs \in Nat
  /\ RateLimitRPS \in Nat \ {0}
  /\ RedisTimeoutMs \in Nat
  /\ RedisMaxRetries \in Nat
  /\ TickMs \in Nat \ {0}
  /\ MaxFaults \in Nat

VARIABLES
  profile,   \* the provider
  step,      \* step[s]: "idle", "call", "backoff", "allow", "sent" (the limiter's
             \* command), "granted", "refused" (its reply), "read", "done"
  attempt,   \* attempt[s]
  resends,   \* resends[s]: how often the Redis client may still send the command
  timer,     \* timer[s]: ticks until time.After fires or the command is given up
  deadline,  \* deadline[s]: ticks until the context times out; 0 if it is done
  late,      \* late[s]: ticks that passed with the context done
  result,    \* result[s]: what Search returned
  cancelled, \* cancelled[s]: has the caller's context been cancelled?
  tat,       \* the limiter's theoretical arrival time, in ticks from now
  grants,    \* grants[i]: ticks since the i-th last token granted, up to a second
  faultsLeft

searchVars == <<step, attempt, resends, timer, deadline, late, result, cancelled>>
vars == <<profile, searchVars, tat, grants, faultsLeft>>

-----------------------------------------------------------------------------
Ticks(ms) == (ms + TickMs - 1) \div TickMs
Second == Ticks(1000)
Delays == Ticks(profile.delayMs[1]) .. Ticks(profile.delayMs[2])

\* Exponential backoff: 200ms * 2^attempt
PowerOfTwo[n \in Nat] == IF n = 0 THEN 1 ELSE 2 * PowerOfTwo[n - 1]
BackoffInSeconds(n) == Ticks(200 * 1000 * PowerOfTwo[n])
Backoff(n) == Ticks(200 * PowerOfTwo[n])

\* One command of the Redis client, and its own backoffs of up to 512ms.
CommandTicks == Ticks(RedisTimeoutMs)
RedisBackoffs == 0 .. Ticks(512)

\* redis_rate.PerSecond: as many tokens in a burst as in a second.
PerSecondNoBurst(rate) == [rate |-> rate, burst |-> 1]
PerSecondDoubleBurst(rate) == [rate |-> rate, burst |-> 2 * rate]
PerSecond(rate) == [rate |-> rate, burst |-> rate]
Limit == PerSecond(RateLimitRPS)

\* The limiter's script in Redis: the generic cell rate algorithm.
EmissionInterval == Second \div Limit.rate
TokenAvailable == tat + EmissionInterval <= EmissionInterval * Limit.burst

\* A tick is fine enough for the interval.
ASSUME GrainAssumption == (Second \div RateLimitRPS) * RateLimitRPS = Second

Active(s) == step[s] \notin {"idle", "done"}
InFlight(s) == step[s] \in {"sent", "granted", "refused"}
Done(s) == deadline[s] = 0

\* The context Limiter.Allow is given.
LimiterContextDetached(s) == FALSE
LimiterContextDone(s) == Done(s)

Fault == faultsLeft > 0 /\ faultsLeft' = faultsLeft - 1

Init ==
  /\ profile \in Profiles
  /\ step = [s \in Searches |-> "idle"]
  /\ attempt = [s \in Searches |-> 0]
  /\ resends = [s \in Searches |-> 0]
  /\ timer = [s \in Searches |-> 0]
  /\ deadline = [s \in Searches |-> 0]
  /\ late = [s \in Searches |-> 0]
  /\ result = [s \in Searches |-> "none"]
  /\ cancelled = [s \in Searches |-> FALSE]
  /\ tat = 0
  /\ grants = [i \in 1..2 * RateLimitRPS |-> Second]
  /\ faultsLeft = MaxFaults

-----------------------------------------------------------------------------
\* The search returns; its goroutine is over.
Return(s, r) ==
  /\ step' = [step EXCEPT ![s] = "done"]
  /\ result' = [result EXCEPT ![s] = r]

\* ctx, cancel := context.WithTimeout(ctx, p.Timeout), and the first attempt.
Begin(s) ==
  /\ ~Active(s)
  /\ step' = [step EXCEPT ![s] = "call"]
  /\ attempt' = [attempt EXCEPT ![s] = 0]
  /\ resends' = [resends EXCEPT ![s] = RedisMaxRetries]
  /\ \E d \in Delays : timer' = [timer EXCEPT ![s] = d]
  /\ deadline' = [deadline EXCEPT ![s] = Ticks(TimeoutMs)]
  /\ late' = [late EXCEPT ![s] = 0]
  /\ result' = [result EXCEPT ![s] = "none"]
  /\ cancelled' = [cancelled EXCEPT ![s] = FALSE]
  /\ UNCHANGED <<profile, tat, grants, faultsLeft>>

\* The selects on the delay and the backoff end with the context, and so does the
\* Redis client between its commands: a command under way does not look at it, the
\* client being made without ContextTimeoutEnabled.
Interrupted(s) ==
  \/ step[s] \in {"call", "backoff"} /\ Done(s)
  \/ step[s] = "allow" /\ LimiterContextDone(s)

ContextDone(s) ==
  /\ Interrupted(s)
  /\ Return(s, IF step[s] = "allow" THEN "limiterError" ELSE "contextDone")
  /\ UNCHANGED <<profile, attempt, resends, timer, deadline, late, cancelled, tat,
                 grants, faultsLeft>>

\* The simulated call answers.
CallSucceeds(s) ==
  /\ step[s] = "call"
  /\ timer[s] = 0
  /\ step' = [step EXCEPT ![s] = "allow"]
  /\ UNCHANGED <<profile, attempt, resends, timer, deadline, late, result,
                 cancelled, tat, grants, faultsLeft>>

\* The simulated call fails: back off, or give up after the last attempt.
CallFailsOffByOne(s) ==
  /\ step[s] = "call"
  /\ timer[s] = 0
  /\ profile.mayFail
  /\ \/ /\ attempt[s] <= MaxRetries
        /\ step' = [step EXCEPT ![s] = "backoff"]
        /\ timer' = [timer EXCEPT ![s] = Backoff(attempt[s])]
        /\ UNCHANGED result
     \/ /\ attempt[s] > MaxRetries
        /\ Return(s, "retryExceeded")
        /\ UNCHANGED timer
  /\ UNCHANGED <<profile, attempt, resends, deadline, late, cancelled, tat, grants,
                 faultsLeft>>
CallFails(s) ==
  /\ step[s] = "call"
  /\ timer[s] = 0
  /\ profile.mayFail
  /\ \/ /\ attempt[s] < MaxRetries
        /\ step' = [step EXCEPT ![s] = "backoff"]
        /\ timer' = [timer EXCEPT ![s] = Backoff(attempt[s])]
        /\ UNCHANGED result
     \/ /\ attempt[s] >= MaxRetries
        /\ Return(s, "retryExceeded")
        /\ UNCHANGED timer
  /\ UNCHANGED <<profile, attempt, resends, deadline, late, cancelled, tat, grants,
                 faultsLeft>>

\* The backoff is over: next attempt.
NextAttemptUncounted(s) ==
  /\ step[s] = "backoff"
  /\ timer[s] = 0
  /\ step' = [step EXCEPT ![s] = "call"]
  /\ \E d \in Delays : timer' = [timer EXCEPT ![s] = d]
  /\ UNCHANGED <<profile, attempt, resends, deadline, late, result, cancelled, tat,
                 grants, faultsLeft>>
NextAttempt(s) ==
  /\ step[s] = "backoff"
  /\ timer[s] = 0
  /\ step' = [step EXCEPT ![s] = "call"]
  /\ attempt' = [attempt EXCEPT ![s] = @ + 1]
  /\ \E d \in Delays : timer' = [timer EXCEPT ![s] = d]
  /\ UNCHANGED <<profile, resends, deadline, late, result, cancelled, tat, grants,
                 faultsLeft>>

\* The script grants a token.
Grant ==
  /\ TokenAvailable
  /\ tat' = tat + EmissionInterval
  /\ grants' = [i \in 1..2 * RateLimitRPS |-> IF i = 1 THEN 0 ELSE grants[i - 1]]

\* p.Limiter.Allow(ctx, "limit:" + p.Name, PerSecond(p.RateLimitRPS)) sends its
\* command, which takes its time: Redis runs the script, and the reply comes back.
Allow(s) ==
  /\ step[s] = "allow"
  /\ timer[s] = 0
  /\ ~LimiterContextDone(s)
  /\ step' = [step EXCEPT ![s] = "sent"]
  /\ timer' = [timer EXCEPT ![s] = CommandTicks]
  /\ UNCHANGED <<profile, attempt, resends, deadline, late, result, cancelled, tat,
                 grants, faultsLeft>>

Execute(s) ==
  /\ step[s] = "sent"
  /\ \/ /\ Grant
        /\ step' = [step EXCEPT ![s] = "granted"]
     \/ /\ ~TokenAvailable
        /\ step' = [step EXCEPT ![s] = "refused"]
        /\ UNCHANGED <<tat, grants>>
  /\ UNCHANGED <<profile, attempt, resends, timer, deadline, late, result, cancelled,
                 faultsLeft>>

\* A refused search is not retried.
Answered(s) ==
  /\ timer' = [timer EXCEPT ![s] = 0]
  /\ \/ /\ step[s] = "granted"
        /\ step' = [step EXCEPT ![s] = "read"]
        /\ UNCHANGED result
     \/ /\ step[s] = "refused"
        /\ Return(s, "rateLimited")
  /\ UNCHANGED <<profile, attempt, resends, deadline, late, cancelled, tat, grants,
                 faultsLeft>>

\* The command or its reply is lost, or Redis does not know the script: the Redis
\* client backs off and sends it again, or gives up.
LimiterLost(s) ==
  /\ InFlight(s)
  /\ Fault
  /\ \/ /\ resends[s] > 0
        /\ ~LimiterContextDone(s)
        /\ resends' = [resends EXCEPT ![s] = @ - 1]
        /\ step' = [step EXCEPT ![s] = "allow"]
        /\ \E b \in RedisBackoffs : timer' = [timer EXCEPT ![s] = b]
        /\ UNCHANGED result
     \/ /\ Return(s, "limiterError")
        /\ UNCHANGED <<resends, timer>>
  /\ UNCHANGED <<profile, attempt, deadline, late, cancelled, tat, grants>>

\* os.ReadFile, json.Unmarshal and FilterFlights: none looks at the context.
Read(s) ==
  /\ step[s] = "read"
  /\ \/ Return(s, "flights") /\ UNCHANGED faultsLeft
     \/ Return(s, "readError") /\ Fault
  /\ UNCHANGED <<profile, attempt, resends, timer, deadline, late, cancelled, tat,
                 grants>>

\* The caller's context is cancelled: the client left.
Cancel(s) ==
  /\ Active(s)
  /\ ~Done(s)
  /\ Fault
  /\ cancelled' = [cancelled EXCEPT ![s] = TRUE]
  /\ deadline' = [deadline EXCEPT ![s] = 0]
  /\ UNCHANGED <<profile, step, attempt, resends, timer, late, result, tat, grants>>

\* Can the goroutine of s go on without waiting for time?
Ready(s) == Active(s) /\ (timer[s] = 0 \/ Interrupted(s))

Before(n) == IF n = 0 THEN 0 ELSE n - 1
Older(age) == IF age < Second THEN age + 1 ELSE Second

Tick ==
  /\ \A s \in Searches : ~Ready(s)
  /\ timer' = [s \in Searches |-> Before(timer[s])]
  /\ deadline' = [s \in Searches |-> Before(deadline[s])]
  /\ late' = [s \in Searches |->
       IF Active(s) /\ Done(s) THEN late[s] + 1 ELSE late[s]]
  /\ tat' = Before(tat)
  /\ grants' = [i \in 1..2 * RateLimitRPS |-> Older(grants[i])]
  /\ UNCHANGED <<profile, step, attempt, resends, result, cancelled, faultsLeft>>

Next ==
  \/ \E s \in Searches :
       \/ Begin(s) \/ ContextDone(s) \/ CallSucceeds(s) \/ CallFails(s)
       \/ NextAttempt(s) \/ Allow(s) \/ Execute(s) \/ Answered(s) \/ LimiterLost(s)
       \/ Read(s) \/ Cancel(s)
  \/ Tick

Spec == Init /\ [][Next]_vars

-----------------------------------------------------------------------------
Results == {"none", "flights", "contextDone", "retryExceeded", "rateLimited",
            "limiterError", "readError"}

\* Types. An attempt is one of the first and MaxRetries more.
TypeOK ==
  /\ profile \in Profiles
  /\ step \in [Searches -> {"idle", "call", "backoff", "allow", "sent", "granted",
                           "refused", "read", "done"}]
  /\ attempt \in [Searches -> 0..MaxRetries]
  /\ resends \in [Searches -> 0..RedisMaxRetries]
  /\ timer \in [Searches -> Nat]
  /\ deadline \in [Searches -> 0..Ticks(TimeoutMs)]
  /\ late \in [Searches -> Nat]
  /\ result \in [Searches -> Results]
  /\ cancelled \in [Searches -> BOOLEAN]
  /\ tat \in Nat
  /\ grants \in [1..2 * RateLimitRPS -> 0..Second]
  /\ faultsLeft \in 0..MaxFaults

\* No search outlives its timeout or its client by more than one command to Redis:
\* the simulated call, the backoffs and whatever the Redis client sends again end
\* with the context, so that only a command already sent is waited for.
LateByOneCommand == \A s \in Searches : late[s] <= CommandTicks

\* Whatever the searches of all instances do, and whatever replies are lost, the
\* limiter grants fewer tokens within a second than a burst and the refill of one.
GrantsBounded == grants[2 * RateLimitRPS] = Second

\* A search is refused only if a full quota was granted within the last second,
\* so searches below the rate are never refused, whoever else has failed.
RefusedOnlyAtLimit ==
  [][\A s \in Searches :
       step[s] # "refused" /\ step'[s] = "refused" => grants[RateLimitRPS] < Second]_vars

\* Bound on the steps and ticks a search may still take: the rest of its timeout, two
\* steps for each attempt it has left, what is left of this one, and the commands.
StepsOfAttempt == [call |-> 5, backoff |-> 4, allow |-> 4, sent |-> 3, granted |-> 2,
                   refused |-> 2, read |-> 1]
CommandLeft(s) == IF step[s] \in {"call", "backoff", "allow"} THEN CommandTicks
                  ELSE IF InFlight(s) THEN timer[s] ELSE 0
Remaining(s) ==
  IF ~Active(s) THEN 0
  ELSE deadline[s] + 2 * (MaxRetries - attempt[s]) + StepsOfAttempt[step[s]]
         + CommandLeft(s) + resends[s] * (3 + CommandTicks)

\* No search goes round for ever or waits for good: whatever fails, each of its steps
\* and every tick brings it nearer to its end, and nothing another search does, nor
\* its client's leaving, takes it further away.
SearchesAdvance ==
  [][\A s \in Searches : Active(s) =>
       /\ Remaining(s)' <= Remaining(s)
       /\ Tick \/ step'[s] # step[s] => Remaining(s)' < Remaining(s)]_vars

\* The delays and doubling backoffs of all attempts fit into the timeout: a search
\* whose client stays is never cut off by it before its last attempt.
RetriesFitTimeout ==
  \A s \in Searches : result[s] = "contextDone" => cancelled[s]
=============================================================================
