------------------------ MODULE ProviderSearchProofs ------------------------
(***************************************************************************)
(* Theorems about ProviderSearch, for any number of searches, any rate and *)
(* any timeout: types, the bound and the exactness of the shared rate      *)
(* limiter, that no search outlives its context by more than one command,  *)
(* that every step brings a search nearer to its end, and that the timeout *)
(* of the shipped configuration leaves room for every retry.               *)
(*                                                                         *)
(* The limiter keeps one number, tat.  LimiterInv says what it knows of    *)
(* the past: the i-th last token of the last second left its emission      *)
(* interval in it (from below), and at most i - 1 tokens did if there was  *)
(* no i-th (from above).                                                   *)
(*                                                                         *)
(* RetriesInv: what is left of the timeout at an attempt covers the delays *)
(* and the backoffs still to come, which add up to a difference of powers. *)
(* That these grow is shown by a smallest counterexample (LeastNatural) in *)
(* the place of an induction.                                              *)
(***************************************************************************)
EXTENDS ProviderSearch, LeastNumbers, TLAPS

-----------------------------------------------------------------------------
(* Numbers *)

\* Natural multiples.
LEMMA ProductOrder ==
  ASSUME NEW a \in Nat, NEW b \in Nat, NEW t \in Nat, a <= b
  PROVE  a * t \in Nat /\ b * t \in Nat /\ a * t <= b * t
  <1>1. PICK c \in Nat : b = a + c
    <2>. b - a \in Nat /\ b = a + (b - a)
      OBVIOUS
    <2>. QED
      OBVIOUS
  <1>2. b * t = a * t + c * t /\ a * t \in Nat /\ c * t \in Nat
    BY <1>1
  <1>. QED
    BY <1>2

LEMMA Multiples ==
  ASSUME NEW i \in Nat, NEW e \in Nat
  PROVE  /\ i * e \in Nat /\ (i + 1) * e = i * e + e
         /\ i # 0 => (i - 1) * e \in Nat /\ i * e = (i - 1) * e + e
  OBVIOUS

LEMMA TicksType == \A ms \in Nat : Ticks(ms) \in Nat
  <1>. SUFFICES ASSUME NEW ms \in Nat PROVE Ticks(ms) \in Nat
    OBVIOUS
  <1>1. TickMs \in Nat \ {0} /\ ms + TickMs - 1 \in Nat
    BY ProviderAssumption
  <1>2. \A x \in Nat, y \in Nat \ {0} : x \div y \in Nat
    OBVIOUS
  <1>. QED
    BY <1>1, <1>2 DEF Ticks

LEMMA DelaysAreMs == \A p \in Profiles : p.delayMs[1] \in Nat /\ p.delayMs[2] \in Nat
  BY ProviderAssumption DEF LionAir, BatikAir, AirAsia, Garuda

LEMMA DelaysType == \A p \in Profiles :
                      Ticks(p.delayMs[1]) \in Nat /\ Ticks(p.delayMs[2]) \in Nat
  BY DelaysAreMs, TicksType

\* The powers of the backoff start at 1 and double.
LEMMA Doubling ==
  /\ PowerOfTwo[0] = 1
  /\ \A n \in Nat : PowerOfTwo[n] \in Nat /\ PowerOfTwo[n + 1] = 2 * PowerOfTwo[n]
  <1>. DEFINE Doubles(f) == f = [n \in Nat |-> IF n = 0 THEN 1 ELSE 2 * f[n - 1]]
              next == [n \in Nat |-> [x \in Nat |-> 2 * x]]
              T == {n \in Nat : PowerOfTwo[n] \in Nat}
  <1>1. PICK f : Recurs(f, Nat, 1, next)
    <2>1. next \in [Nat -> [Nat -> Nat]] /\ 1 \in Nat
      OBVIOUS
    <2>. HIDE DEF next
    <2>. QED
      BY <2>1, RecursionExists
  <1>2. \A n \in Nat : f[n] = IF n = 0 THEN 1 ELSE 2 * f[n - 1]
    <2>. SUFFICES ASSUME NEW n \in Nat, n # 0 PROVE f[n] = 2 * f[n - 1]
      BY <1>1 DEF Recurs
    <2>1. n - 1 \in Nat /\ f[n - 1] \in Nat
      BY <1>1 DEF Recurs
    <2>2. f[n] = next[n][f[n - 1]]
      BY <1>1 DEF Recurs
    <2>. QED
      BY <2>1, <2>2
  <1>3. Doubles(f)
    BY <1>1, <1>2 DEF Recurs
  <1>4. Doubles(PowerOfTwo)
    <2>1. PowerOfTwo = CHOOSE g : Doubles(g)
      BY Zenon DEF PowerOfTwo
    <2>. QED
      BY <1>3, <2>1, Zenon
  <1>5. /\ PowerOfTwo[0] = 1
        /\ \A n \in Nat : PowerOfTwo[n + 1] = 2 * PowerOfTwo[n]
    BY <1>4
  <1>6. 0 \in T /\ \A n \in T : n + 1 \in T
    BY <1>5
  <1>. HIDE DEF T
  <1>7. T = Nat
    <2>1. T \in SUBSET Nat
      BY DEF T
    <2>. QED
      BY <1>6, <2>1, InductiveSet
  <1>. QED
    BY <1>5, <1>7 DEF T

LEMMA BackoffType == \A n \in 0..MaxRetries : Backoff(n) \in Nat
  <1>1. \A n \in 0..MaxRetries : 200 * PowerOfTwo[n] \in Nat
    BY Doubling
  <1>. QED
    BY <1>1, TicksType DEF Backoff

LEMMA CommandType == CommandTicks \in Nat /\ RedisBackoffs \subseteq Nat
  BY TicksType, ProviderAssumption DEF CommandTicks, RedisBackoffs

LEMMA DelaysAreNat == TypeOK => Delays \subseteq Nat
  BY DelaysType DEF TypeOK, Delays

\* The interval between two tokens, as many of which as the rate make a second.
LEMMA IntervalType ==
  /\ EmissionInterval \in Nat /\ Second \in Nat
  /\ EmissionInterval * RateLimitRPS = Second
  /\ TokenAvailable <=> tat + EmissionInterval <= Second
  <1>1. Second \in Nat /\ RateLimitRPS \in Nat \ {0}
    BY TicksType, ProviderAssumption DEF Second
  <1>2. \A x \in Nat, y \in Nat \ {0} : x \div y \in Nat
    OBVIOUS
  <1>3. EmissionInterval = Second \div RateLimitRPS /\ Limit.burst = RateLimitRPS
    BY DEF EmissionInterval, Limit, PerSecond
  <1>4. EmissionInterval \in Nat /\ EmissionInterval * RateLimitRPS = Second
    BY <1>1, <1>2, <1>3, GrainAssumption
  <1>. QED
    BY <1>1, <1>3, <1>4 DEF TokenAvailable

-----------------------------------------------------------------------------
(* Types *)

\* A search backs off only before an attempt it still has.
TypeInv ==
  TypeOK /\ \A s \in Searches : step[s] = "backoff" => attempt[s] < MaxRetries

LEMMA TypeInit == Init => TypeInv
  <1>1. 0 \in 0..MaxRetries /\ 0 \in 0..RedisMaxRetries /\ MaxFaults \in 0..MaxFaults
    BY ProviderAssumption
  <1>2. 0 \in 0..Ticks(TimeoutMs) /\ Second \in 0..Second
    BY TicksType, ProviderAssumption DEF Second
  <1>. QED
    BY <1>1, <1>2 DEF Init, TypeInv, TypeOK, Results

LEMMA GrantType ==
  ASSUME TypeOK, Grant
  PROVE  tat' \in Nat /\ grants' \in [1..2 * RateLimitRPS -> 0..Second]
  <1>1. tat' \in Nat
    BY IntervalType DEF TypeOK, Grant
  <1>2. \A i \in 1..2 * RateLimitRPS : i # 1 => i - 1 \in 1..2 * RateLimitRPS
    BY ProviderAssumption
  <1>3. 0 \in 0..Second
    BY IntervalType
  <1>. QED
    BY <1>1, <1>2, <1>3 DEF TypeOK, Grant

LEMMA FaultType == TypeOK /\ Fault => faultsLeft' \in 0..MaxFaults
  <1>1. MaxFaults \in Nat
    BY ProviderAssumption
  <1>. QED
    BY <1>1 DEF TypeOK, Fault

LEMMA TypeNext == TypeInv /\ [Next]_vars => TypeInv'
  <1>. SUFFICES ASSUME TypeInv, [Next]_vars PROVE TypeInv'
    OBVIOUS
  <1>. USE DEF TypeInv, TypeOK, Results
  <1>1. ASSUME NEW s \in Searches, Begin(s) PROVE TypeInv'
    <2>1. /\ Ticks(TimeoutMs) \in Nat /\ 0 \in 0..MaxRetries
          /\ RedisMaxRetries \in 0..RedisMaxRetries
      BY TicksType, ProviderAssumption
    <2>. QED
      BY <1>1, <2>1, DelaysAreNat DEF Begin
  <1>2. ASSUME NEW s \in Searches, ContextDone(s) PROVE TypeInv'
    BY <1>2 DEF ContextDone, Return
  <1>3. ASSUME NEW s \in Searches, CallSucceeds(s) PROVE TypeInv'
    BY <1>3 DEF CallSucceeds
  <1>4. ASSUME NEW s \in Searches, CallFails(s) PROVE TypeInv'
    <2>1. Backoff(attempt[s]) \in Nat
      BY BackoffType
    <2>. QED
      BY <1>4, <2>1, ProviderAssumption DEF CallFails, Return
  <1>5. ASSUME NEW s \in Searches, NextAttempt(s) PROVE TypeInv'
    <2>1. attempt[s] + 1 \in 0..MaxRetries
      BY <1>5, ProviderAssumption DEF NextAttempt
    <2>. QED
      BY <1>5, <2>1, DelaysAreNat DEF NextAttempt
  <1>6. ASSUME NEW s \in Searches, Allow(s) PROVE TypeInv'
    BY <1>6, CommandType DEF Allow
  <1>12. ASSUME NEW s \in Searches, Execute(s) PROVE TypeInv'
    BY <1>12, GrantType DEF Execute
  <1>13. ASSUME NEW s \in Searches, Answered(s) PROVE TypeInv'
    BY <1>13 DEF Answered, Return
  <1>7. ASSUME NEW s \in Searches, LimiterLost(s) PROVE TypeInv'
    <2>1. CASE Return(s, "limiterError") /\ UNCHANGED <<resends, timer>>
      BY <1>7, <2>1, FaultType DEF LimiterLost, Return
    <2>2. CASE resends[s] > 0 /\ resends' = [resends EXCEPT ![s] = @ - 1]
      <3>1. resends[s] - 1 \in 0..RedisMaxRetries
        BY <2>2, ProviderAssumption
      <3>2. resends' \in [Searches -> 0..RedisMaxRetries]
        BY <2>2, <3>1
      <3>. QED
        BY <1>7, <2>2, <3>2, FaultType, CommandType DEF LimiterLost, Return
    <2>. QED
      BY <1>7, <2>1, <2>2 DEF LimiterLost
  <1>8. ASSUME NEW s \in Searches, Read(s) PROVE TypeInv'
    BY <1>8, FaultType DEF Read, Return
  <1>9. ASSUME NEW s \in Searches, Cancel(s) PROVE TypeInv'
    <2>1. 0 \in 0..Ticks(TimeoutMs)
      BY TicksType, ProviderAssumption
    <2>. QED
      BY <1>9, <2>1, FaultType DEF Cancel
  <1>10. CASE Tick
    <2>1. \A n \in Nat : Before(n) \in Nat /\ Before(n) <= n
      BY DEF Before
    <2>2. Ticks(TimeoutMs) \in Nat
      BY TicksType, ProviderAssumption
    <2>3. \A n \in 0..Ticks(TimeoutMs) : Before(n) \in 0..Ticks(TimeoutMs)
      BY <2>1, <2>2
    <2>4. \A a \in 0..Second : Older(a) \in 0..Second
      BY IntervalType DEF Older
    <2>5. timer' \in [Searches -> Nat] /\ deadline' \in [Searches -> 0..Ticks(TimeoutMs)]
      BY <1>10, <2>1, <2>3 DEF Tick
    <2>6. late' \in [Searches -> Nat]
      BY <1>10 DEF Tick
    <2>7. tat' \in Nat /\ grants' \in [1..2 * RateLimitRPS -> 0..Second]
      BY <1>10, <2>1, <2>4 DEF Tick
    <2>. QED
      BY <1>10, <2>5, <2>6, <2>7 DEF Tick
  <1>11. CASE UNCHANGED vars
    BY <1>11 DEF vars, searchVars
  <1>. QED
    BY <1>1, <1>2, <1>3, <1>4, <1>5, <1>6, <1>7, <1>8, <1>9, <1>10, <1>11, <1>12, <1>13
    DEF Next

\* In every state the variables have their types: no search makes more attempts than
\* the first and MaxRetries, however its calls fail.
THEOREM SearchTypeCorrect == Spec => []TypeOK
  <1>1. TypeInv => TypeOK
    BY DEF TypeInv
  <1>. QED
    BY <1>1, TypeInit, TypeNext, PTL DEF Spec

-----------------------------------------------------------------------------
(* Deadlines *)

\* A search learns of its context before it waits again: what it can still wait for
\* is the one command that was under way.
LateInv ==
  \A s \in Searches :
    /\ late[s] <= CommandTicks
    /\ deadline[s] # 0 \/ step[s] \in {"call", "backoff", "allow"} => late[s] = 0
    /\ InFlight(s) => late[s] + timer[s] <= CommandTicks
    /\ step[s] = "read" => timer[s] = 0

LEMMA LateInit == Init => LateInv
  <1>1. CommandTicks \in Nat
    BY CommandType
  <1>. SUFFICES ASSUME Init PROVE LateInv
    OBVIOUS
  <1>2. \A s \in Searches : step[s] = "idle" /\ late[s] = 0 /\ timer[s] = 0
    BY DEF Init
  <1>3. ASSUME NEW s \in Searches
        PROVE  late[s] <= CommandTicks /\ late[s] = 0 /\ ~InFlight(s) /\ step[s] # "read"
    BY <1>1, <1>2 DEF InFlight
  <1>. QED
    BY <1>3, Zenon DEF LateInv

\* A step of one search, none of whose ticks passes.
LEMMA LateFrame ==
  ASSUME LateInv, NEW s \in Searches,
         \A q \in Searches : q # s =>
           /\ step'[q] = step[q] /\ timer'[q] = timer[q]
           /\ deadline'[q] = deadline[q] /\ late'[q] = late[q],
         late'[s] <= CommandTicks,
         deadline'[s] # 0 \/ step'[s] \in {"call", "backoff", "allow"} => late'[s] = 0,
         step'[s] \in {"sent", "granted", "refused"} => late'[s] + timer'[s] <= CommandTicks,
         step'[s] = "read" => timer'[s] = 0
  PROVE  LateInv'
  <1>. SUFFICES ASSUME NEW q \in Searches
                PROVE  (/\ late[q] <= CommandTicks
                        /\ deadline[q] # 0 \/ step[q] \in {"call", "backoff", "allow"}
                             => late[q] = 0
                        /\ InFlight(q) => late[q] + timer[q] <= CommandTicks
                        /\ step[q] = "read" => timer[q] = 0)'
    BY DEF LateInv
  <1>1. CASE q = s
    BY <1>1 DEF InFlight, CommandTicks, Ticks
  <1>2. CASE q # s
    BY <1>2 DEF LateInv, InFlight, CommandTicks, Ticks
  <1>. QED
    BY <1>1, <1>2

LEMMA LateNext == TypeInv /\ LateInv /\ [Next]_vars => LateInv'
  <1>. SUFFICES ASSUME TypeInv, LateInv, [Next]_vars PROVE LateInv'
    OBVIOUS
  <1>a. /\ CommandTicks \in Nat /\ RedisBackoffs \subseteq Nat
        /\ late \in [Searches -> Nat] /\ timer \in [Searches -> Nat]
        /\ deadline \in [Searches -> 0..Ticks(TimeoutMs)]
        /\ step \in [Searches -> {"idle", "call", "backoff", "allow", "sent", "granted",
                                 "refused", "read", "done"}]
    BY CommandType DEF TypeInv, TypeOK
  <1>b. \A s \in Searches :
          /\ late[s] <= CommandTicks
          /\ deadline[s] # 0 \/ step[s] \in {"call", "backoff", "allow"} => late[s] = 0
          /\ step[s] \in {"sent", "granted", "refused"}
               => late[s] + timer[s] <= CommandTicks
          /\ step[s] = "read" => timer[s] = 0
    BY DEF LateInv, InFlight
  <1>1. ASSUME NEW s \in Searches, Begin(s) PROVE LateInv'
    BY <1>a, <1>1, LateFrame DEF Begin
  <1>2. ASSUME NEW s \in Searches, ContextDone(s) \/ CallSucceeds(s) \/ Read(s)
        PROVE  LateInv'
    BY <1>a, <1>b, <1>2, LateFrame DEF ContextDone, CallSucceeds, Read, Return
  <1>3. ASSUME NEW s \in Searches, CallFails(s) \/ NextAttempt(s) PROVE LateInv'
    <2>1. late' = late /\ deadline' = deadline /\ late[s] = 0
          /\ step'[s] \in {"call", "backoff", "done"}
      BY <1>a, <1>b, <1>3 DEF CallFails, NextAttempt, Return
    <2>2. \A q \in Searches : q # s => step'[q] = step[q] /\ timer'[q] = timer[q]
      BY <1>a, <1>3 DEF CallFails, NextAttempt, Return
    <2>. QED
      BY <1>a, <2>1, <2>2, LateFrame
  <1>4. ASSUME NEW s \in Searches, Allow(s) PROVE LateInv'
    <2>1. /\ late' = late /\ deadline' = deadline /\ late[s] = 0
          /\ step' = [step EXCEPT ![s] = "sent"]
          /\ timer' = [timer EXCEPT ![s] = CommandTicks]
      BY <1>b, <1>4 DEF Allow
    <2>. QED
      BY <1>a, <2>1, LateFrame
  <1>5. ASSUME NEW s \in Searches, Execute(s) PROVE LateInv'
    <2>1. /\ UNCHANGED <<late, deadline, timer>> /\ step[s] = "sent"
          /\ step'[s] \in {"granted", "refused"}
          /\ \A q \in Searches : q # s => step'[q] = step[q]
      BY <1>a, <1>5 DEF Execute
    <2>. QED
      BY <1>a, <1>b, <2>1, LateFrame
  <1>6. ASSUME NEW s \in Searches, Answered(s) PROVE LateInv'
    <2>1. /\ UNCHANGED <<late, deadline>> /\ timer' = [timer EXCEPT ![s] = 0]
          /\ step'[s] \in {"read", "done"}
          /\ \A q \in Searches : q # s => step'[q] = step[q]
      BY <1>a, <1>6 DEF Answered, Return
    <2>. QED
      BY <1>a, <1>b, <2>1, LateFrame
  <1>7. ASSUME NEW s \in Searches, LimiterLost(s) PROVE LateInv'
    <2>1. CASE /\ ~LimiterContextDone(s) /\ step' = [step EXCEPT ![s] = "allow"]
               /\ \E b \in RedisBackoffs : timer' = [timer EXCEPT ![s] = b]
      <3>1. UNCHANGED <<late, deadline>> /\ late[s] = 0
        BY <1>b, <1>7, <2>1 DEF LimiterLost, LimiterContextDone, Done
      <3>. QED
        BY <1>a, <2>1, <3>1, LateFrame
    <2>2. CASE Return(s, "limiterError") /\ UNCHANGED timer
      BY <1>a, <1>b, <1>7, <2>2, LateFrame DEF LimiterLost, Return
    <2>. QED
      BY <1>7, <2>1, <2>2 DEF LimiterLost
  <1>8. ASSUME NEW s \in Searches, Cancel(s) PROVE LateInv'
    <2>1. /\ UNCHANGED <<late, step, timer>> /\ late[s] = 0
          /\ deadline' = [deadline EXCEPT ![s] = 0]
      BY <1>b, <1>8 DEF Cancel, Done
    <2>. QED
      BY <1>a, <1>b, <2>1, LateFrame
  <1>9. CASE Tick
    <2>. SUFFICES ASSUME NEW s \in Searches
                  PROVE  /\ late'[s] <= CommandTicks
                         /\ deadline'[s] # 0 \/ step'[s] \in {"call", "backoff", "allow"}
                              => late'[s] = 0
                         /\ step'[s] \in {"sent", "granted", "refused"}
                              => late'[s] + timer'[s] <= CommandTicks
                         /\ step'[s] = "read" => timer'[s] = 0
      BY DEF LateInv, InFlight, CommandTicks, Ticks
    <2>0. /\ late[s] \in Nat /\ timer[s] \in Nat /\ deadline[s] \in Nat
          /\ step[s] \in {"idle", "call", "backoff", "allow", "sent", "granted",
                          "refused", "read", "done"}
      BY <1>a, TicksType, ProviderAssumption
    <2>1. /\ step'[s] = step[s]
          /\ late'[s] = IF Active(s) /\ Done(s) THEN late[s] + 1 ELSE late[s]
          /\ timer'[s] = IF timer[s] = 0 THEN 0 ELSE timer[s] - 1
          /\ deadline'[s] = IF deadline[s] = 0 THEN 0 ELSE deadline[s] - 1
      BY <1>9 DEF Tick, Before
    <2>2. CASE Active(s) /\ Done(s)
      <3>1. timer[s] # 0 /\ ~Interrupted(s) /\ deadline[s] = 0
        BY <1>9, <2>2 DEF Tick, Ready, Done
      <3>2. step[s] \in {"sent", "granted", "refused"}
        BY <1>b, <2>0, <2>2, <3>1
        DEF Active, Interrupted, LimiterContextDone, Done
      <3>. QED
        BY <1>a, <1>b, <2>0, <2>1, <2>2, <3>1, <3>2
    <2>3. CASE ~(Active(s) /\ Done(s))
      <3>1. deadline'[s] # 0 => deadline[s] # 0
        BY <2>0, <2>1
      <3>. QED
        BY <1>a, <1>b, <2>0, <2>1, <2>3, <3>1
    <2>. QED
      BY <2>2, <2>3
  <1>10. CASE UNCHANGED vars
    BY <1>10 DEF vars, searchVars, LateInv, InFlight
  <1>. QED
    BY <1>1, <1>2, <1>3, <1>4, <1>5, <1>6, <1>7, <1>8, <1>9, <1>10 DEF Next

\* No search of any provider outlives its timeout or its client by more than one
\* command to Redis, whatever the delays, the backoffs and the retries of the provider
\* and of the Redis client are.
THEOREM SearchLateByOneCommand == Spec => []LateByOneCommand
  <1>1. LateInv => LateByOneCommand
    BY DEF LateInv, LateByOneCommand
  <1>. QED
    BY <1>1, TypeInit, TypeNext, LateInit, LateNext, PTL DEF Spec

-----------------------------------------------------------------------------
(* Progress *)

LEMMA StepWeights ==
  /\ StepsOfAttempt["call"] = 5 /\ StepsOfAttempt["backoff"] = 4
  /\ StepsOfAttempt["allow"] = 4 /\ StepsOfAttempt["sent"] = 3
  /\ StepsOfAttempt["granted"] = 2 /\ StepsOfAttempt["refused"] = 2
  /\ StepsOfAttempt["read"] = 1
  BY DEF StepsOfAttempt

\* What the commands a search may still send again add to what it has left.
Resending(s) == resends[s] * (3 + CommandTicks)
MostRemaining ==
  Ticks(TimeoutMs) + 2 * MaxRetries + 5 + CommandTicks + RedisMaxRetries * (3 + CommandTicks)

LEMMA ResendingType ==
  ASSUME TypeOK, NEW s \in Searches
  PROVE  /\ Resending(s) \in Nat
         /\ Resending(s) <= RedisMaxRetries * (3 + CommandTicks)
         /\ RedisMaxRetries * (3 + CommandTicks) \in Nat
         /\ resends[s] # 0
              => Resending(s) = (resends[s] - 1) * (3 + CommandTicks) + (3 + CommandTicks)
  <1>. DEFINE w == 3 + CommandTicks
  <1>1. w \in Nat /\ resends[s] \in 0..RedisMaxRetries /\ RedisMaxRetries \in Nat
    BY CommandType, ProviderAssumption DEF TypeOK
  <1>. HIDE DEF w
  <1>2. resends[s] * w \in Nat /\ RedisMaxRetries * w \in Nat
        /\ resends[s] * w <= RedisMaxRetries * w
    BY <1>1, ProductOrder
  <1>3. resends[s] # 0 => resends[s] * w = (resends[s] - 1) * w + w
    BY <1>1, Multiples
  <1>. QED
    BY <1>2, <1>3 DEF Resending, w

\* A search under way has steps and ticks left, and a bounded number of them.
LEMMA RemainingBounded ==
  ASSUME TypeOK, LateInv, NEW s \in Searches, Active(s)
  PROVE  /\ Remaining(s) \in 1..MostRemaining
         /\ Remaining(s) = deadline[s] + 2 * (MaxRetries - attempt[s])
                             + StepsOfAttempt[step[s]] + CommandLeft(s) + Resending(s)
         /\ StepsOfAttempt[step[s]] \in 1..5
         /\ CommandLeft(s) \in 0..CommandTicks
  <1>1. /\ deadline[s] \in 0..Ticks(TimeoutMs) /\ attempt[s] \in 0..MaxRetries
        /\ step[s] \in {"call", "backoff", "allow", "sent", "granted", "refused", "read"}
        /\ timer[s] \in Nat /\ late[s] \in Nat
    BY DEF TypeOK, Active
  <1>2. StepsOfAttempt[step[s]] \in 1..5
    BY <1>1, StepWeights
  <1>3. Ticks(TimeoutMs) \in Nat /\ MaxRetries \in Nat /\ CommandTicks \in Nat
    BY TicksType, CommandType, ProviderAssumption
  <1>4. CommandLeft(s) \in 0..CommandTicks
    BY <1>1, <1>3 DEF CommandLeft, LateInv
  <1>5. Remaining(s) = deadline[s] + 2 * (MaxRetries - attempt[s])
                         + StepsOfAttempt[step[s]] + CommandLeft(s) + Resending(s)
    BY DEF Remaining, Resending
  <1>6. /\ Resending(s) \in Nat
        /\ Resending(s) <= RedisMaxRetries * (3 + CommandTicks)
        /\ RedisMaxRetries * (3 + CommandTicks) \in Nat
    BY ResendingType
  <1>. DEFINE most == RedisMaxRetries * (3 + CommandTicks)
  <1>. HIDE DEF most
  <1>7. /\ Resending(s) \in Nat /\ Resending(s) <= most /\ most \in Nat
        /\ MostRemaining = Ticks(TimeoutMs) + 2 * MaxRetries + 5 + CommandTicks + most
    BY <1>6 DEF MostRemaining, most
  <1>8. Remaining(s) \in 1..MostRemaining
    BY <1>1, <1>2, <1>3, <1>4, <1>5, <1>7
  <1>. QED
    BY <1>2, <1>4, <1>5, <1>8

\* A step of another search does not touch what a search has left.
LEMMA OthersKeepRemaining ==
  ASSUME NEW s \in Searches, step'[s] = step[s], deadline'[s] = deadline[s],
         attempt'[s] = attempt[s], resends'[s] = resends[s], timer'[s] = timer[s]
  PROVE  Remaining(s)' = Remaining(s)
  BY DEF Remaining, Active, CommandLeft, InFlight, CommandTicks, Ticks

LEMMA AdvanceNext ==
  ASSUME TypeInv, LateInv, [Next]_vars, NEW s \in Searches, Active(s)
  PROVE  /\ Remaining(s)' <= Remaining(s)
         /\ Tick \/ step'[s] # step[s] => Remaining(s)' < Remaining(s)
  <1>. DEFINE Nearer == Remaining(s)' \in Int /\ Remaining(s)' < Remaining(s)
              Still == Remaining(s)' = Remaining(s) /\ step'[s] = step[s]
              Left == 2 * (MaxRetries - attempt[s]) + StepsOfAttempt[step[s]]
  <1>a. /\ TypeOK /\ MaxRetries \in Nat /\ CommandTicks \in Nat
        /\ deadline[s] \in Nat /\ attempt[s] \in Nat /\ timer[s] \in Nat
        /\ Resending(s) \in Nat
    <2>1. TypeOK /\ MaxRetries \in Nat /\ Ticks(TimeoutMs) \in Nat
      BY TicksType, ProviderAssumption DEF TypeInv
    <2>2. /\ deadline[s] \in 0..Ticks(TimeoutMs) /\ attempt[s] \in 0..MaxRetries
          /\ timer[s] \in Nat
      BY <2>1 DEF TypeOK
    <2>. QED
      BY <2>1, <2>2, CommandType, ResendingType
  <1>c. /\ step \in [Searches -> {"idle", "call", "backoff", "allow", "sent", "granted",
                                 "refused", "read", "done"}]
        /\ attempt \in [Searches -> 0..MaxRetries]
        /\ deadline \in [Searches -> 0..Ticks(TimeoutMs)]
        /\ timer \in [Searches -> Nat]
        /\ resends \in [Searches -> 0..RedisMaxRetries]
    BY <1>a DEF TypeOK
  <1>1. /\ Remaining(s) \in Nat \ {0}
        /\ Remaining(s) = deadline[s] + 2 * (MaxRetries - attempt[s])
                            + StepsOfAttempt[step[s]] + CommandLeft(s) + Resending(s)
        /\ StepsOfAttempt[step[s]] \in 1..5
        /\ CommandLeft(s) \in Nat
    <2>. MostRemaining \in Nat
      BY TicksType, <1>a, ResendingType, ProviderAssumption DEF MostRemaining
    <2>. QED
      BY <1>a, RemainingBounded
  <1>2. step'[s] = "done" => Nearer
    BY <1>1 DEF Remaining, Active
  <1>3. step'[s] \notin {"idle", "done"} =>
          Remaining(s)' = deadline'[s] + 2 * (MaxRetries - attempt'[s])
                            + StepsOfAttempt[step'[s]] + CommandLeft(s)' + Resending(s)'
    BY DEF Remaining, Active, Resending, CommandTicks, Ticks
  <1>d. resends'[s] = resends[s] => Resending(s)' = Resending(s)
    BY DEF Resending, CommandTicks, Ticks
  <1>e. /\ step[s] \in {"call", "backoff", "allow"} => CommandLeft(s) = CommandTicks
        /\ step[s] \in {"sent", "granted", "refused"} => CommandLeft(s) = timer[s]
        /\ step[s] = "read" => CommandLeft(s) = 0
        /\ step'[s] \in {"call", "backoff", "allow"} => CommandLeft(s)' = CommandTicks
        /\ step'[s] \in {"sent", "granted", "refused"} => CommandLeft(s)' = timer'[s]
        /\ step'[s] = "read" => CommandLeft(s)' = 0
    BY DEF CommandLeft, InFlight, CommandTicks, Ticks
  <1>4. ASSUME NEW q \in Searches, Begin(q) PROVE Still
    <2>1. q # s
      BY <1>4 DEF Begin
    <2>. QED
      BY <1>4, <2>1, OthersKeepRemaining DEF Begin
  <1>5. ASSUME NEW q \in Searches, ContextDone(q) PROVE Nearer \/ Still
    BY <1>c, <1>2, <1>5, OthersKeepRemaining DEF ContextDone, Return
  <1>6. ASSUME NEW q \in Searches, CallSucceeds(q) PROVE Nearer \/ Still
    <2>1. CASE q = s
      <3>1. /\ step[s] = "call" /\ step'[s] = "allow"
            /\ UNCHANGED <<deadline, attempt, resends>>
        BY <1>c, <1>6, <2>1 DEF CallSucceeds
      <3>. QED
        BY <1>a, <1>d, <1>e, <1>1, <1>3, <3>1, StepWeights
    <2>2. CASE q # s
      BY <1>6, <2>2, OthersKeepRemaining DEF CallSucceeds
    <2>. QED
      BY <2>1, <2>2
  <1>7. ASSUME NEW q \in Searches, CallFails(q) PROVE Nearer \/ Still
    <2>1. CASE q = s
      <3>1. /\ step[s] = "call" /\ step'[s] \in {"backoff", "done"}
            /\ UNCHANGED <<deadline, attempt, resends>>
        BY <1>c, <1>7, <2>1 DEF CallFails, Return
      <3>. QED
        BY <1>a, <1>d, <1>e, <1>1, <1>2, <1>3, <3>1, StepWeights
    <2>2. CASE q # s
      <3>1. /\ step'[s] = step[s] /\ timer'[s] = timer[s]
            /\ UNCHANGED <<deadline, attempt, resends>>
        BY <1>c, <1>7, <2>2 DEF CallFails, Return
      <3>. QED
        BY <3>1, OthersKeepRemaining
    <2>. QED
      BY <2>1, <2>2
  <1>8. ASSUME NEW q \in Searches, NextAttempt(q) PROVE Nearer \/ Still
    <2>1. CASE q = s
      <3>1. /\ step[s] = "backoff" /\ step'[s] = "call"
            /\ attempt'[s] = attempt[s] + 1 /\ UNCHANGED <<deadline, resends>>
        BY <1>c, <1>8, <2>1 DEF NextAttempt
      <3>. QED
        BY <1>a, <1>d, <1>e, <1>1, <1>3, <3>1, StepWeights
    <2>2. CASE q # s
      BY <1>8, <2>2, OthersKeepRemaining DEF NextAttempt
    <2>. QED
      BY <2>1, <2>2
  <1>9. ASSUME NEW q \in Searches, Allow(q) PROVE Nearer \/ Still
    <2>1. CASE q = s
      <3>1. /\ step[s] = "allow" /\ step'[s] = "sent" /\ timer'[s] = CommandTicks
            /\ UNCHANGED <<deadline, attempt, resends>>
        BY <1>c, <1>9, <2>1 DEF Allow
      <3>. QED
        BY <1>a, <1>d, <1>e, <1>1, <1>3, <3>1, StepWeights
    <2>2. CASE q # s
      BY <1>9, <2>2, OthersKeepRemaining DEF Allow
    <2>. QED
      BY <2>1, <2>2
  <1>15. ASSUME NEW q \in Searches, Execute(q) PROVE Nearer \/ Still
    <2>1. CASE q = s
      <3>1. /\ step[s] = "sent" /\ step'[s] \in {"granted", "refused"}
            /\ UNCHANGED <<deadline, attempt, resends, timer>>
        BY <1>c, <1>15, <2>1 DEF Execute
      <3>. QED
        BY <1>a, <1>d, <1>e, <1>1, <1>3, <3>1, StepWeights
    <2>2. CASE q # s
      <3>1. step'[s] = step[s] /\ UNCHANGED <<deadline, attempt, resends, timer>>
        BY <1>c, <1>15, <2>2 DEF Execute
      <3>. QED
        BY <3>1, OthersKeepRemaining
    <2>. QED
      BY <2>1, <2>2
  <1>16. ASSUME NEW q \in Searches, Answered(q) PROVE Nearer \/ Still
    <2>1. CASE q = s
      <3>1. /\ step[s] \in {"granted", "refused"} /\ step'[s] \in {"read", "done"}
            /\ UNCHANGED <<deadline, attempt, resends>>
        BY <1>c, <1>16, <2>1 DEF Answered, Return
      <3>. QED
        BY <1>a, <1>d, <1>e, <1>1, <1>2, <1>3, <3>1, StepWeights
    <2>2. CASE q # s
      <3>1. /\ step'[s] = step[s] /\ timer'[s] = timer[s]
            /\ UNCHANGED <<deadline, attempt, resends>>
        BY <1>c, <1>16, <2>2 DEF Answered, Return
      <3>. QED
        BY <3>1, OthersKeepRemaining
    <2>. QED
      BY <2>1, <2>2
  <1>10. ASSUME NEW q \in Searches, LimiterLost(q) PROVE Nearer \/ Still
    <2>1. CASE q = s /\ step'[s] = "allow"
      <3>1. /\ step[s] \in {"sent", "granted", "refused"}
            /\ UNCHANGED <<deadline, attempt>>
            /\ resends[s] # 0 /\ resends'[s] = resends[s] - 1
        BY <1>c, <1>10, <2>1 DEF LimiterLost, Return, InFlight
      <3>2. Resending(s) = Resending(s)' + 3 + CommandTicks /\ Resending(s)' \in Nat
        <4>. DEFINE w == 3 + CommandTicks
                    k == resends[s] - 1
        <4>1. Resending(s) = k * w + w
          BY <1>a, <3>1, ResendingType
        <4>2. Resending(s)' = k * w
          BY <3>1 DEF Resending, CommandTicks, Ticks
        <4>3. k \in Nat /\ w \in Nat
          BY <1>a, <1>c, <3>1, ProviderAssumption
        <4>. HIDE DEF k, w
        <4>4. k * w \in Nat
          BY <4>3, Multiples
        <4>5. Resending(s) = Resending(s)' + w /\ Resending(s)' \in Nat
          BY <4>1, <4>2, <4>4
        <4>. QED
          BY <4>5, <1>a DEF w
      <3>. QED
        BY <1>a, <1>e, <1>1, <1>3, <2>1, <3>1, <3>2, StepWeights
    <2>2. CASE q = s /\ step'[s] # "allow"
      BY <1>c, <1>2, <1>10, <2>2 DEF LimiterLost, Return
    <2>3. CASE q # s
      <3>1. /\ step'[s] = step[s] /\ timer'[s] = timer[s] /\ resends'[s] = resends[s]
            /\ UNCHANGED <<deadline, attempt>>
        BY <1>c, <1>10, <2>3 DEF LimiterLost, Return
      <3>. QED
        BY <3>1, OthersKeepRemaining
    <2>. QED
      BY <2>1, <2>2, <2>3
  <1>11. ASSUME NEW q \in Searches, Read(q) PROVE Nearer \/ Still
    BY <1>c, <1>2, <1>11, OthersKeepRemaining DEF Read, Return
  <1>12. ASSUME NEW q \in Searches, Cancel(q)
         PROVE  Remaining(s)' <= Remaining(s) /\ step'[s] = step[s]
    <2>1. UNCHANGED <<step, attempt, resends, timer>> /\ deadline'[s] \in {0, deadline[s]}
      BY <1>c, <1>12 DEF Cancel
    <2>2. step[s] \in {"call", "backoff", "allow", "sent", "granted", "refused", "read"}
      BY <1>c DEF Active
    <2>3. CommandLeft(s)' = CommandLeft(s)
      BY <1>e, <2>1, <2>2
    <2>. QED
      BY <1>a, <1>d, <1>1, <1>3, <2>1, <2>2, <2>3
  <1>13. CASE Tick
    <2>1. ~Ready(s) /\ UNCHANGED <<step, attempt, resends>>
      BY <1>13 DEF Tick
    <2>2. /\ timer[s] # 0 /\ timer'[s] = timer[s] - 1
          /\ deadline'[s] = IF deadline[s] = 0 THEN 0 ELSE deadline[s] - 1
      BY <1>a, <1>c, <1>13, <2>1 DEF Tick, Ready, Before
    <2>3. step[s] \in {"call", "backoff", "allow"} => deadline[s] # 0
      BY <2>1 DEF Ready, Interrupted, LimiterContextDone, Done
    <2>4. step[s] \in {"call", "backoff", "allow", "sent", "granted", "refused"}
      BY <1>c, <2>2 DEF Active, LateInv
    <2>5. Nearer
      <3>1. CASE step[s] \in {"call", "backoff", "allow"}
        BY <1>a, <1>d, <1>e, <1>1, <1>3, <2>1, <2>2, <2>3, <3>1
      <3>2. CASE step[s] \in {"sent", "granted", "refused"}
        BY <1>a, <1>d, <1>e, <1>1, <1>3, <2>1, <2>2, <3>2
      <3>. QED
        BY <2>4, <3>1, <3>2
    <2>. QED
      BY <1>1, <1>13, <2>5
  <1>14. ~Tick => \/ Nearer
                  \/ Still
                  \/ Remaining(s)' <= Remaining(s) /\ step'[s] = step[s]
    <2>1. CASE UNCHANGED vars
      <3>1. Still
        BY <2>1, OthersKeepRemaining DEF vars, searchVars
      <3>. QED
        BY <3>1
    <2>2. CASE \E q \in Searches :
                 \/ Begin(q) \/ ContextDone(q) \/ CallSucceeds(q) \/ CallFails(q)
                 \/ NextAttempt(q) \/ Allow(q) \/ Execute(q) \/ Answered(q)
                 \/ LimiterLost(q) \/ Read(q) \/ Cancel(q)
      BY <1>4, <1>5, <1>6, <1>7, <1>8, <1>9, <1>10, <1>11, <1>12, <1>15, <1>16, <2>2, Zenon
    <2>. QED
      BY <2>1, <2>2 DEF Next
  <1>. QED
    BY <1>1, <1>13, <1>14

\* Whatever the delays, the faults, the profile and the other searches are, a search
\* under way comes nearer to its end with each of its steps and with every tick, and at
\* no time does it have more left than the timeout's ticks, a step or two for each thing
\* it does, and its commands.
THEOREM SearchesAlwaysAdvance ==
  Spec => /\ SearchesAdvance
          /\ [](\A s \in Searches : Remaining(s) \in 0..MostRemaining)
  <1>1. TypeInv /\ LateInv /\ [Next]_vars =>
          [\A s \in Searches : Active(s) =>
             /\ Remaining(s)' <= Remaining(s)
             /\ Tick \/ step'[s] # step[s] => Remaining(s)' < Remaining(s)]_vars
    BY AdvanceNext
  <1>2. TypeInv /\ LateInv => \A s \in Searches : Remaining(s) \in 0..MostRemaining
    <2>. SUFFICES ASSUME TypeInv, LateInv, NEW s \in Searches
                  PROVE  Remaining(s) \in 0..MostRemaining
      OBVIOUS
    <2>1. MostRemaining \in Nat
      <3>. DEFINE most == RedisMaxRetries * (3 + CommandTicks)
      <3>1. most \in Nat
        BY ResendingType DEF TypeInv
      <3>. HIDE DEF most
      <3>2. MostRemaining = Ticks(TimeoutMs) + 2 * MaxRetries + 5 + CommandTicks + most
        BY DEF MostRemaining, most
      <3>. QED
        BY <3>1, <3>2, TicksType, CommandType, ProviderAssumption
    <2>2. CASE ~Active(s)
      BY <2>1, <2>2 DEF Remaining
    <2>3. CASE Active(s)
      BY <2>1, <2>3, RemainingBounded DEF TypeInv
    <2>. QED
      BY <2>2, <2>3
  <1>. QED
    BY <1>1, <1>2, TypeInit, TypeNext, LateInit, LateNext, PTL DEF Spec, SearchesAdvance

-----------------------------------------------------------------------------
(* The limiter *)

\* Each token of the last second is still owed for, but for its age; what is owed is
\* for no more than the tokens of the last second.
OwedAtLeast == \A i \in 1..2 * RateLimitRPS :
  grants[i] < Second => i * EmissionInterval <= tat + grants[i]
OwedAtMost == \A i \in 1..2 * RateLimitRPS :
  tat + grants[i] <= (i - 1) * EmissionInterval + Second

LimiterInv == tat <= Second /\ OwedAtLeast /\ OwedAtMost

LEMMA LimiterInit == Init => LimiterInv
  <1>. SUFFICES ASSUME Init PROVE LimiterInv
    OBVIOUS
  <1>1. tat = 0 /\ \A i \in 1..2 * RateLimitRPS : grants[i] = Second
    BY DEF Init
  <1>2. \A i \in 1..2 * RateLimitRPS : (i - 1) * EmissionInterval \in Nat
    BY IntervalType, Multiples, ProviderAssumption
  <1>. QED
    BY <1>1, <1>2, IntervalType DEF LimiterInv, OwedAtLeast, OwedAtMost

LEMMA GrantKeeps == ASSUME TypeOK, LimiterInv, Grant PROVE LimiterInv'
  <1>. DEFINE e == EmissionInterval
              n == 2 * RateLimitRPS
  <1>1. e \in Nat /\ Second \in Nat /\ tat \in Nat /\ tat' = tat + e /\ tat' <= Second
    BY IntervalType DEF TypeOK, Grant
  <1>2. \A i \in 1..n : grants[i] \in 0..Second
    BY DEF TypeOK
  <1>3. \A i \in 1..n : grants'[i] = IF i = 1 THEN 0 ELSE grants[i - 1]
    BY DEF Grant
  <1>4. n \in Nat
    BY ProviderAssumption
  <1>. HIDE DEF e, n
  <1>5. ASSUME NEW i \in 1..n
        PROVE  /\ grants'[i] < Second => i * e <= tat' + grants'[i]
               /\ tat' + grants'[i] <= (i - 1) * e + Second
    <2>1. CASE i = 1
      <3>1. grants'[i] = 0 /\ i * e = e /\ (i - 1) * e = 0
        BY <2>1, <1>1, <1>3
      <3>. QED
        BY <3>1, <1>1
    <2>2. CASE i # 1
      <3>. DEFINE j == i - 1
      <3>1. j \in 1..n /\ j \in Nat /\ j # 0 /\ i = j + 1
        BY <2>2, <1>4
      <3>2. grants'[i] = grants[j]
        BY <2>2, <1>3
      <3>3. /\ grants[j] < Second => j * e <= tat + grants[j]
            /\ tat + grants[j] <= (j - 1) * e + Second
        BY <3>1 DEF LimiterInv, OwedAtLeast, OwedAtMost, e, n
      <3>. HIDE DEF j
      <3>4. j * e \in Nat /\ (j - 1) * e \in Nat /\ i * e = j * e + e
            /\ (i - 1) * e = (j - 1) * e + e
        <4>1. (j + 1) * e = j * e + e /\ j * e = (j - 1) * e + e
              /\ j * e \in Nat /\ (j - 1) * e \in Nat
          BY <3>1, <1>1, Multiples
        <4>2. i - 1 = j
          BY <3>1
        <4>. QED
          BY <3>1, <4>1, <4>2
      <3>5. grants[j] \in Nat
        BY <3>1, <1>2, <1>1
      <3>. QED
        BY <3>2, <3>3, <3>4, <3>5, <1>1
    <2>. QED
      BY <2>1, <2>2
  <1>. QED
    BY <1>1, <1>5, Zenon DEF LimiterInv, OwedAtLeast, OwedAtMost, e, n

LEMMA TickKeeps == ASSUME TypeOK, LimiterInv, Tick PROVE LimiterInv'
  <1>. DEFINE e == EmissionInterval
              n == 2 * RateLimitRPS
  <1>1. e \in Nat /\ Second \in Nat /\ tat \in Nat
    BY IntervalType DEF TypeOK
  <1>2. tat' = (IF tat = 0 THEN 0 ELSE tat - 1) /\ tat <= Second
    BY DEF Tick, Before, LimiterInv
  <1>3. \A i \in 1..n :
          grants'[i] = IF grants[i] < Second THEN grants[i] + 1 ELSE Second
    BY DEF Tick, Older
  <1>4. \A i \in 1..n : grants[i] \in 0..Second
    BY DEF TypeOK
  <1>. HIDE DEF e, n
  <1>5. ASSUME NEW i \in 1..n
        PROVE  /\ grants'[i] < Second => i * e <= tat' + grants'[i]
               /\ tat' + grants'[i] <= (i - 1) * e + Second
    <2>1. /\ grants[i] < Second => i * e <= tat + grants[i]
          /\ tat + grants[i] <= (i - 1) * e + Second
      BY DEF LimiterInv, OwedAtLeast, OwedAtMost, e, n
    <2>2. i * e \in Nat /\ (i - 1) * e \in Nat
      BY <1>1, Multiples
    <2>3. /\ grants'[i] = IF grants[i] < Second THEN grants[i] + 1 ELSE Second
          /\ grants[i] \in 0..Second
      BY <1>3, <1>4
    <2>. DEFINE k == i * e
                l == (i - 1) * e
    <2>. HIDE DEF k, l
    <2>4. /\ grants'[i] < Second => k <= tat' + grants'[i]
          /\ tat' + grants'[i] <= l + Second
      BY <2>1, <2>2, <2>3, <1>1, <1>2 DEF k, l
    <2>. QED
      BY <2>4 DEF k, l
  <1>6. tat' <= Second
    BY <1>1, <1>2
  <1>. QED
    BY <1>5, <1>6, Zenon DEF LimiterInv, OwedAtLeast, OwedAtMost, e, n

LEMMA LimiterNext == TypeInv /\ LimiterInv /\ [Next]_vars => LimiterInv'
  <1>. SUFFICES ASSUME TypeInv, LimiterInv, [Next]_vars PROVE LimiterInv'
    OBVIOUS
  <1>1. TypeOK
    BY DEF TypeInv
  <1>2. CASE UNCHANGED <<tat, grants>>
    BY <1>2 DEF LimiterInv, OwedAtLeast, OwedAtMost
  <1>3. ASSUME NEW s \in Searches,
               \/ Begin(s) \/ ContextDone(s) \/ CallSucceeds(s) \/ CallFails(s)
               \/ NextAttempt(s) \/ Allow(s) \/ Answered(s) \/ LimiterLost(s)
               \/ Read(s) \/ Cancel(s)
        PROVE  UNCHANGED <<tat, grants>>
    BY <1>3 DEF Begin, ContextDone, CallSucceeds, CallFails, NextAttempt, Allow,
                Answered, LimiterLost, Read, Cancel
  <1>4. ASSUME NEW s \in Searches, Execute(s)
        PROVE  Grant \/ UNCHANGED <<tat, grants>>
    BY <1>4 DEF Execute
  <1>5. CASE Grant
    BY <1>1, <1>5, GrantKeeps
  <1>6. CASE Tick
    BY <1>1, <1>6, TickKeeps
  <1>7. UNCHANGED vars => UNCHANGED <<tat, grants>>
    BY DEF vars
  <1>. QED
    BY <1>2, <1>3, <1>4, <1>5, <1>6, <1>7 DEF Next

\* The limiter is no stricter and no laxer than its rate, for any rate, any number of
\* searches and any loss of replies.
THEOREM LimiterInvariant == Spec => [](TypeInv /\ LimiterInv)
  BY TypeInit, TypeNext, LimiterInit, LimiterNext, PTL DEF Spec

\* Within one second fewer tokens are granted than a burst and the refill of one: the
\* last second has no token that is the 2 * RateLimitRPS-th last.
THEOREM LimiterGrantsBounded == Spec => []GrantsBounded
  <1>1. TypeInv /\ LimiterInv => GrantsBounded
    <2>. SUFFICES ASSUME TypeInv, LimiterInv PROVE GrantsBounded
      OBVIOUS
    <2>. DEFINE n == 2 * RateLimitRPS
    <2>1. n \in 1..n /\ n \in Nat
      BY ProviderAssumption
    <2>2. grants[n] \in 0..Second /\ tat \in Nat /\ Second \in Nat
      BY <2>1, IntervalType DEF TypeInv, TypeOK
    <2>3. tat <= Second /\ (grants[n] < Second => n * EmissionInterval <= tat + grants[n])
      BY <2>1 DEF LimiterInv, OwedAtLeast
    <2>4. n * EmissionInterval = Second + Second
      BY IntervalType, ProviderAssumption
    <2>. QED
      BY <2>2, <2>3, <2>4 DEF GrantsBounded
  <1>. QED
    BY <1>1, LimiterInvariant, PTL

\* A search is refused only if a full quota of tokens was granted within the last
\* second: a lost reply or a cancelled search costs nobody else a token.
THEOREM LimiterRefusesOnlyAtLimit == Spec => RefusedOnlyAtLimit
  <1>1. TypeInv /\ LimiterInv /\ ~TokenAvailable => grants[RateLimitRPS] < Second
    <2>. SUFFICES ASSUME TypeInv, LimiterInv, ~TokenAvailable
                  PROVE  grants[RateLimitRPS] < Second
      OBVIOUS
    <2>. DEFINE n == RateLimitRPS
    <2>1. n \in 1..2 * RateLimitRPS /\ n \in Nat \ {0}
      BY ProviderAssumption
    <2>2. grants[n] \in 0..Second /\ tat \in Nat /\ Second \in Nat
          /\ EmissionInterval \in Nat
      BY <2>1, IntervalType DEF TypeInv, TypeOK
    <2>3. tat + grants[n] <= (n - 1) * EmissionInterval + Second
      BY <2>1 DEF LimiterInv, OwedAtMost
    <2>4. Second < tat + EmissionInterval
      BY <2>2, IntervalType
    <2>5. (n - 1) * EmissionInterval + EmissionInterval = Second
          /\ (n - 1) * EmissionInterval \in Nat
      BY <2>1, IntervalType, Multiples
    <2>. QED
      BY <2>2, <2>3, <2>4, <2>5
  <1>2. TypeInv /\ [Next]_vars =>
          \A s \in Searches : step[s] # "refused" /\ step'[s] = "refused"
            => ~TokenAvailable
    <2>. SUFFICES ASSUME TypeInv, [Next]_vars, NEW s \in Searches,
                         step[s] # "refused", step'[s] = "refused"
                  PROVE  ~TokenAvailable
      OBVIOUS
    <2>. USE DEF TypeInv, TypeOK
    <2>1. ASSUME NEW t \in Searches, Execute(t) PROVE ~TokenAvailable
      BY <2>1 DEF Execute
    <2>2. ASSUME NEW t \in Searches,
                 \/ Begin(t) \/ ContextDone(t) \/ CallSucceeds(t) \/ CallFails(t)
                 \/ NextAttempt(t) \/ Allow(t) \/ Answered(t) \/ LimiterLost(t)
                 \/ Read(t) \/ Cancel(t)
          PROVE  FALSE
      BY <2>2 DEF Begin, ContextDone, CallSucceeds, CallFails, NextAttempt, Allow,
         Answered, LimiterLost, Read, Cancel, Return
    <2>3. ~Tick /\ ~UNCHANGED vars
      BY DEF Tick, vars, searchVars
    <2>. QED
      BY <2>1, <2>2, <2>3 DEF Next
  <1>3. TypeInv /\ LimiterInv /\ [Next]_vars =>
          [\A s \in Searches : step[s] # "refused" /\ step'[s] = "refused"
             => grants[RateLimitRPS] < Second]_vars
    BY <1>1, <1>2
  <1>. QED
    BY <1>3, LimiterInvariant, PTL DEF RefusedOnlyAtLimit, Spec

-----------------------------------------------------------------------------
(* Retries *)

\* What all attempts may take: the delays, the backoffs, which double from 200ms, and
\* a tick for every wait that is rounded up.
LongestSearchMs(p) ==
  200 * (PowerOfTwo[MaxRetries] - 1) + (MaxRetries + 1) * p.delayMs[2] + (2 * MaxRetries + 1) * TickMs
TimeoutCoversRetries == \A p \in Profiles : LongestSearchMs(p) < TimeoutMs

\* What may still be ahead of a search, in ms, when its n-th call or backoff ends.
AfterCall(n) ==
  200 * (PowerOfTwo[MaxRetries] - PowerOfTwo[n]) + (MaxRetries - n) * (profile.delayMs[2] + 2 * TickMs)
AfterBackoff(n) == profile.delayMs[2] + TickMs + AfterCall(n + 1)

\* While its client stays, a search that waits has time for that and more.
RetriesInv ==
  \A s \in Searches :
    /\ step[s] \in {"call", "backoff"} /\ ~cancelled[s] =>
         timer[s] * TickMs
           + (IF step[s] = "call" THEN AfterCall(attempt[s]) ELSE AfterBackoff(attempt[s]))
         < deadline[s] * TickMs
    /\ result[s] = "contextDone" => cancelled[s]

\* A wait takes at least what was asked for and less than a tick more.
LEMMA TicksRoundUp ==
  \A ms \in Nat : /\ ms <= Ticks(ms) * TickMs
                  /\ Ticks(ms) * TickMs < ms + TickMs
  <1>1. \A x \in Nat, y \in Nat \ {0} : /\ x \div y \in Nat
                                        /\ (x \div y) * y <= x
                                        /\ x < (x \div y) * y + y
    OBVIOUS
  <1>. SUFFICES ASSUME NEW ms \in Nat
                PROVE  /\ ms <= Ticks(ms) * TickMs
                       /\ Ticks(ms) * TickMs < ms + TickMs
    OBVIOUS
  <1>2. TickMs \in Nat \ {0} /\ ms + TickMs - 1 \in Nat
    BY ProviderAssumption
  <1>. DEFINE t == Ticks(ms) * TickMs
  <1>3. t <= ms + TickMs - 1 /\ ms + TickMs - 1 < t + TickMs /\ t \in Nat
    BY <1>1, <1>2, TicksType DEF Ticks
  <1>. HIDE DEF t
  <1>4. ms <= t /\ t < ms + TickMs
    BY <1>2, <1>3
  <1>. QED
    BY <1>4 DEF t

\* The powers grow.
LEMMA LastPowerGreatest == \A n \in 0..MaxRetries : PowerOfTwo[n] <= PowerOfTwo[MaxRetries]
  <1>. DEFINE T == {k \in 0..MaxRetries : ~(PowerOfTwo[MaxRetries - k] <= PowerOfTwo[MaxRetries])}
  <1>1. MaxRetries \in Nat /\ T \in SUBSET Nat
    BY ProviderAssumption
  <1>2. T = {}
    <2>. SUFFICES ASSUME T # {} PROVE FALSE
      OBVIOUS
    <2>1. PICK k \in T : \A j \in T : k <= j
      BY <1>1, LeastNatural, Zenon
    <2>2. k \in 0..MaxRetries /\ ~(PowerOfTwo[MaxRetries - k] <= PowerOfTwo[MaxRetries])
      BY <2>1
    <2>3. PowerOfTwo[MaxRetries] \in Nat
      BY <1>1, Doubling
    <2>4. k # 0
      <3>1. MaxRetries - 0 = MaxRetries
        BY <1>1
      <3>. QED
        BY <2>2, <2>3, <3>1
    <2>. DEFINE n == MaxRetries - k
    <2>5. n \in 0..MaxRetries /\ n + 1 = MaxRetries - (k - 1)
          /\ k - 1 \in 0..MaxRetries /\ ~(k <= k - 1)
      BY <1>1, <2>2, <2>4
    <2>6. PowerOfTwo[MaxRetries - (k - 1)] <= PowerOfTwo[MaxRetries]
      BY <2>1, <2>5
    <2>7. PowerOfTwo[n] \in Nat /\ PowerOfTwo[n + 1] = 2 * PowerOfTwo[n]
      BY <2>5, Doubling
    <2>8. 2 * PowerOfTwo[n] <= PowerOfTwo[MaxRetries]
      BY <2>5, <2>6, <2>7
    <2>. QED
      BY <2>2, <2>3, <2>7, <2>8
  <1>3. ASSUME NEW n \in 0..MaxRetries PROVE PowerOfTwo[n] <= PowerOfTwo[MaxRetries]
    <2>1. MaxRetries - n \in 0..MaxRetries /\ MaxRetries - (MaxRetries - n) = n
      BY <1>1
    <2>. QED
      BY <1>2, <2>1
  <1>. QED
    BY <1>3

\* What is ahead when a call fails covers its backoff and what is ahead then.
LEMMA AheadShrinks ==
  ASSUME profile \in Profiles, NEW n \in 0..MaxRetries
  PROVE  /\ AfterCall(n) \in Nat /\ profile.delayMs[2] \in Nat
         /\ n < MaxRetries =>
              /\ AfterBackoff(n) \in Nat
              /\ Backoff(n) * TickMs + AfterBackoff(n) < AfterCall(n)
  <1>. DEFINE d == profile.delayMs[2]
              e == d + 2 * TickMs
              p == PowerOfTwo[n]
              q == PowerOfTwo[MaxRetries]
  <1>1. d \in Nat /\ TickMs \in Nat \ {0} /\ MaxRetries \in Nat
    BY ProviderAssumption, DelaysAreMs
  <1>2. p \in Nat /\ q \in Nat /\ p <= q
    BY <1>1, Doubling, LastPowerGreatest
  <1>3. e \in Nat
    BY <1>1
  <1>. HIDE DEF d, e, p, q
  <1>4. (MaxRetries - n) * e \in Nat
    BY <1>1, <1>3
  <1>5. AfterCall(n) = 200 * (q - p) + (MaxRetries - n) * e
    BY DEF AfterCall, d, e, p, q
  <1>6. ASSUME n < MaxRetries
        PROVE  /\ AfterBackoff(n) \in Nat
               /\ Backoff(n) * TickMs + AfterBackoff(n) < AfterCall(n)
    <2>1. n + 1 \in 0..MaxRetries /\ PowerOfTwo[n + 1] = 2 * p /\ 2 * p <= q
      <3>1. n + 1 \in 0..MaxRetries
        BY <1>1, <1>6
      <3>. QED
        BY <3>1, Doubling, LastPowerGreatest DEF p, q
    <2>. DEFINE m == MaxRetries - (n + 1)
                b == Backoff(n) * TickMs
    <2>2. m \in Nat /\ MaxRetries - n = m + 1
      BY <1>1, <2>1
    <2>. HIDE DEF m
    <2>3. (MaxRetries - n) * e = m * e + e /\ m * e \in Nat
      BY <2>2, <1>3, Multiples
    <2>4. AfterBackoff(n) = d + TickMs + (200 * (q - 2 * p) + m * e)
      BY <2>1 DEF AfterBackoff, AfterCall, d, e, q, m
    <2>5. b \in Int /\ b < 200 * p + TickMs
      <3>1. 200 * p \in Nat
        BY <1>2
      <3>2. Backoff(n) = Ticks(200 * p) /\ Backoff(n) \in Nat
        BY BackoffType DEF Backoff, p
      <3>. QED
        BY <3>1, <3>2, <1>1, TicksRoundUp
    <2>. DEFINE me == m * e
    <2>. HIDE DEF b, me
    <2>6. e = d + 2 * TickMs
      BY DEF e
    <2>7. AfterBackoff(n) \in Nat
      BY <2>3, <2>4, <1>1, <1>2, <2>1 DEF me
    <2>8. AfterCall(n) = 200 * (q - p) + (me + e)
      BY <1>5, <2>3 DEF me
    <2>9. AfterBackoff(n) = d + TickMs + (200 * (q - 2 * p) + me) /\ me \in Nat
      BY <2>3, <2>4 DEF me
    <2>10. b + AfterBackoff(n) < AfterCall(n)
      BY <2>5, <2>6, <2>8, <2>9, <1>1, <1>2, <1>3
    <2>. QED
      BY <2>7, <2>10 DEF b
  <1>7. AfterCall(n) \in Nat
    BY <1>2, <1>4, <1>5
  <1>. QED
    BY <1>1, <1>6, <1>7 DEF d

\* The delay of a call takes less than a tick more than the longest there is.
LEMMA DelayFits ==
  ASSUME profile \in Profiles, NEW d \in Delays
  PROVE  d \in Nat /\ d * TickMs \in Nat /\ d * TickMs < profile.delayMs[2] + TickMs
  <1>. DEFINE first == Ticks(profile.delayMs[1])
              last == Ticks(profile.delayMs[2])
  <1>1. profile.delayMs[2] \in Nat /\ first \in Nat /\ last \in Nat /\ TickMs \in Nat
    BY DelaysAreMs, DelaysType, ProviderAssumption
  <1>2. d \in first..last
    BY DEF Delays
  <1>3. last * TickMs < profile.delayMs[2] + TickMs
    BY <1>1, TicksRoundUp
  <1>. HIDE DEF first, last
  <1>4. d \in Nat /\ d <= last
    BY <1>1, <1>2
  <1>5. d * TickMs \in Nat /\ last * TickMs \in Nat /\ d * TickMs <= last * TickMs
    BY <1>1, <1>4, ProductOrder
  <1>. QED
    BY <1>1, <1>3, <1>4, <1>5

LEMMA RetriesInit == Init => RetriesInv
  BY DEF Init, RetriesInv

\* A step that leaves the waits alone, or ends one without the context, keeps it.
LEMMA RetriesFrame ==
  ASSUME RetriesInv, NEW s \in Searches, UNCHANGED profile,
         \A q \in Searches :
           /\ q # s => /\ step'[q] = step[q] /\ attempt'[q] = attempt[q]
                       /\ timer'[q] = timer[q] /\ deadline'[q] = deadline[q]
                       /\ result'[q] = result[q] /\ cancelled'[q] = cancelled[q],
         cancelled'[s] \/ step'[s] \notin {"call", "backoff"}
           \/ timer'[s] * TickMs
                + (IF step'[s] = "call" THEN AfterCall(attempt'[s])
                   ELSE AfterBackoff(attempt'[s]))
              < deadline'[s] * TickMs,
         result'[s] = "contextDone" => cancelled'[s]
  PROVE  RetriesInv'
  <1>1. /\ \A n : AfterCall(n)' = AfterCall(n) /\ AfterBackoff(n)' = AfterBackoff(n)
    BY DEF AfterCall, AfterBackoff
  <1>. QED
    BY <1>1 DEF RetriesInv, AfterCall, AfterBackoff

LEMMA RetriesNext ==
  TimeoutCoversRetries /\ TypeInv /\ RetriesInv /\ [Next]_vars => RetriesInv'
  <1>. SUFFICES ASSUME TimeoutCoversRetries, TypeInv, RetriesInv, [Next]_vars
                PROVE  RetriesInv'
    OBVIOUS
  <1>. USE DEF TypeInv, TypeOK
  <1>a. profile \in Profiles /\ TickMs \in Nat \ {0} /\ MaxRetries \in Nat /\ TimeoutMs \in Nat
    BY ProviderAssumption
  <1>b. \A d \in Delays : d \in Nat /\ d * TickMs \in Nat
                          /\ d * TickMs < profile.delayMs[2] + TickMs
    BY <1>a, DelayFits
  <1>1. ASSUME NEW s \in Searches, Begin(s) PROVE RetriesInv'
    <2>1. PICK d \in Delays : timer' = [timer EXCEPT ![s] = d]
      BY <1>1 DEF Begin
    <2>2. TimeoutMs <= Ticks(TimeoutMs) * TickMs /\ Ticks(TimeoutMs) \in Nat
      BY <1>a, TicksRoundUp, TicksType
    <2>3. profile.delayMs[2] + TickMs + AfterCall(0) < TimeoutMs
      <3>. DEFINE d2 == profile.delayMs[2]
                  e == d2 + 2 * TickMs
      <3>1. d2 \in Nat
        BY <1>a, DelaysAreMs
      <3>2. AfterCall(0) = 200 * (PowerOfTwo[MaxRetries] - 1) + MaxRetries * e
        BY <1>a, Doubling DEF AfterCall
      <3>3. 200 * (PowerOfTwo[MaxRetries] - 1) + (MaxRetries + 1) * d2 + (2 * MaxRetries + 1) * TickMs
              < TimeoutMs
        BY <1>a DEF TimeoutCoversRetries, LongestSearchMs
      <3>4. PowerOfTwo[MaxRetries] \in Nat
        BY <1>a, Doubling
      <3>. HIDE DEF d2
      <3>. DEFINE x == MaxRetries * d2
                  y == 2 * MaxRetries * TickMs
                  z == PowerOfTwo[MaxRetries]
      <3>5. /\ MaxRetries * e = x + y /\ (MaxRetries + 1) * d2 = x + d2
            /\ (2 * MaxRetries + 1) * TickMs = y + TickMs
            /\ x \in Nat /\ y \in Nat
        BY <1>a, <3>1
      <3>. HIDE DEF x, y, z, e
      <3>6. 200 * (z - 1) + (x + d2) + (y + TickMs) < TimeoutMs
        BY <3>3, <3>5 DEF z
      <3>7. AfterCall(0) = 200 * (z - 1) + (x + y)
        BY <3>2, <3>5 DEF z
      <3>8. z \in Nat
        BY <3>4 DEF z
      <3>9. d2 + TickMs + AfterCall(0) < TimeoutMs
        BY <1>a, <3>1, <3>5, <3>6, <3>7, <3>8
      <3>. QED
        BY <3>9 DEF d2
    <2>4. /\ step'[s] = "call" /\ attempt'[s] = 0 /\ timer'[s] = d
          /\ deadline'[s] = Ticks(TimeoutMs) /\ result'[s] = "none"
      BY <1>1, <2>1 DEF Begin
    <2>5. AfterCall(0) \in Nat /\ profile.delayMs[2] \in Nat
      BY <1>a, AheadShrinks
    <2>6. d * TickMs + AfterCall(0) < Ticks(TimeoutMs) * TickMs
      <3>. DEFINE x == d * TickMs
                  y == AfterCall(0)
                  z == Ticks(TimeoutMs) * TickMs
                  d2 == profile.delayMs[2]
      <3>1. x \in Nat /\ x < d2 + TickMs
        BY <1>b
      <3>2. z \in Nat /\ TimeoutMs <= z
        BY <1>a, <2>2
      <3>3. d2 + TickMs + y < TimeoutMs /\ y \in Nat /\ d2 \in Nat
        BY <2>3, <2>5
      <3>. HIDE DEF x, y, z, d2
      <3>4. x + y < z
        BY <1>a, <3>1, <3>2, <3>3
      <3>. QED
        BY <3>4 DEF x, y, z
    <2>. QED
      BY <1>1, <2>1, <2>4, <2>6, RetriesFrame DEF Begin
  <1>12. ASSUME NEW s \in Searches, ContextDone(s), step[s] = "allow" PROVE RetriesInv'
    BY <1>12, RetriesFrame DEF ContextDone, Return
  <1>2. ASSUME NEW s \in Searches, ContextDone(s), step[s] # "allow" PROVE RetriesInv'
    <2>1. cancelled[s]
      <3>. SUFFICES ASSUME ~cancelled[s] PROVE FALSE
        OBVIOUS
      <3>. DEFINE ahead == IF step[s] = "call" THEN AfterCall(attempt[s])
                           ELSE AfterBackoff(attempt[s])
      <3>1. timer[s] * TickMs + ahead < deadline[s] * TickMs /\ deadline[s] = 0
        BY <1>2 DEF ContextDone, Interrupted, Done, RetriesInv
      <3>2. attempt[s] \in 0..MaxRetries /\ (step[s] # "call" => attempt[s] < MaxRetries)
        BY <1>2 DEF ContextDone, Interrupted
      <3>3. ahead \in Nat
        BY <3>2, <1>a, AheadShrinks
      <3>4. timer[s] * TickMs \in Nat /\ 0 * TickMs = 0
        BY <1>a
      <3>. QED
        BY <3>1, <3>3, <3>4
    <2>. QED
      BY <1>2, <2>1, RetriesFrame DEF ContextDone, Return
  <1>3. ASSUME NEW s \in Searches, CallSucceeds(s) PROVE RetriesInv'
    BY <1>3, RetriesFrame DEF CallSucceeds, RetriesInv
  <1>4. ASSUME NEW s \in Searches, CallFails(s) PROVE RetriesInv'
    <2>1. CASE attempt[s] < MaxRetries
      <3>. DEFINE n == attempt[s]
      <3>0. /\ step' = [step EXCEPT ![s] = "backoff"]
            /\ timer' = [timer EXCEPT ![s] = Backoff(n)]
            /\ UNCHANGED <<profile, attempt, deadline, result, cancelled>>
        <4>1. n \in Int /\ ~(n >= MaxRetries)
          BY <2>1, <1>a
        <4>. QED
          BY <1>4, <4>1 DEF CallFails
      <3>1. /\ step'[s] = "backoff" /\ attempt'[s] = n /\ timer'[s] = Backoff(n)
            /\ deadline'[s] = deadline[s] /\ result'[s] = result[s]
            /\ cancelled'[s] = cancelled[s]
        BY <3>0
      <3>2. ~cancelled[s] => AfterCall(n) < deadline[s] * TickMs
        <4>1. 0 * TickMs = 0 /\ AfterCall(n) \in Nat
          BY <1>a, AheadShrinks
        <4>. QED
          BY <1>4, <4>1 DEF CallFails, RetriesInv
      <3>3. /\ Backoff(n) * TickMs + AfterBackoff(n) < AfterCall(n)
            /\ AfterCall(n) \in Nat /\ AfterBackoff(n) \in Nat
        BY <2>1, <1>a, AheadShrinks
      <3>4. Backoff(n) * TickMs \in Nat /\ deadline[s] * TickMs \in Nat
        <4>1. Backoff(n) \in Nat /\ deadline[s] \in Nat
          BY <1>a, BackoffType, TicksType
        <4>. QED
          BY <4>1, <1>a
      <3>5. ~cancelled[s] => Backoff(n) * TickMs + AfterBackoff(n) < deadline[s] * TickMs
        BY <3>2, <3>3, <3>4
      <3>6. result[s] = "contextDone" => cancelled[s]
        BY DEF RetriesInv
      <3>. QED
        BY <3>0, <3>1, <3>5, <3>6, RetriesFrame
    <2>2. CASE ~(attempt[s] < MaxRetries)
      BY <1>4, <2>2, RetriesFrame DEF CallFails, Return
    <2>. QED
      BY <2>1, <2>2
  <1>5. ASSUME NEW s \in Searches, NextAttempt(s) PROVE RetriesInv'
    <2>1. PICK d \in Delays : timer' = [timer EXCEPT ![s] = d]
      BY <1>5 DEF NextAttempt
    <2>. DEFINE n == attempt[s] + 1
    <2>2. n \in 0..MaxRetries
      BY <1>5, <1>a DEF NextAttempt
    <2>3. /\ step'[s] = "call" /\ attempt'[s] = n /\ timer'[s] = d
          /\ deadline'[s] = deadline[s] /\ result'[s] = result[s]
          /\ cancelled'[s] = cancelled[s]
      BY <1>5, <2>1 DEF NextAttempt
    <2>4. AfterCall(n) \in Nat /\ profile.delayMs[2] \in Nat
      BY <1>a, <2>2, AheadShrinks
    <2>. HIDE DEF n
    <2>5. ~cancelled[s] => profile.delayMs[2] + TickMs + AfterCall(n) < deadline[s] * TickMs
      <3>1. timer[s] * TickMs = 0 /\ step[s] = "backoff"
        BY <1>5, <1>a DEF NextAttempt
      <3>2. AfterBackoff(attempt[s]) = profile.delayMs[2] + TickMs + AfterCall(n)
        BY DEF AfterBackoff, n
      <3>3. ~cancelled[s] => 0 + AfterBackoff(attempt[s]) < deadline[s] * TickMs
        BY <3>1 DEF RetriesInv
      <3>4. AfterBackoff(attempt[s]) \in Nat
        BY <3>2, <2>4, <1>a
      <3>. QED
        BY <3>2, <3>3, <3>4
    <2>6. d * TickMs \in Nat /\ d * TickMs < profile.delayMs[2] + TickMs
          /\ deadline[s] * TickMs \in Nat
      <3>1. deadline[s] \in Nat
        BY TicksType, <1>a
      <3>. QED
        BY <1>a, <1>b, <3>1
    <2>7. ~cancelled[s] => d * TickMs + AfterCall(n) < deadline[s] * TickMs
      <3>. DEFINE x == d * TickMs
                  y == AfterCall(n)
                  z == deadline[s] * TickMs
                  d2 == profile.delayMs[2]
      <3>1. x \in Nat /\ x < d2 + TickMs /\ z \in Nat /\ y \in Nat /\ d2 \in Nat
        BY <2>4, <2>6
      <3>2. ~cancelled[s] => d2 + TickMs + y < z
        BY <2>5
      <3>. HIDE DEF x, y, z, d2
      <3>3. d2 + TickMs + y < z => x + y < z
        BY <3>1, <1>a
      <3>. QED
        BY <3>2, <3>3 DEF x, y, z
    <2>8. result[s] = "contextDone" => cancelled[s]
      BY DEF RetriesInv
    <2>. QED
      BY <1>5, <2>1, <2>3, <2>7, <2>8, RetriesFrame DEF NextAttempt
  <1>6. ASSUME NEW s \in Searches, Allow(s) \/ Execute(s) \/ Answered(s) PROVE RetriesInv'
    <2>1. CASE Allow(s)
      BY <2>1, RetriesFrame DEF Allow, RetriesInv
    <2>2. CASE Execute(s)
      BY <2>2, RetriesFrame DEF Execute, RetriesInv
    <2>3. CASE Answered(s)
      <3>1. /\ step'[s] \in {"read", "done"} /\ UNCHANGED <<profile, attempt, deadline, cancelled>>
            /\ \A q \in Searches : q # s =>
                 step'[q] = step[q] /\ timer'[q] = timer[q] /\ result'[q] = result[q]
            /\ result'[s] = "contextDone" => result[s] = "contextDone"
        BY <2>3 DEF Answered, Return
      <3>2. result'[s] = "contextDone" => cancelled'[s]
        BY <3>1 DEF RetriesInv
      <3>. QED
        BY <3>1, <3>2, RetriesFrame
    <2>. QED
      BY <1>6, <2>1, <2>2, <2>3
  <1>7. ASSUME NEW s \in Searches, LimiterLost(s) PROVE RetriesInv'
    BY <1>7, RetriesFrame DEF LimiterLost, Return, RetriesInv
  <1>8. ASSUME NEW s \in Searches, Read(s) PROVE RetriesInv'
    BY <1>8, RetriesFrame DEF Read, Return
  <1>9. ASSUME NEW s \in Searches, Cancel(s) PROVE RetriesInv'
    BY <1>9, RetriesFrame DEF Cancel
  <1>10. CASE Tick
    <2>1. UNCHANGED <<profile, step, attempt, result, cancelled>>
      BY <1>10 DEF Tick
    <2>2. \A n : AfterCall(n)' = AfterCall(n) /\ AfterBackoff(n)' = AfterBackoff(n)
      BY <2>1 DEF AfterCall, AfterBackoff
    <2>3. ASSUME NEW s \in Searches, step[s] \in {"call", "backoff"}
          PROVE  /\ timer[s] # 0 /\ deadline[s] # 0
                 /\ timer'[s] = timer[s] - 1 /\ deadline'[s] = deadline[s] - 1
      BY <1>10, <2>3 DEF Tick, Ready, Active, Interrupted, Done, Before
    <2>4. ASSUME NEW s \in Searches, NEW a \in Int, step[s] \in {"call", "backoff"},
                 timer[s] * TickMs + a < deadline[s] * TickMs
          PROVE  timer'[s] * TickMs + a < deadline'[s] * TickMs
      <3>1. timer[s] \in Nat /\ deadline[s] \in Nat
        BY TicksType, <1>a
      <3>2. /\ (timer[s] - 1) * TickMs = timer[s] * TickMs - TickMs
            /\ (deadline[s] - 1) * TickMs = deadline[s] * TickMs - TickMs
            /\ timer[s] * TickMs \in Int /\ deadline[s] * TickMs \in Int
        BY <3>1, <1>a
      <3>3. timer'[s] = timer[s] - 1 /\ deadline'[s] = deadline[s] - 1
        BY <2>3, <2>4
      <3>. QED
        BY <2>4, <3>2, <3>3, <1>a
    <2>5. ASSUME NEW s \in Searches, step[s] \in {"call", "backoff"}, ~cancelled[s]
          PROVE  timer'[s] * TickMs
                   + (IF step[s] = "call" THEN AfterCall(attempt[s])
                      ELSE AfterBackoff(attempt[s]))
                 < deadline'[s] * TickMs
      <3>. DEFINE ahead == IF step[s] = "call" THEN AfterCall(attempt[s])
                           ELSE AfterBackoff(attempt[s])
      <3>1. attempt[s] \in 0..MaxRetries /\ (step[s] # "call" => attempt[s] < MaxRetries)
        BY <2>5
      <3>2. ahead \in Nat
        BY <3>1, <1>a, AheadShrinks
      <3>3. timer[s] * TickMs + ahead < deadline[s] * TickMs
        BY <2>5 DEF RetriesInv
      <3>. HIDE DEF ahead
      <3>4. timer'[s] * TickMs + ahead < deadline'[s] * TickMs
        BY <2>4, <2>5, <3>2, <3>3
      <3>. QED
        BY <3>4 DEF ahead
    <2>. QED
      BY <2>1, <2>2, <2>5 DEF RetriesInv
  <1>11. CASE UNCHANGED vars
    BY <1>11 DEF vars, searchVars, RetriesInv, AfterCall, AfterBackoff
  <1>. QED
    BY <1>1, <1>2, <1>3, <1>4, <1>5, <1>6, <1>7, <1>8, <1>9, <1>10, <1>11, <1>12 DEF Next

\* With a timeout that covers the delays and backoffs of all attempts, a search whose
\* client stays is never cut off before its last one, whatever the calls do.
THEOREM RetriesAlwaysFit == TimeoutCoversRetries => (Spec => []RetriesFitTimeout)
  <1>. SUFFICES ASSUME TimeoutCoversRetries PROVE Spec => []RetriesFitTimeout
    OBVIOUS
  <1>1. TypeInv /\ RetriesInv /\ [Next]_vars => RetriesInv'
    BY RetriesNext
  <1>2. RetriesInv => RetriesFitTimeout
    BY DEF RetriesInv, RetriesFitTimeout
  <1>. QED
    BY <1>1, <1>2, RetriesInit, TypeInit, TypeNext, PTL DEF Spec

\* The configuration that is shipped has such a timeout, for every provider, however
\* fine or coarse the ticks of up to half a second are.
THEOREM ShippedTimeoutCovers ==
  ASSUME MaxRetries = 3, TimeoutMs = 15000, TickMs \in 1..500
  PROVE  TimeoutCoversRetries
  <1>1. \A p \in Profiles : p.delayMs[2] \in {150, 200, 300, 400}
    BY ProviderAssumption DEF LionAir, BatikAir, AirAsia, Garuda
  <1>2. PowerOfTwo[3] = 8
    <2>1. 0 + 1 = 1 /\ 1 + 1 = 2 /\ 2 + 1 = 3
      OBVIOUS
    <2>. QED
      BY <2>1, Doubling
  <1>. QED
    BY <1>1, <1>2 DEF TimeoutCoversRetries, LongestSearchMs
=============================================================================
