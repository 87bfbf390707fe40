-------------------------- MODULE ReadThroughCache --------------------------
(***************************************************************************)
(* What a cached search promises, without Redis, locks, metadata or time.  *)
(* A request is answered either by the memo of its key or by gathering     *)
(* from the providers; only a request that gathered may write the memo of  *)
(* its own key, with exactly what it gathered.  Neither a memo nor a reply *)
(* is made of a gathering from which a provider that is not flaky is       *)
(* missing.  A memo may be forgotten any time.                             *)
(***************************************************************************)
EXTENDS FlightCatalog

CONSTANTS
  Requests,  \* the requests that can be in progress together
  Searches,  \* the criteria that are asked for
  Flaky      \* providers that may fail by themselves

VARIABLES
  phase,     \* phase[r]: "idle", "asked", "remembered" or "gathered"
  criteria,  \* criteria[r]: what r asked for last
  answer,    \* answer[r]: the list r holds; its reply once it is idle again
  reply,     \* reply[r]: "none", "ok", "notFound" or "error"
  memo       \* memo[k]: the remembered list, of the keys that have one

vars == <<phase, criteria, answer, reply, memo>>

Init ==
  /\ phase = [r \in Requests |-> "idle"]
  /\ criteria \in [Requests -> Searches]
  /\ answer = [r \in Requests |-> {}]
  /\ reply = [r \in Requests |-> "none"]
  /\ memo = [k \in {} |-> {}]

Ask(r) ==
  /\ phase[r] = "idle"
  /\ \E req \in Searches : criteria' = [criteria EXCEPT ![r] = req]
  /\ phase' = [phase EXCEPT ![r] = "asked"]
  /\ answer' = [answer EXCEPT ![r] = {}]
  /\ reply' = [reply EXCEPT ![r] = "none"]
  /\ UNCHANGED memo

Remember(r) ==
  /\ phase[r] = "asked"
  /\ GetCacheKey(criteria[r]) \in DOMAIN memo
  /\ answer' = [answer EXCEPT ![r] = memo[GetCacheKey(criteria[r])]]
  /\ phase' = [phase EXCEPT ![r] = "remembered"]
  /\ UNCHANGED <<criteria, reply, memo>>

Gather(r) ==
  /\ phase[r] = "asked"
  /\ \E ok \in SUBSET Providers :
       answer' = [answer EXCEPT ![r] = Merged(ok, criteria[r])]
  /\ phase' = [phase EXCEPT ![r] = "gathered"]
  /\ UNCHANGED <<criteria, reply, memo>>

\* The list is what all providers but flaky ones answered to req.
Whole(list, req) ==
  \E ok \in SUBSET Providers :
    Providers \ Flaky \subseteq ok /\ list = Merged(ok, req)

\* The memo of r's key becomes what r gathered.
Memoised(r) ==
  /\ phase[r] = "gathered"
  /\ Whole(answer[r], criteria[r])
  /\ LET key == GetCacheKey(criteria[r]) IN
       memo' = [k \in DOMAIN memo \cup {key} |->
                  IF k = key THEN answer[r] ELSE memo[k]]

Memoise(r) == Memoised(r) /\ UNCHANGED <<phase, criteria, answer, reply>>

Reply(r) ==
  /\ phase[r] \in {"remembered", "gathered"}
  /\ phase[r] = "gathered" => Whole(answer[r], criteria[r])
  /\ LET kept == FilterFlights(answer[r], criteria[r].airline) IN
       /\ answer' = [answer EXCEPT ![r] = kept]
       /\ reply' = [reply EXCEPT ![r] = IF kept = {} THEN "notFound" ELSE "ok"]
  /\ phase' = [phase EXCEPT ![r] = "idle"]
  /\ UNCHANGED <<criteria, memo>>

\* A request fails before or after it has written the memo.
Fail(r) ==
  /\ phase[r] = "gathered"
  /\ Memoised(r) \/ UNCHANGED memo
  /\ phase' = [phase EXCEPT ![r] = "idle"]
  /\ answer' = [answer EXCEPT ![r] = {}]
  /\ reply' = [reply EXCEPT ![r] = "error"]
  /\ UNCHANGED criteria

\* Requests end without a reply.
Lose(lost) ==
  /\ phase' = [r \in Requests |-> IF r \in lost THEN "idle" ELSE phase[r]]
  /\ answer' = [r \in Requests |-> IF r \in lost THEN {} ELSE answer[r]]
  /\ reply' = [r \in Requests |-> IF r \in lost THEN "none" ELSE reply[r]]
  /\ UNCHANGED <<criteria, memo>>

Forget(expired) ==
  /\ memo' = [k \in DOMAIN memo \ expired |-> memo[k]]
  /\ UNCHANGED <<phase, criteria, answer, reply>>

Next ==
  \/ \E r \in Requests :
       Ask(r) \/ Remember(r) \/ Gather(r) \/ Memoise(r) \/ Reply(r) \/ Fail(r)
  \/ \E lost \in SUBSET Requests : Lose(lost)
  \/ \E expired \in SUBSET Keys : Forget(expired)

Spec == Init /\ [][Next]_vars

-----------------------------------------------------------------------------
\* What a client may rely on: a request that is answered got the filtered flights
\* of all providers but flaky ones for its own criteria, be it from a memo that
\* another criteria with the same key, and another filter, has left.
RepliesWhole ==
  \A r \in Requests : reply[r] \in {"ok", "notFound"} =>
    \E ok \in SUBSET Providers :
      /\ Providers \ Flaky \subseteq ok
      /\ answer[r] = FilterFlights(Merged(ok, criteria[r]), criteria[r].airline)
=============================================================================
