--------------------------- MODULE ProviderGather ---------------------------
(***************************************************************************)
(* What getFromProvider promises its caller: one answer, merged from some  *)
(* set of providers that succeeded, with the number of those that did not. *)
(* No goroutine, channel or wait group appears.                            *)
(***************************************************************************)
EXTENDS FlightCatalog

VARIABLES
  req,       \* the criteria being searched
  returned,  \* has the call returned?
  flights,   \* the merged list, empty until it returns
  failed     \* number of failed providers, 0 until it returns

vars == <<req, returned, flights, failed>>

Init ==
  /\ req \in SearchCriteria
  /\ returned = FALSE
  /\ flights = {}
  /\ failed = 0

Gather(ok) ==
  /\ ~returned
  /\ returned' = TRUE
  /\ flights' = Merged(ok, req)
  /\ failed' = Cardinality(Providers \ ok)
  /\ UNCHANGED req

Next == \E ok \in SUBSET Providers : Gather(ok)

Spec == Init /\ [][Next]_vars /\ WF_vars(Next)
=============================================================================
