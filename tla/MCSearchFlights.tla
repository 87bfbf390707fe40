-------------------------- MODULE MCSearchFlights --------------------------
(* Two providers, one of them flaky, sell the same two cabins of one trip.  *)
(* Clients ask for economy without a filter, for economy with the flaky     *)
(* provider only, and for business: two searches share a key, one does not. *)
EXTENDS SearchFlights

CONSTANTS p1, p2, r1, r2, i1, i2

MCProviders == {p1, p2}
MCRequests == {r1, r2}
MCInstances == {i1, i2}
MCInstanceOf == [r \in MCRequests |-> IF r = r1 THEN i1 ELSE i2]
MCCatalog ==
  [provider : MCProviders, trip : {"CGK-DPS"}, cabin : {"economy", "business"}]

Economy(airline) ==
  [trip |-> "CGK-DPS", cabin |-> "economy", airline |-> airline]
Business == [trip |-> "CGK-DPS", cabin |-> "business", airline |-> NoFilter]

OneKeySearches == {Economy(NoFilter), Economy(p2)}
TwoKeySearches == {Economy(p2), Business}
=============================================================================
