-------------------------- MODULE MCProviderFanOut --------------------------
(* Three providers; the third sells nothing for the trip searched.         *)
EXTENDS ProviderFanOut

CONSTANTS p1, p2, p3

MCProviders == {p1, p2, p3}
MCCatalog ==
  {[provider |-> p, trip |-> "CGK-DPS", cabin |-> "economy"] : p \in {p1, p2}}
=============================================================================
