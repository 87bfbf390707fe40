--------------------------- MODULE FlightCatalog ---------------------------
(***************************************************************************)
(* The data that the searching components share: flights, search criteria, *)
(* the cache key of a criteria, what one provider answers to a criteria,   *)
(* and what the service merges from the providers that answered.           *)
(*                                                                         *)
(* A flight keeps only what decides where it goes: the provider that sells *)
(* it, the trip (departure date, origin, destination and number of         *)
(* passengers it can seat) and the cabin.  A criteria is a trip, a cabin   *)
(* and the one filter option this abstraction keeps, the airline.  The     *)
(* other filter options, ranking and sorting act on the list after         *)
(* everything modelled here.                                               *)
(***************************************************************************)
EXTENDS Integers, FiniteSets

CONSTANTS
  Providers,  \* the registered flight providers
  Trips,      \* (date, origin, destination, passengers)
  Cabins,     \* economy, business, first
  Catalog,    \* every flight the providers sell
  NoFilter    \* the airline filter is absent

Flight == [provider : Providers, trip : Trips, cabin : Cabins]

SearchCriteria ==
  [trip : Trips, cabin : Cabins, airline : Providers \cup {NoFilter}]

ASSUME CatalogAssumption ==
  /\ IsFiniteSet(Providers)
  /\ Catalog \subseteq Flight
  /\ NoFilter \notin Providers

Keys == Trips \X Cabins

\* flight:cache:{date}:{origin}:{destination}:{cabin}:{passengers}.  The lock
\* key has the same five fields, so one value names both.
GetCacheKeyNoCabin(req) == <<req.trip, CHOOSE c \in Cabins : TRUE>>
GetCacheKey(req) == <<req.trip, req.cabin>>

\* What provider p answers when it answers: its flights for the criteria.  The
\* filter option is not looked at here.
SearchResult(p, req) ==
  {f \in Catalog : f.provider = p /\ f.trip = req.trip /\ f.cabin = req.cabin}

\* The merged list when the providers in ok answered and the others failed.
Merged(ok, req) == UNION {SearchResult(p, req) : p \in ok}

\* The counts reported with a list merged from the providers in ok.
MetadataOf(ok) ==
  [ProvidersQueried   |-> Cardinality(Providers),
   ProvidersSucceeded |-> Cardinality(Providers) - Cardinality(Providers \ ok),
   ProvidersFailed    |-> Cardinality(Providers \ ok)]

Metadata ==
  [ProvidersQueried : Nat, ProvidersSucceeded : Nat, ProvidersFailed : Nat]

\* dto.Metadata{}, the value a failed GetMetadata leaves behind.
ZeroMetadata ==
  [ProvidersQueried |-> 0, ProvidersSucceeded |-> 0, ProvidersFailed |-> 0]

\* FilterFlights keeps a flight unless the airline option names another one.
FilterFlights(flights, airline) ==
  {f \in flights : airline = NoFilter \/ f.provider = airline}
=============================================================================
