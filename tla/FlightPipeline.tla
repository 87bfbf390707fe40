--------------------------- MODULE FlightPipeline ---------------------------
(***************************************************************************)
(* What happens to one request besides searching: its criteria is          *)
(* validated, and the list the cache or the providers gave is filtered,    *)
(* ranked, sorted and answered.                                            *)
(*                                                                         *)
(* A flight is a record of what these steps look at.  An option that is    *)
(* absent is Unset.  Scores are exact: rationals over the common           *)
(* denominator Worst(flights).                                             *)
(***************************************************************************)
EXTENDS ProviderAnswers, FiniteSetsExt

CONSTANTS
  Offers,      \* the flights the providers' APIs may answer
  Criteria,    \* the criteria clients send
  MaxFlights   \* bound: offers of all providers together

\* The JSON types of a criteria. An option is a pointer, here Unset if it is nil.
Option == Int \cup {Unset}
WindowEnd == 0..1439 \cup {Unset, Malformed}
FilterOption ==
  [airline : STRING \cup {Unset}, min_price : Option, max_price : Option,
   min_stops : Option, max_stops : Option, min_minutes : Option,
   max_minutes : Option, departure_start : WindowEnd, departure_end : WindowEnd,
   arrival_start : WindowEnd, arrival_end : WindowEnd]
SearchCriteria ==
  [origin : STRING \cup {Unset}, destination : STRING \cup {Unset},
   departure_date : Int \cup {Unset}, passengers : Int, cabin_class : STRING \cup {Unset},
   sort : [field : STRING, order : STRING] \cup {Unset},
   filter : FilterOption \cup {Unset}]

ASSUME PipelineAssumption ==
  /\ MaxFlights \in Nat
  /\ Criteria \subseteq SearchCriteria
  /\ Offers \subseteq RawFlights

VARIABLES
  stage,     \* "received", "accepted", "found", "filtered", "ranked", "sorted",
             \* "answered"
  criteria,  \* the request
  offers,    \* what the APIs answered the search the list comes from
  flights,   \* the list under way
  status     \* the HTTP status answered, or 0

vars == <<stage, criteria, offers, flights, status>>

-----------------------------------------------------------------------------
(* SearchCriteria.Validate *)

ValidTags(c) ==
  /\ Unset \notin {c.origin, c.destination, c.departure_date}
  /\ c.passengers \in 1..10
  /\ c.cabin_class \in {"economy", "business", "first"}
  /\ IsSet(c.filter) =>
       /\ \A price \in {c.filter.min_price, c.filter.max_price} :
            IsSet(price) => price > 0
       /\ \A n \in {c.filter.min_stops, c.filter.max_stops,
                    c.filter.min_minutes, c.filter.max_minutes} :
            IsSet(n) => n >= 0

AllowedSortField ==
  {"price", "duration", "departure_time", "arrival_time", "stops", "score"}

\* A range with both ends must have the greater one on top.
ProperRange(low, high) == IsSet(low) /\ IsSet(high) => low < high

Valid(c) ==
  /\ ValidTags(c)
  /\ IsSet(c.sort) => c.sort.field \in AllowedSortField
  /\ IsSet(c.filter) =>
       /\ ProperRange(c.filter.min_price, c.filter.max_price)
       /\ ProperRange(c.filter.min_stops, c.filter.max_stops)
       /\ ProperRange(c.filter.min_minutes, c.filter.max_minutes)

-----------------------------------------------------------------------------
(* FilterFlights *)

\* Each end of a range is a check of its own.
Above(low, value) == IsSet(low) => value >= low
Below(value, high) == IsSet(high) => value <= high

Hour(clock) == clock \div 60

\* isWithinTimeRange compares hours; what does not parse is not within.
IsWithinTimeRange(target, start, end) ==
  /\ Malformed \notin {start, end}
  /\ Hour(target) >= Hour(start)
  /\ Hour(target) <= Hour(end)

\* A window applies only if both of its ends are given.
InWindow(target, start, end) ==
  IsSet(start) /\ IsSet(end) => IsWithinTimeRange(target, start, end)

Passes(f, o) ==
  /\ IsSet(o.airline) => f.airline = o.airline
  /\ Above(o.min_price, f.price) /\ Below(f.price, o.max_price)
  /\ Above(o.min_stops, f.stops) /\ Below(f.stops, o.max_stops)
  /\ Above(o.min_minutes, f.minutes) /\ Below(f.minutes, o.max_minutes)
  /\ InWindow(Clock(f.departure), o.departure_start, o.departure_end)
  /\ InWindow(Clock(f.arrival), o.arrival_start, o.arrival_end)

FilterFlights(list, filter) ==
  IF IsSet(filter) THEN Keep(list, {i \in DOMAIN list : Passes(list[i], filter)})
  ELSE {list}

-----------------------------------------------------------------------------
(* RankFlights *)

\* The weights, in twentieths.
WeightPrice == 12
WeightDurationInMinutes == 4
WeightStops == 3
WeightAmenities == 1

Prices(list) == {f.price : f \in Range(list)}
Durations(list) == {f.minutes : f \in Range(list)}
Stops(list) == {f.stops : f \in Range(list)}
Amenities(list) == {f.amenities : f \in Range(list)}

\* normalizeValue is Normalized / Spread; a range of one value normalises to 0.
Spread(values) == IF Min(values) = Max(values) THEN 1 ELSE Max(values) - Min(values)
NormalizedFromZero(value, values) == value
Normalized(value, values) == value - Min(values)

\* The worst score, 1: all weights at their full spread.
Worst(list) ==
  20 * Spread(Prices(list)) * Spread(Durations(list)) * Spread(Stops(list))
     * Spread(Amenities(list))

\* More amenities are better: their share is inverted.
AmenitiesShareNotInverted(f, list) == Normalized(f.amenities, Amenities(list))
AmenitiesShare(f, list) ==
  Spread(Amenities(list)) - Normalized(f.amenities, Amenities(list))

\* The weighted sum of the four shares, over Worst(list).
Score(f, list) ==
  LET p == Spread(Prices(list))
      d == Spread(Durations(list))
      s == Spread(Stops(list))
      a == Spread(Amenities(list))
  IN    WeightPrice * Normalized(f.price, Prices(list)) * d * s * a
      + WeightDurationInMinutes * Normalized(f.minutes, Durations(list)) * p * s * a
      + WeightStops * Normalized(f.stops, Stops(list)) * p * d * a
      + WeightAmenities * AmenitiesShare(f, list) * p * d * s

RankFlightsInOnePass(list) ==
  [i \in DOMAIN list |->
     [list[i] EXCEPT !.score = Score(list[i], SubSeq(list, 1, i))]]
RankFlights(list) ==
  [i \in DOMAIN list |-> [list[i] EXCEPT !.score = Score(list[i], list)]]

-----------------------------------------------------------------------------
(* SortFlights *)

SortKey(f, field) ==
  CASE field = "price" -> f.price
    [] field = "duration" -> f.minutes
    [] field = "stops" -> f.stops
    [] field = "departure_time" -> Timestamp(f.departure)
    [] field = "arrival_time" -> Timestamp(f.arrival)
    [] OTHER -> f.score

\* No sort option sorts by score, ascending.
SortOf(c) == IF IsSet(c.sort) THEN c.sort ELSE [field |-> "", order |-> "asc"]

\* Any order but "asc" is descending.
LessDescending(f, g, sort) == SortKey(f, sort.field) > SortKey(g, sort.field)
Less(f, g, sort) ==
  IF sort.order = "asc"
  THEN SortKey(f, sort.field) < SortKey(g, sort.field)
  ELSE SortKey(f, sort.field) > SortKey(g, sort.field)

Ordered(list, sort) ==
  \A i, j \in DOMAIN list : i < j => ~Less(list[j], list[i], sort)

\* sort.Slice is not stable: any ordered permutation may come out.
Sortings(list, sort) ==
  LET permuted == {[i \in DOMAIN list |-> list[p[i]]] :
                     p \in Bijection(DOMAIN list, DOMAIN list)}
  IN  {l \in permuted : Ordered(l, sort)}

-----------------------------------------------------------------------------
Init ==
  /\ stage = "received"
  /\ criteria \in Criteria
  /\ offers = <<>>
  /\ flights = <<>>
  /\ status = 0

\* Bind: a criteria that is not valid is answered 400.
Bind ==
  /\ stage = "received"
  /\ \/ Valid(criteria) /\ stage' = "accepted" /\ UNCHANGED status
     \/ ~Valid(criteria) /\ stage' = "answered" /\ status' = 400
  /\ UNCHANGED <<criteria, offers, flights>>

\* The list the cache or the providers gave: the answers to this criteria, now
\* or when they were cached, in the order they came in.
Find ==
  /\ stage = "accepted"
  /\ stage' = "found"
  /\ offers' \in BoundedSeq(Offers, MaxFlights)
  /\ flights' \in Answer(offers', criteria)
  /\ UNCHANGED <<criteria, status>>

Filter ==
  /\ stage = "found"
  /\ stage' = "filtered"
  /\ flights' \in FilterFlights(flights, criteria.filter)
  /\ UNCHANGED <<criteria, offers, status>>

Rank ==
  /\ stage = "filtered"
  /\ stage' = "ranked"
  /\ flights' = RankFlights(flights)
  /\ UNCHANGED <<criteria, offers, status>>

Sort ==
  /\ stage = "ranked"
  /\ stage' = "sorted"
  /\ flights' \in Sortings(flights, SortOf(criteria))
  /\ UNCHANGED <<criteria, offers, status>>

\* An empty answer is ErrNoFlightsFound.
Respond ==
  /\ stage = "sorted"
  /\ stage' = "answered"
  /\ status' = IF flights = <<>> THEN 404 ELSE 200
  /\ UNCHANGED <<criteria, offers, flights>>

Next == Bind \/ Find \/ Filter \/ Rank \/ Sort \/ Respond

Spec == Init /\ [][Next]_vars

-----------------------------------------------------------------------------
Unscored(f) == [f EXCEPT !.score = 0]

\* Is value in the range from low to high, as far as these are given?
InRange(value, low, high) ==
  (IsSet(low) => low <= value) /\ (IsSet(high) => value <= high)

\* Is clock in the window, as far as its ends are given? In one that cannot be read
\* it is not known to be.
Within(clock, start, end) ==
  Malformed \notin {start, end} /\ InRange(clock, start, end)

\* What a client means by its criteria, by its filter options but the time windows,
\* and by all of them.
Meant(f, c) ==
  /\ <<f.from, f.to, f.cabin>> = <<c.origin, c.destination, c.cabin_class>>
  /\ f.departure.local - 1440 * c.departure_date \in 0..1439
  /\ c.passengers <= f.seats
Asked(f, o) ==
  /\ o.airline \in {Unset, f.airline}
  /\ InRange(f.price, o.min_price, o.max_price)
  /\ InRange(f.stops, o.min_stops, o.max_stops)
  /\ InRange(f.minutes, o.min_minutes, o.max_minutes)
Wanted(f, c) ==
  /\ Meant(f, c)
  /\ IsSet(c.filter) =>
       /\ Asked(f, c.filter)
       /\ Within(f.departure.local % 1440, c.filter.departure_start,
                 c.filter.departure_end)
       /\ Within(f.arrival.local % 1440, c.filter.arrival_start, c.filter.arrival_end)

\* No criterion of f is worse than g's and one is better.
Dominates(f, g) ==
  /\ f.price <= g.price /\ f.minutes <= g.minutes /\ f.stops <= g.stops
  /\ f.amenities >= g.amenities
  /\ <<f.price, f.minutes, f.stops, f.amenities>>
       # <<g.price, g.minutes, g.stops, g.amenities>>

\* Every answer that may come of a list.
Outcomes(list, c) ==
  UNION {Sortings(RankFlights(kept), SortOf(c)) : kept \in FilterFlights(list, c.filter)}

\* What a duration text says. One that is unreadable says nothing.
MinutesSaid(d) ==
  IF d = Malformed THEN 0
  ELSE (IF IsSet(d.h) THEN 60 * d.h ELSE 0) + (IF IsSet(d.m) THEN d.m ELSE 0)

\* Types. A score lies between the best and the worst, so that the weighted sum
\* is normalised whatever the flights of the list are.
TypeOK ==
  /\ stage \in {"received", "accepted", "found", "filtered", "ranked", "sorted",
                "answered"}
  /\ criteria \in Criteria
  /\ offers \in Seq(Offers)
  /\ status \in {0, 200, 400, 404}
  /\ flights \in Seq(Flight)
  /\ flights # <<>> => \A f \in Range(flights) : f.score \in 0..Worst(flights)

\* An answer lacks no flight the client asked for: every offer of it is there, but
\* for copies, which may be merged. And it has no other flight, and none more often
\* than it was offered. An unreadable offer of another flight costs none, a date is
\* the one at the airport, and filtering, the in-place ranking and the in-place
\* sorting lose, duplicate or invent none. That no flight is outside a time window
\* is not in it: see WindowsKept.
AnswerIsWhatWasAsked ==
  stage = "answered" /\ status # 400 =>
    \A f \in {FlightToDTO(raw) : raw \in Offers} :
      LET given == Cardinality({i \in DOMAIN flights : Unscored(flights[i]) = f})
          offering == {i \in DOMAIN offers : FlightToDTO(offers[i]) = f}
      IN  /\ given <= Cardinality(offering)
          /\ Wanted(f, criteria) => Cardinality({offers[i] : i \in offering}) <= given
          /\ given > 0 =>
               Meant(f, criteria) /\ (IsSet(criteria.filter) => Asked(f, criteria.filter))

\* The answer is in the order the client asked for, and by score, best first, when
\* it asked for none.
AnswerInOrder ==
  status = 200 =>
    \A i, j \in DOMAIN flights : i < j =>
      LET field == SortOf(criteria).field
          order == SortOf(criteria).order
      IN  /\ order = "asc" => SortKey(flights[i], field) <= SortKey(flights[j], field)
          /\ order = "desc" => SortKey(flights[i], field) >= SortKey(flights[j], field)

\* The ranking is fair: by default no flight is shown before one that is better in
\* a criterion and worse in none, although scores depend on the whole list.
DominatedNeverFirst ==
  status = 200 /\ criteria.sort = Unset =>
    \A i, j \in DOMAIN flights : Dominates(flights[i], flights[j]) => i < j

\* The providers answer in any order, and the list is merged and cached in the order
\* they do: whichever of them wins the race, the same answers may come of it.
ArrivalOrderIrrelevant ==
  stage = "found" =>
    \A p \in Bijection(DOMAIN flights, DOMAIN flights) :
      Outcomes([i \in DOMAIN flights |-> flights[p[i]]], criteria)
        = Outcomes(flights, criteria)

\* The comment of isWithinTimeRange: what is checked is that 14:00, the local time of
\* the flight, is between the start and the end of the window. Not so: their hours
\* are compared, and a flight up to an hour outside the window is in the answer.
WindowsKept ==
  status = 200 /\ IsSet(criteria.filter) =>
    \A f \in Range(flights) :
      LET o == criteria.filter
          Between(clock, start, end) ==
            {start, end} \cap {Unset, Malformed} = {} => start <= clock /\ clock <= end
      IN  /\ Between(f.departure.local % 1440, o.departure_start, o.departure_end)
          /\ Between(f.arrival.local % 1440, o.arrival_start, o.arrival_end)

\* The comment of ConvertDurationToMinutes: it converts a duration to minutes. Not
\* so for a text without hours: no Batik Air flight of an answer may take longer
\* than its travel and its stops together.
DurationMeant ==
  status = 200 =>
    \A i \in DOMAIN offers, f \in Range(flights) :
      offers[i].provider = "BatikAir" /\ Unscored(f) = FlightToDTO(offers[i]) =>
        f.minutes = MinutesSaid(offers[i].travelTime)
                      + FoldLeft(LAMBDA sum, conn : sum + MinutesSaid(conn), 0,
                                 offers[i].connections)
=============================================================================
