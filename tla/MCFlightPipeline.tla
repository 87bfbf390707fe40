-------------------------- MODULE MCFlightPipeline --------------------------
(* FlightPipeline for TLC. Day 0 is 2025-12-15; the route is CGK to DPS.    *)
EXTENDS FlightPipeline

MCZoneOffset ==
  [zone \in {"Asia/Jakarta", "Asia/Makassar"} |->
     IF zone = "Asia/Jakarta" THEN 7 * 60 ELSE 8 * 60]

WIB(local) == [local |-> local, offset |-> 7 * 60]
WITA(local) == [local |-> local, offset |-> 8 * 60]
Text(h, m) == [h |-> h, m |-> m]

MCLionAir(departure, arrival, zone, meals) ==
  [provider |-> "LionAir", from |-> "CGK", to |-> "DPS",
   departure |-> [local |-> departure, zone |-> zone],
   arrival |-> [local |-> arrival, zone |-> "Asia/Makassar"], flightTime |-> 105, stopCount |-> 1,
   total |-> 4, fareType |-> "ECONOMY", seatsLeft |-> 12,
   wifi |-> 1, meals |-> meals]

MCBatikAir(departure, arrival, travel, connections, class) ==
  [provider |-> "BatikAir", origin |-> "CGK", destination |-> "DPS",
   departure |-> departure, arrival |-> arrival, travelTime |-> travel,
   numberOfStops |-> Len(connections), connections |-> connections,
   basePrice |-> 4, taxes |-> 1, class |-> class, seatsAvailable |-> 41,
   onboardServices |-> <<"snack">>]

MCAirAsia(departure, hundredths) ==
  [provider |-> "AirAsia", fromAirport |-> "CGK", toAirport |-> "DPS",
   departTime |-> departure, arriveTime |-> WITA(departure.local + 183),
   durationHundredths |-> hundredths, directFlight |-> TRUE, stops |-> <<>>,
   priceIDR |-> 3, seats |-> 67, cabinClass |-> "economy"]

MCGaruda(departure, price) ==
  [provider |-> "Garuda", from |-> "CGK", to |-> "DPS", departure |-> departure,
   arrival |-> WITA(departure.local + 170), durationMinutes |-> 110, stops |-> 0,
   amount |-> price, availableSeats |-> 2, fareClass |-> "economy",
   amenities |-> <<"wifi", "meal">>]

\* A flight whose arrival is unreadable; one whose zone is unknown, with a
\* meal and otherwise alike; a stop of 55 minutes; an unreadable departure; business class
\* under a booking class; 2.05 hours; one that departs just after midnight, when
\* the date in UTC is the day before; one of the next day.
MCOffers ==
  { MCLionAir(8 * 60 + 30, Malformed, "Asia/Jakarta", 0),
    MCLionAir(9 * 60 + 45, 12 * 60, "Asia/Nowhere", 1),
    MCBatikAir(WIB(18 * 60 + 45), WITA(23 * 60 + 50), Text(3, 5),
               <<Text(Unset, 55)>>, "Y"),
    MCBatikAir(Malformed, WITA(10 * 60), Text(2, Unset), <<>>, "Y"),
    MCBatikAir(WIB(7 * 60), WITA(10 * 60), Text(2, Unset), <<>>, "C"),
    MCAirAsia(WIB(10 * 60), 205),
    MCGaruda(WIB(15), 5),
    MCGaruda(WIB(1440 + 15), 5) }

MCNoFilter ==
  [airline |-> Unset, min_price |-> Unset, max_price |-> Unset,
   min_stops |-> Unset, max_stops |-> Unset, min_minutes |-> Unset,
   max_minutes |-> Unset, departure_start |-> Unset, departure_end |-> Unset,
   arrival_start |-> Unset, arrival_end |-> Unset]

MCFilters ==
  {Unset, MCNoFilter, [MCNoFilter EXCEPT !.airline = "JT"]}
  \cup {[MCNoFilter EXCEPT !.min_price = low, !.max_price = high] :
          low \in {Unset, 0, 4}, high \in {Unset, 4, 5}}
  \cup {[MCNoFilter EXCEPT !.min_stops = low, !.max_stops = high] :
          low \in {Unset, 0, 1}, high \in {Unset, 1}}
  \cup {[MCNoFilter EXCEPT !.min_minutes = 106, !.max_minutes = 122]}
  \cup {[MCNoFilter EXCEPT !.departure_start = start, !.departure_end = end] :
          start \in {Unset, 8 * 60, 10 * 60}, end \in {9 * 60 + 30, Malformed}}
  \cup {[MCNoFilter EXCEPT !.arrival_start = 12 * 60, !.arrival_end = 23 * 60]}

MCFields == AllowedSortField \cup {"recommended"}
MCSorts == {Unset} \cup [field : MCFields, order : {"asc", "desc", ""}]

MCSearch(passengers, cabin, sort, filter) ==
  [origin |-> "CGK", destination |-> "DPS", departure_date |-> 0,
   passengers |-> passengers, cabin_class |-> cabin, sort |-> sort,
   filter |-> filter]

\* Well-formed requests with a sort option or a filter, and ill-formed ones.
MCCriteria ==
  {MCSearch(1, "economy", sort, filter) :
     sort \in {Unset, [field |-> "stops", order |-> "desc"]}, filter \in MCFilters}
  \cup {MCSearch(2, "economy", sort, Unset) : sort \in MCSorts}
  \cup {MCSearch(n, cabin, Unset, Unset) :
          n \in {0, 10, 11}, cabin \in {"economy", "business", "premium"}}
  \cup {[MCSearch(1, "economy", Unset, Unset) EXCEPT !.origin = Unset],
        [MCSearch(1, "economy", Unset, Unset) EXCEPT !.departure_date = 1]}
=============================================================================
