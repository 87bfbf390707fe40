-------------------------- MODULE ProviderAnswers --------------------------
(***************************************************************************)
(* From what each provider's API answers to the flights of the service:    *)
(* flightToDTO of the four providers, and the filter by criteria that      *)
(* every provider applies to its own answer.                               *)
(*                                                                         *)
(* A time is a record of the minutes on the local clock since some         *)
(* midnight and the offset of its zone; a text that is not a time is       *)
(* Malformed.  A duration text is a record of the numbers before its "h"   *)
(* and its "m", either of which may be Unset.                              *)
(***************************************************************************)
EXTENDS Integers, Sequences, FiniteSets, SequencesExt, Functions

CONSTANTS
  Unset,       \* an optional field that is absent, a string that is empty
  Malformed,   \* a text that is not a time or a duration
  ZoneOffset   \* the zones LoadLocation knows, with their offsets

\* What the service itself calls airlines and cabins. (That these are strings is
\* assumed because the provers do not know it.)
Names == {"JT", "ID", "QZ", "GA", "economy", "premium_economy", "business", "first"}

ASSUME AnswersAssumption ==
  /\ Names \subseteq STRING
  /\ Unset \notin Int /\ Malformed \notin Int /\ Unset # Malformed
  /\ \A zone \in DOMAIN ZoneOffset : ZoneOffset[zone] \in Int

IsSet(option) == option # Unset

-----------------------------------------------------------------------------
(* Times *)

Times == [local : Int, offset : Int]

\* time.Time{}: midnight of year 1, long before any flight.
ZeroTime == [local |-> -1000 * 1440, offset |-> 0]

Timestamp(time) == time.local - time.offset

\* The date and the clock of the local time, which RFC 3339 keeps.
DateOfInstant(time) == Timestamp(time) \div 1440
Date(time) == time.local \div 1440
Clock(time) == time.local % 1440

\* Lion Air: the local time and the name of its zone. An unknown zone is UTC, and
\* an error of the parser is dropped: its result is the zero time.
ZonedTexts == [local : Int \cup {Malformed}, zone : STRING]

ParseTimeWithLocation(time) ==
  IF time.local = Malformed THEN ZeroTime
  ELSE [local |-> time.local,
        offset |-> IF time.zone \in DOMAIN ZoneOffset THEN ZoneOffset[time.zone]
                   ELSE 0]

-----------------------------------------------------------------------------
(* Durations *)

DurationTexts ==
  [h : Nat, m : Nat \cup {Unset}] \cup [h : {Unset}, m : Nat] \cup {Malformed}

\* Sscanf of "%dh %dm" stops at the first mismatch: the first number is taken
\* for hours, and the second is read only after an h.
ConvertDurationToMinutes(d) ==
  CASE d = Malformed -> 0
    [] d # Malformed /\ ~IsSet(d.h) -> 60 * d.m
    [] d # Malformed /\ IsSet(d.h) -> 60 * d.h + (IF IsSet(d.m) THEN d.m ELSE 0)

\* Batik Air: the travel time and the stops at its connections.
GetActualDuration(raw) ==
  LET connections == raw.connections
      total[n \in 0..Len(connections)] ==
        IF n = 0 THEN ConvertDurationToMinutes(raw.travelTime)
        ELSE total[n - 1] + ConvertDurationToMinutes(connections[n])
  IN  total[Len(connections)]

-----------------------------------------------------------------------------
\* dto.Flight, as far as the rest of the service looks at it. Its numbers are
\* amounts, of which no provider answers a negative one.
Flight ==
  [airline : STRING \cup {Unset}, from : STRING \cup {Unset},
   to : STRING \cup {Unset}, departure : Times, arrival : Times, minutes : Nat, stops : Nat,
   price : Nat, seats : Nat, cabin : STRING \cup {Unset}, amenities : Nat,
   score : Nat]

(* What the API of each provider answers, and flightToDTO of one flight *)

\* strings.ToLower.
ToLower == [ECONOMY |-> "economy", BUSINESS |-> "business", FIRST |-> "first"]

LionAirRaw ==
  [provider : {"LionAir"}, from : STRING, to : STRING, departure : ZonedTexts,
   arrival : ZonedTexts, flightTime : Nat, stopCount : Nat, total : Nat,
   fareType : DOMAIN ToLower, seatsLeft : Nat, wifi : {0, 1}, meals : {0, 1}]

LionAirFlight(raw) ==
  [airline   |-> "JT",
   from      |-> raw.from,
   to        |-> raw.to,
   departure |-> ParseTimeWithLocation(raw.departure),
   arrival   |-> ParseTimeWithLocation(raw.arrival),
   minutes   |-> raw.flightTime,
   stops     |-> raw.stopCount,
   price     |-> raw.total,
   seats     |-> raw.seatsLeft,
   cabin     |-> ToLower[raw.fareType],
   amenities |-> raw.wifi + raw.meals,
   score     |-> 0]

BatikAirRaw ==
  [provider : {"BatikAir"}, origin : STRING, destination : STRING,
   departure : Times \cup {Malformed}, arrival : Times \cup {Malformed},
   travelTime : DurationTexts, connections : Seq(DurationTexts),
   numberOfStops : Nat, basePrice : Nat, taxes : Nat, class : STRING,
   seatsAvailable : Nat, onboardServices : Seq(STRING)]

\* The booking classes of Batik Air; others are sold as economy.
CabinOfClass == [Y |-> "economy", W |-> "premium_economy", C |-> "business",
                 J |-> "business", F |-> "first"]
GetCabinClass(class) ==
  IF class \in DOMAIN CabinOfClass THEN CabinOfClass[class] ELSE "economy"

\* What an element of the slice is when its flight could not be read.
ZeroFlight ==
  [airline |-> Unset, from |-> Unset, to |-> Unset, departure |-> ZeroTime,
   arrival |-> ZeroTime, minutes |-> 0, stops |-> 0, price |-> 0, seats |-> 0,
   cabin |-> Unset, amenities |-> 0, score |-> 0]

BatikAirFlight(raw) ==
  IF Malformed \in {raw.departure, raw.arrival} THEN ZeroFlight
  ELSE
    [airline   |-> "ID",
     from      |-> raw.origin,
     to        |-> raw.destination,
     departure |-> raw.departure,
     arrival   |-> raw.arrival,
     minutes   |-> GetActualDuration(raw),
     stops     |-> raw.numberOfStops,
     price     |-> raw.basePrice + raw.taxes,
     seats     |-> raw.seatsAvailable,
     cabin     |-> GetCabinClass(raw.class),
     amenities |-> Len(raw.onboardServices),
     score     |-> 0]

AirAsiaRaw ==
  [provider : {"AirAsia"}, fromAirport : STRING, toAirport : STRING,
   departTime : Times, arriveTime : Times, durationHundredths : 0..2999,
   directFlight : BOOLEAN, stops : Seq(Nat), priceIDR : Nat, seats : Nat,
   cabinClass : STRING]

\* AirAsia gives hours, here in hundredths and below 30 hours. int(hours * 60)
\* truncates a product of floats: of whole minutes, these come out one too low.
BelowWholeMinute == {205, 410, 820, 845, 1615, 1640, 1665, 1690}
TruncatedMinutes(hundredths) ==
  (hundredths * 60) \div 100 - (IF hundredths \in BelowWholeMinute THEN 1 ELSE 0)

AirAsiaFlight(raw) ==
  [airline   |-> "QZ",
   from      |-> raw.fromAirport,
   to        |-> raw.toAirport,
   departure |-> raw.departTime,
   arrival   |-> raw.arriveTime,
   minutes   |-> TruncatedMinutes(raw.durationHundredths),
   stops     |-> IF raw.directFlight THEN 0 ELSE Len(raw.stops),
   price     |-> raw.priceIDR,
   seats     |-> raw.seats,
   cabin     |-> raw.cabinClass,
   amenities |-> 0,
   score     |-> 0]

GarudaRaw ==
  [provider : {"Garuda"}, from : STRING, to : STRING, departure : Times,
   arrival : Times, durationMinutes : Nat, stops : Nat, amount : Nat,
   availableSeats : Nat, fareClass : STRING, amenities : Seq(STRING)]

GarudaFlight(raw) ==
  [airline   |-> "GA",
   from      |-> raw.from,
   to        |-> raw.to,
   departure |-> raw.departure,
   arrival   |-> raw.arrival,
   minutes   |-> raw.durationMinutes,
   stops     |-> raw.stops,
   price     |-> raw.amount,
   seats     |-> raw.availableSeats,
   cabin     |-> raw.fareClass,
   amenities |-> Len(raw.amenities),
   score     |-> 0]

RawFlights == LionAirRaw \cup BatikAirRaw \cup AirAsiaRaw \cup GarudaRaw

FlightToDTO(raw) ==
  CASE raw.provider = "LionAir" -> LionAirFlight(raw)
    [] raw.provider = "BatikAir" -> BatikAirFlight(raw)
    [] raw.provider = "AirAsia" -> AirAsiaFlight(raw)
    [] raw.provider = "Garuda" -> GarudaFlight(raw)

-----------------------------------------------------------------------------
\* FilterFlights of providerutils. Every field of a valid criteria is given.
MatchesUTC(f, c) ==
  /\ f.from = c.origin /\ f.to = c.destination
  /\ DateOfInstant(f.departure) = c.departure_date
  /\ f.cabin = c.cabin_class
  /\ f.seats >= c.passengers
Matches(f, c) ==
  /\ f.from = c.origin /\ f.to = c.destination
  /\ Date(f.departure) = c.departure_date
  /\ f.cabin = c.cabin_class
  /\ f.seats >= c.passengers

\* What a loop that appends some elements of a list leaves: the ones at the
\* positions kept, in their order. The set has one member.
Keep(list, kept) ==
  {[i \in 1..Cardinality(kept) |-> list[e[i]]] :
     e \in {b \in Bijection(1..Cardinality(kept), kept) :
              \A i, j \in DOMAIN b : i < j => b[i] < b[j]}}

\* The provider's answer to a criteria, from its raw answer.
Answer(offers, c) ==
  Keep([i \in DOMAIN offers |-> FlightToDTO(offers[i])],
       {i \in DOMAIN offers : Matches(FlightToDTO(offers[i]), c)})
=============================================================================
