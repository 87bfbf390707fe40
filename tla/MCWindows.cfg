SPECIFICATION Spec
CONSTANTS
  Offers <- MCOffers
  Criteria <- MCCriteria
  MaxFlights = 3
  ZoneOffset <- MCZoneOffset
  Unset = Unset
  Malformed = Malformed
CHECK_DEADLOCK FALSE
INVARIANT WindowsKept
