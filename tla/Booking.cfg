SPECIFICATION Spec
CONSTANTS
  near = near
  far = far
  there = there
  Places <- MCPlaces
  Point <- MCPoint
  NoPoint = NoPoint
  Car = Car
  NoLine = NoLine
  Km <- MCKm
  MaxKm = 1000
  TripFare <- MCTripFare
  Tier <- MCTier
  MaxSteps = 5
  MaxRequests = 2
  MaxFaults = 1
INVARIANTS TypeOK QuoteAgrees LineAgrees AddressAgrees FareIsOfTheRide
  OffersAgree TripHasItsPin ReceiptIsOfTheTrip
PROPERTIES PlaceholderGoes
CHECK_DEADLOCK FALSE
