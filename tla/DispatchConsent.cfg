SPECIFICATION Spec
CONSTANTS
  Trip = {t1, t2}
  Driver = {d1}
  NoTrip = NoTrip
  NoDriver = NoDriver
  VehicleMatch <- AllSuitable
  MaxOffers = 1
  MaxCandidates = 1
  MaxPolls = 1
  MaxExpiries = 0
  MaxFaults = 0
  MaxCrashes = 0
  MaxToggles = 0
INVARIANT OnlyConsentedTrips
CHECK_DEADLOCK FALSE
