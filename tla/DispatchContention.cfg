SPECIFICATION Spec
CONSTANTS
  Trip = {t1, t2}
  Driver = {d1}
  NoTrip = NoTrip
  NoDriver = NoDriver
  VehicleMatch <- AllSuitable
  MaxOffers = 1
  MaxCandidates = 1
  MaxPolls = 1
  MaxExpiries = 1
  MaxFaults = 1
  MaxCrashes = 1
  MaxToggles = 1
INVARIANTS TypeOK ConcurrentOffersBounded AssignmentsPerClick
PROPERTY MatchContract
SYMMETRY TripSymmetry
CHECK_DEADLOCK FALSE
