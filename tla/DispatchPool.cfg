SPECIFICATION FairSpec
CONSTANTS
  Trip = {t1}
  Driver = {d1, d2, d3}
  NoTrip = NoTrip
  NoDriver = NoDriver
  VehicleMatch <- AllSuitable
  MaxOffers = 2
  MaxCandidates = 2
  MaxPolls = 2
  MaxExpiries = 0
  MaxFaults = 1
  MaxCrashes = 1
  MaxToggles = 0
INVARIANT OfferBudget
PROPERTIES NeverReoffered DispatchTerminates LockRecovers
CHECK_DEADLOCK FALSE
