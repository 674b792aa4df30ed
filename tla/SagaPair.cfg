SPECIFICATION Spec
CONSTANTS
  Trip = {t1, t2}
  Cancel = {c1}
  Consumer = Consumer
  Driver = {d1}
  NoTrip = NoTrip
  NoDriver = NoDriver
  NoMatch = NoMatch
  MaxFaults = 1
  MaxLost = 1
  MaxHangups = 1
  MaxCrashes = 1
INVARIANTS LeaksAccounted SilenceAccounted
CHECK_DEADLOCK FALSE
SYMMETRY SagaSymmetry
