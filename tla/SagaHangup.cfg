SPECIFICATION Spec
CONSTANTS
  Trip = {t1}
  Cancel = {}
  Consumer = Consumer
  Driver = {d1}
  NoTrip = NoTrip
  NoDriver = NoDriver
  NoMatch = NoMatch
  MaxFaults = 0
  MaxLost = 0
  MaxHangups = 1
  MaxCrashes = 0
CHECK_DEADLOCK FALSE
INVARIANT CompensatedOnFailure
