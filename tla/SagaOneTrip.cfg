SPECIFICATION FairSpec
CONSTANTS
  Trip = {t1}
  Cancel = {c1, c2}
  Consumer = Consumer
  Driver = {d1}
  NoTrip = NoTrip
  NoDriver = NoDriver
  NoMatch = NoMatch
  MaxFaults = 2
  MaxLost = 1
  MaxHangups = 1
  MaxCrashes = 1
INVARIANTS TypeOK LiveTripKeepsHold FailedCreateLeavesNothing
PROPERTIES StrictUnlessCancelled LeavesRequested AnswerApplied
CHECK_DEADLOCK FALSE
