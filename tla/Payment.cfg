SPECIFICATION Spec
CONSTANTS
  Request = {r1, r2, r3}
  Trip = {t1, t2}
  NoTrip = NoTrip
  NoRequest = NoRequest
  MaxFaults = 2
  MaxLost = 1
  MaxExpired = 1
  MaxCrashes = 1
INVARIANTS TypeOK RowsAgreeWithStripe OrphansAccounted ReleaseSuccessFrees
SYMMETRY PaymentSymmetry
CHECK_DEADLOCK FALSE
