SPECIFICATION Spec
CONSTANTS
  t1 = t1
  t2 = t2
  ann = ann
  bob = bob
  Tab <- MCTab
  Driver = {ann, bob}
  Sessions <- MCSessions
  Net = 3
  Tip = 1
  MaxSteps = 2
INVARIANTS TypeOK WalletAccounted  RiderSeesADriver
PROPERTIES RiderNeverGoesBack
CHECK_DEADLOCK FALSE
