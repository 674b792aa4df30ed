SPECIFICATION Spec
CONSTANTS
  e1 = e1
  e2 = e2
  p1 = p1
  p2 = p2
  Email = {e1, e2}
  Phone = {p1, p2}
  Invented = {7}
  None = None
  MaxSignups = 2
  MaxLogins = 2
  MaxFaults = 2
INVARIANTS TypeOK SessionsAccounted MemoryAgrees ProfilesStayOffline
PROPERTIES HalfStaysHalf
SYMMETRY PortalSymmetry
CHECK_DEADLOCK FALSE
