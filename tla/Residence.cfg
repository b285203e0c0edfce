SPECIFICATION Spec
CONSTANTS
  s1 = s1  s2 = s2
  r1 = r1  r2 = r2
  t1 = t1
  e1 = e1
  first = first  last = last
  None = None
  Students = {s1, s2}
  Rooms = {r1, r2}
  Rows = {1, 2}
  Transfers = {t1}
  Exits = {e1}
  Capacities = {1, 2}
  Profiles = {first, last}
  Enrolled <- AllFirst
  NextYear <- GrowOlder
  Restrictions <- OpenOrFirst
  Edited = {r1}
  MaxRequests = 1
  MaxSaves = 1
  MaxHandlers = 2
SYMMETRY Alike
CHECK_DEADLOCK FALSE
INVARIANTS
  SeatsBounded
  RoomsApart
  DecisionsCarriedOut
