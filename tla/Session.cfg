SPECIFICATION Spec
CONSTANTS
  t1 = t1  t2 = t2  u1 = u1  u2 = u2
  k1 = k1  k2 = k2  k3 = k3
  Tabs = {t1, t2}
  Users = {u1}
  Tokens = {k1, k2, k3}
  Requests = {"poll"}
  None = None MaxInFlight = 2
INVARIANTS
  TypeOK
  RotatedOnce
  SessionKept
PROPERTIES
  CallsSettle
  BootstrapEnds
