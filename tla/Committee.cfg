SPECIFICATION Spec
CONSTANTS
  s1 = s1  s2 = s2  s3 = s3
  a1 = a1  b1 = b1  b2 = b2
  r1 = r1
  p1 = p1  p2 = p2
  m1 = m1  m2 = m2
  NoApp = NoApp  NoStudent = NoStudent  NoRoom = NoRoom  NoProtocol = NoProtocol
  Students = {s1}
  Apps = {a1}
  Legacy = {}
  Rooms = {r1}
  Protocols = {p1, p2}
  Members = {m1, m2}
  MaxHandlers = 3
  Owner <- OwnerOf
  Capacity <- OneSeat
  Suits <- AllSuit
CHECK_DEADLOCK FALSE
SYMMETRY ProtocolsAlike
INVARIANTS
  ApprovedMeansUnanimous
  OneProtocolEach
  ReferralsFollowApproval
