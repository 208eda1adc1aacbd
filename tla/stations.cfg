SPECIFICATION Spec
CONSTANTS
  p1 = p1
  p2 = p2
  a1 = a1
  a2 = a2
  NoPID = NoPID
  PIDs = {p1, p2}
  Addrs = {a1, a2}
  Reports <- SomeReports
  Sent <- SomeURLs
  MaxConns = 2
  MaxURLs = 4
SYMMETRY Symmetry
INVARIANTS TypeOK URLsLeadToPlayer RegisteredReachable
PROPERTIES ReplacedEverywhere
CHECK_DEADLOCK FALSE
