SPECIFICATION Spec
CONSTANTS
  p1 = p1
  p2 = p2
  p3 = p3
  NoPID = NoPID
  PIDs = {p1, p2}
  Kinds <- OneKind
  CommunityIDs = {0}
  MaxGatherings = 1
  MaxSlots = 2
  MaxConns = 1
  LateRequests = FALSE
  Sessions <- DepartureSessions
  Communities = {}
  Counts = {1, 2}
  Invites <- NoInvites
  CriteriaLists <- MovingCriteria
  CreationMax = 1
  Failures = {}
  Observed = {"Disconnected"}
PROPERTY DepartureReachesOwner
