SPECIFICATION Spec
CONSTANTS
  p1 = p1
  p2 = p2
  p3 = p3
  NoPID = NoPID
  PIDs = {p1, p2}
  Kinds <- OneKind
  CommunityIDs = {0}
  MaxGatherings = 2
  MaxSlots = 2
  MaxConns = 1
  LateRequests = FALSE
  Sessions <- FailureSessions
  Communities = {}
  Counts = {2}
  Invites <- NoInvites
  CriteriaLists <- MovingCriteria
  CreationMax = 1
  Failures <- FailureStatements
  Observed = {}
SYMMETRY Symmetry
INVARIANTS TypeOK CapacityRespected
PROPERTIES EmptySessionStaysEmpty
