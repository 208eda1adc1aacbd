SPECIFICATION Spec
CONSTANTS
  p1 = p1
  p2 = p2
  p3 = p3
  NoPID = NoPID
  PIDs = {p1, p2}
  Kinds <- OneKind
  CommunityIDs = {0, 9}
  MaxGatherings = 1
  MaxSlots = 2
  MaxConns = 1
  LateRequests = FALSE
  Sessions <- AstraySessions
  Communities = {}
  Counts = {1, 2}
  Invites <- NoInvites
  CriteriaLists <- MovingCriteria
  CreationMax = 1
  Failures = {}
  Observed = {}
INVARIANT CountsOnlyForCommunities
