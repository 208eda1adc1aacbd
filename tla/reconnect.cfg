SPECIFICATION FairSpec
CONSTANTS
  p1 = p1
  p2 = p2
  p3 = p3
  NoPID = NoPID
  PIDs = {p1, p2}
  Kinds <- OneKind
  CommunityIDs = {0}
  MaxGatherings = 1
  MaxSlots = 2
  MaxConns = 2
  LateRequests = TRUE
  Sessions <- ReconnectSessions
  Communities = {}
  Counts = {1}
  Invites <- NoInvites
  CriteriaLists <- MovingCriteria
  CreationMax = 1
  Failures = {}
  Observed = {}
PROPERTIES UnregisteredFrozen CallbackFrees SlotsFreed
