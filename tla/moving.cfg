SPECIFICATION Spec
CONSTANTS
  p1 = p1
  p2 = p2
  p3 = p3
  NoPID = NoPID
  PIDs = {p1, p2}
  Kinds <- OneKind
  CommunityIDs = {0, 1}
  MaxGatherings = 2
  MaxSlots = 2
  MaxConns = 1
  LateRequests = FALSE
  Sessions <- MovingSessions
  Communities <- MovingCommunities
  Counts = {2}
  Invites <- NoInvites
  CriteriaLists = {}
  CreationMax = 1
  Failures = {}
  Observed = {}
SYMMETRY Symmetry
INVARIANTS NoGhostSlots CommunitiesBounded URLsLeadToHost
PROPERTIES CreatorLeftOthers CountedSessionsPlayed
