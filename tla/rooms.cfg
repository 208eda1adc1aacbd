SPECIFICATION Spec
CONSTANTS
  p1 = p1
  p2 = p2
  p3 = p3
  NoPID = NoPID
  PIDs = {p1, p2, p3}
  Kinds <- OneKind
  CommunityIDs = {0, 1}
  MaxGatherings = 1
  MaxSlots = 3
  MaxConns = 1
  LateRequests = FALSE
  Sessions <- RoomSessions
  Communities = {}
  Counts = {0, 2}
  Invites <- Singles
  CriteriaLists <- RoomCriteria
  CreationMax = 1
  Failures = {}
  Observed = {"OwnershipChanged", "GatheringUnregistered"}
SYMMETRY Symmetry
INVARIANTS OwnerAndHostPresent OwnerAtHead FoundCanBeEntered
PROPERTIES RemainingInformed SlotOrderKept
