SPECIFICATION Spec
CONSTANTS
  p1 = p1
  p2 = p2
  w1 = w1
  w2 = w2
  Players = {p1, p2}
  Workers = {w1}
  Sizes = {1}
  Posts <- OpenPosts
  SlotIDs = {1}
  Values = {"v1"}
  Modifications <- OneChange
  Batches <- NoBatches
  Pages <- NoPages
  LimitMax = 2
  LimitDefault = 1
  MaxObjects = 2
  Faults = TRUE
PROPERTY SlotMovedByPermitted
