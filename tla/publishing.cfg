SPECIFICATION Spec
CONSTANTS
  p1 = p1
  p2 = p2
  w1 = w1
  w2 = w2
  Players = {p1}
  Workers = {w1, w2}
  Sizes = {1, 2}
  Posts <- PublicPosts
  SlotIDs = {1}
  Values = {"v1"}
  Modifications <- NoChanges
  Batches <- PairBatches
  Pages <- FirstPage
  LimitMax = 2
  LimitDefault = 2
  MaxObjects = 2
  Faults = TRUE
SYMMETRY Symmetry
INVARIANTS TypeOK PublishedHadItsSize SuccessMeansAll SearchedCanBeFetched
PROPERTIES ImplementsPublication
