SPECIFICATION Spec
CONSTANTS
  p1 = p1
  p2 = p2
  w1 = w1
  w2 = w2
  Players = {p1, p2}
  Workers = {w1, w2}
  Sizes = {1}
  Posts <- SharedPosts
  SlotIDs = {1}
  Values = {"v1", "v2"}
  Modifications <- SomeChanges
  Batches <- OneBatch
  Pages <- FirstPage
  LimitMax = 2
  LimitDefault = 1
  MaxObjects = 1
  Faults = TRUE
SYMMETRY Symmetry
INVARIANT SearchedCanBeFetched
PROPERTIES WithdrawnByOwner ChangedByPermitted
