SPECIFICATION FairSpec
CONSTANTS
  Players = {1, 2}
  UniqueIDs = {1, 2}
  Categories = {1}
  Uploads <- RankingUploads
  Workers = {w1, w2}
  w1 = w1
  w2 = w2
  MaxTime = 1
  Faults = TRUE
  Groups <- GroupFilters
  MaxRows = 4
  Lengths = {0, 1, 2}
INVARIANTS TypeOK BestScoreKept CategoriesComplete WaitsForFurther BestUploadLeads NearShowsCaller RanksAgree
PROPERTIES OrderNeverChanges UploadsEnd ImplementsLeaderboard
