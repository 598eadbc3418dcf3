SPECIFICATION Spec
CONSTANTS
  Seed <- MCSeed
  Batches <- MCBatches
  Limit = 2
  FirstQuery <- MCFirstQuery
  Searches <- MCSearches
  MaxClicks = 7
  MaxUnderWay = 2
INVARIANTS
  TypeOK
  StoreIsAscending
  StoreHoldsFirst
  AnswersAreNewest
  OneAtATime
  PagesTile
CHECK_DEADLOCK FALSE
