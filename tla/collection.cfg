SPECIFICATION CollectionFairSpec
CONSTANTS
  MaxId = 3
  MaxChanges = 1
  MaxStops = 2
  PageSize = 1
  Overlap = 2
  MaxPages = 1
INVARIANT NothingIsSkipped
PROPERTIES OverlapSeesEdits EveryPostIsRanked
CHECK_DEADLOCK FALSE
