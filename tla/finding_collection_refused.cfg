SPECIFICATION CollectionFairSpec
CONSTANTS
  MaxId = 3
  MaxChanges = 1
  MaxStops = 1
  PageSize = 1
  Overlap = 2
  MaxPages = 1

PROPERTY CollectionContinues
CHECK_DEADLOCK FALSE
