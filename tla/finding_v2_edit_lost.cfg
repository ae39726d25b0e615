SPECIFICATION Spec
CONSTANTS
  MaxId = 3
  MaxClock = 4
  MaxDeleted = 1
  MaxEdited = 2
  MaxPage = 2
  Lookback = 1
  Day = 2
INVARIANT WatermarkIsCovered
CHECK_DEADLOCK FALSE
