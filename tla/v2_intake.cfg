SPECIFICATION Spec
CONSTANTS
  MaxId = 3
  MaxClock = 4
  MaxDeleted = 1
  MaxEdited = 1
  MaxPage = 2
  Lookback = 1
  Day = 2
INVARIANTS NothingIsSkipped SweepSeesQuietEdits
CHECK_DEADLOCK FALSE
