SPECIFICATION FairSpec
CONSTANTS
  Jobs = {j1, j2}
  Workers = {w1, w2}
  HoldLimits = {2, 3}
  MaxFaults = 3
  MaxActs = 2
  NoJob = NoJob
INVARIANTS AttemptsAreAccounted BlockedIsReleasable OnlyReleaseStrands
PROPERTY JobsSettle
CHECK_DEADLOCK FALSE
