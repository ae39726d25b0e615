SPECIFICATION FairSpec
CONSTANTS
  N = 2
  MaxChunks = 1
  Attempts = {1, 2, 3}
  NoAttempt = 0
  MaxUpdates = 0
  MaxFaults = 1
INVARIANTS
  OldestFirst
PROPERTIES
  UnknownIsSettled
  QueueDrains
