SPECIFICATION Spec
CONSTANTS
  N = 1
  MaxChunks = 2
  Attempts = {1, 2, 3, 4, 5}
  NoAttempt = 0
  MaxUpdates = 2
  MaxFaults = 3
INVARIANTS PrefixFirst SentIsWhole DecidedOnce
PROPERTY ImplementsAppendOnce
