SPECIFICATION Spec
CONSTANTS
  Candidates = {a, b}
  Workers = {w1, w2}
  MaxJobs = 2
  MaxEdits = 1
  MaxFaults = 0
  NoCandidate = NoCandidate
  NoWorker = NoWorker
INVARIANT PendingIsDecidable
CHECK_DEADLOCK FALSE
