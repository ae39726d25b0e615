SPECIFICATION Spec
CONSTANTS
  Posts = {p1, p2}
  Keys = {k1, k2}
  Workers = {w1, w2}
  MaxGeneration = 2
  MaxRevisions = 2
  MaxFaults = 2
  NoPost = NoPost
  NoWorker = NoWorker
INVARIANT NoPostIsForgotten
CHECK_DEADLOCK FALSE
