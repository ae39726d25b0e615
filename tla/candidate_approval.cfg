SPECIFICATION Spec
CONSTANTS
  Candidates = {a, b}
  Workers = {w1, w2}
  MaxJobs = 2
  MaxEdits = 2
  MaxFaults = 2
  NoCandidate = NoCandidate
  NoWorker = NoWorker
INVARIANTS HandoffIsTheCurrentDraft WorkMatchesStatus ChosenCanBeReviewed
CHECK_DEADLOCK FALSE
