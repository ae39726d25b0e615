SPECIFICATION FairSpec
CONSTANTS
  Posts = {p1, p2}
  Keys = {k1, k2}
  Workers = {w1, w2}
  MaxGeneration = 2
  MaxRevisions = 2
  MaxFaults = 1
  NoPost = NoPost
  NoWorker = NoWorker
INVARIANTS OneCandidatePerStory FetchedTwiceAtMost RetentionSparesWork
PROPERTIES ClaimedEvidenceIsFixed EnrichmentEnds
CHECK_DEADLOCK FALSE
