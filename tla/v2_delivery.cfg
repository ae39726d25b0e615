SPECIFICATION FairSpec
CONSTANTS
  N = 1
  Senders = {service, manual}
  Service = service
  MaxPresses = 2
  MaxFaults = 1
INVARIANTS OneGeneration DeliveredIsWhole NoClickIsLost OnlyConvergenceStrands
PROPERTIES ReviewIsFinal ImplementsAppendOnce EveryCandidateEnds EveryClickPasses
