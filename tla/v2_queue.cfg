SPECIFICATION FairSpec
CONSTANTS
  N = 2
  Senders = {service}
  Service = service
  MaxPresses = 2
  MaxFaults = 0
INVARIANTS
  NoClickIsLost
PROPERTIES
  EveryCandidateEnds
