SPECIFICATION Spec
CONSTANTS
  N = 2
  Senders = {service}
  Service = service
  MaxPresses = 2
  MaxFaults = 1
INVARIANTS
  UnclearIsReviewed
