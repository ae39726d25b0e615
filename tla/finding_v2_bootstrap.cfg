SPECIFICATION Spec
CONSTANTS
  N = 1
  Senders = {service}
  Service = service
  MaxPresses = 2
  MaxFaults = 1
INVARIANTS
  SelectedCanSettle
