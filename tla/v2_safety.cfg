SPECIFICATION Spec
CONSTANTS
  N = 1
  Senders = {service, manual}
  Service = service
  MaxPresses = 2
  MaxFaults = 3
INVARIANTS
  TypeOK
  OneRequestPerDraft
  OneGeneration
  TwoApprovals
  StatesAgree
  DeliveredIsWhole
  ReceiptMeansRow
  NoClickIsLost
PROPERTIES
  ReviewIsFinal
  ImplementsAppendOnce
