SPECIFICATION FairSpec
CONSTANTS
  Handoffs = {h1}
  Bootstrap = boot
  OpIds = {o1, o2}
  NoOp = none
  Mutator = worker
  Reconcilers = {r1}
  MaxFence = 2

PROPERTIES
  StrandedWorkIsFreed
