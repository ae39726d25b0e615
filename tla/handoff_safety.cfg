SPECIFICATION Spec
CONSTANTS
  Handoffs = {h1}
  Bootstrap = boot
  OpIds = {o1, o2, o3}
  NoOp = none
  Mutator = worker
  Reconcilers = {r1}
  MaxFence = 2
SYMMETRY OpSymmetry
INVARIANTS DeliveredIsInSheet NotAppliedIsFinal
PROPERTIES FencedWrites ImplementsAppendOnce
