SPECIFICATION Spec
CONSTANTS
  Handoffs = {h1}
  Bootstrap = boot
  OpIds = {o1}
  NoOp = none
  Mutator = worker
  Reconcilers = {r1}
  MaxFence = 2

INVARIANTS
  OnlyRefusalSettlesNotApplied
