SPECIFICATION Spec
CONSTANTS
  Legacy = {a, b, c}
  Posts = {p, q}
  Keys = {k1, k2}
SYMMETRY Interchangeable
INVARIANTS OnlyUnreceiptedRefuses
PROPERTIES HeldByDefault OneCandidateGoesOn
CHECK_DEADLOCK FALSE
