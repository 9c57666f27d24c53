SPECIFICATION Spec
CONSTANTS
  Calls = {c1, c2, c3}
  N = 2
  None = None
SYMMETRY CallSymmetry
INVARIANT KeepsRetrying
CHECK_DEADLOCK FALSE
