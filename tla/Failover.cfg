SPECIFICATION FairSpec
CONSTANTS
  Calls = {c1, c2, c3}
  N = 2
  None = None

INVARIANTS TypeOK TokenExact
PROPERTY ConsumeReturns
CHECK_DEADLOCK FALSE
