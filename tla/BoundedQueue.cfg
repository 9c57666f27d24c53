SPECIFICATION FairSpec
CONSTANTS
  Requests = {r1, r2, r3, r4}
  MaxLimitAdmit = 2
  MaxLimitWait = 3
  MaxSize = 3
  Word = 8
INVARIANTS TypeOK CountersExact NoRoomWasted
PROPERTY EveryWaiterReturns
CHECK_DEADLOCK FALSE
