CONSTANTS
  Traces <- MCTraces
  Spans <- MCSpans
  TraceOf <- MCTraceOf
  Roots <- MCRoots
  Payloads <- MCPayloads
  Configs <- MCConfigs
  NumTraces = 2
  NumBatches = 2
  RootWait = 1
  WorkCap = 1
  Policies <- MCPolicies
  Limits <- MCLimits
  MaxUpdates = 1
SPECIFICATION Spec
INVARIANT TypeOK
INVARIANT DropWins
INVARIANT MemoryBounded
INVARIANT HeldEverywhere
INVARIANT PendingIsBatched
INVARIANT BatchedOnce
INVARIANT DecisionRemembered
INVARIANT UpdatedBeforeWork
INVARIANT ShutdownDecides
PROPERTY FollowsDecision
PROPERTY PendingEnds
PROPERTY EverySpanMet
PROPERTY ShutdownEnds
CHECK_DEADLOCK FALSE
