SPECIFICATION FairSpec
CONSTANTS
  t1 = t1
  t2 = t2
  t3 = t3
  b1 = b1
  b2 = b2
  b3 = b3
  b4 = b4
  w1 = w1
  w2 = w2
  Empty = Empty
  Traces = {t1, t2}
  Batches = {b1, b2, b3}
  TraceOf <- BatchTraces
  Workers = {w1}
  WorkerOf <- TraceWorkers
  RingSize = 1
  QueueSize = 1
  Stalls = TRUE
INVARIANT ExpiryPending
PROPERTIES LeavesRing ConsumeReturns ShutdownEnds
CHECK_DEADLOCK FALSE
