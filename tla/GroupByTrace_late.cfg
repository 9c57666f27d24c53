SPECIFICATION Spec
CONSTANTS
  t1 = t1
  t2 = t2
  t3 = t3
  b1 = b1
  b2 = b2
  b3 = b3
  b4 = b4
  w1 = w1
  w2 = w2
  Empty = Empty
  Traces = {t1}
  Batches = {b1, b2}
  TraceOf <- BatchTraces
  Workers = {w1}
  WorkerOf <- TraceWorkers
  RingSize = 1
  QueueSize = 2
  Stalls = FALSE
INVARIANT NoSpanLost
CHECK_DEADLOCK FALSE
