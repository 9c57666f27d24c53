SPECIFICATION Spec
CONSTANTS
  t1 = t1
  t2 = t2
  t3 = t3
  b1 = b1
  b2 = b2
  b3 = b3
  b4 = b4
  w1 = w1
  w2 = w2
  Empty = Empty
  Traces = {t1, t2, t3}
  Batches = {b1, b2, b3, b4}
  TraceOf <- BatchTraces
  Workers = {w1, w2}
  WorkerOf <- TraceWorkers
  RingSize = 1
  QueueSize = 2
  Stalls = FALSE
INVARIANTS StorageOwned ReleasedIsRemoved
CHECK_DEADLOCK FALSE
