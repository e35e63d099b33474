CONSTANTS
  t1 = t1  t2 = t2  hb = hb  free = free
  Apps = {t1, t2}
  Workloads <- Overlapping
  MaxConns = 1
  MaxRetries = 2
  WireCap = 3
  IPTokens = 1
SPECIFICATION Spec
INVARIANT HelloBeforeData
CHECK_DEADLOCK FALSE
