CONSTANTS
  t1 = t1  t2 = t2  hb = hb  free = free
  Apps = {t1, t2}
  Workloads <- Shared
  MaxConns = 2
  MaxRetries = 2
  WireCap = 3
  IPTokens = 1
SPECIFICATION Spec
INVARIANTS TypeOK StreamsFramed EchoInOrder NoLeakedConnection 
CHECK_DEADLOCK FALSE
