CONSTANTS
  t1 = t1  t2 = t2  hb = hb  free = free
  Apps = {t1}
  Workloads <- Pipelined
  MaxConns = 2
  MaxRetries = 2
  WireCap = 4
  IPTokens = 9
SPECIFICATION FairSpec
PROPERTY CallsReturn
CHECK_DEADLOCK FALSE
