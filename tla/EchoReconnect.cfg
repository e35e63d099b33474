CONSTANTS
  t1 = t1  t2 = t2  hb = hb  free = free
  Apps = {t1}
  Workloads <- Reconnecting
  MaxConns = 2
  MaxRetries = 2
  WireCap = 4
  IPTokens = 9
SPECIFICATION FairSpec
PROPERTY StrategyIsReset
CHECK_DEADLOCK FALSE
