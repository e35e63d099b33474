CONSTANTS
  Peers = {p1}
  Handlers = {h1, h2}
  maxRequestsPerWindow = 2
  windowSize = 2
  BlockTime = 1
SPECIFICATION FairProtectorSpec
PROPERTY OverLimitBlocked
CHECK_DEADLOCK FALSE
