CONSTANTS
  IPs = {a}
  Unit = 2
  IPMax = 4
  IPRate = 1
  IdleLimit = 4
  MaxTime = 6
  Gaps = {0, 1}
  Requests <- MCRequests
  Peers = {p1}
  Handlers = {h1, h2}
  maxRequestsPerWindow = 2
  windowSize = 2
  BlockTime = 1
  watcher = watcher  nil = nil  free = free
  Callers = {c1, c2}
  Ports = {9000}
  Sizes = {0, 1024}
  MaxWrites = 2
  MaxUpdates = 1
  MaxFaults = 1
SPECIFICATION MCSpec
INVARIANTS GlobalWindow IPWindow SlidingLimit ConfigTypeOK Announced
PROPERTIES RefusalJustified Converges
\* Time is bounded, a protector that has hung or crashed stays so, and the file
\* is no longer written.
CHECK_DEADLOCK FALSE
