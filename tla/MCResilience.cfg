CONSTANTS
  Callers = {c1, c2, c3}
  BreakerThreshold = 2
  BreakerTimeout = 1
  Backends = {b1, b2}
  Reqs = {r1, r2}
  FailureLimit = 1
  IndexRange = 3
  MaxTried = 3
  MaxWraps = 2
  Stoppers = {g1, g2}
  Moves = {"CONNECTED", "AUTH", "DRAINING"}
  Writers = {w1, w2}
  Sizes = {1, 2}
  highWaterMark = 3
  lowWaterMark = 2
  MaxUsage = 5
SPECIFICATION Spec
INVARIANTS Balanced DrainingExact UsageExact
PROPERTIES OpenIsFinal RustRecovers LostStays
\* A Go breaker that has hung stays so, and the bounded histories end.
CHECK_DEADLOCK FALSE
