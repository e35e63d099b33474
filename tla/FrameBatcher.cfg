CONSTANTS
  loop = loop
  Callers = {c1, c2}
  maxFrames = 2
  Total = 4
SPECIFICATION Spec
INVARIANTS FullIsSignalled InOrder
PROPERTIES DeliversOnce DeliversAll
