CONSTANTS
  IDs = {s1, s2}
  Getters = {g1, g2}
  Timeout = 1
  Creators = {c1, c2}
  Validators = {v1}
  Identities = {unnamed, i1, i2, i3}
  unnamed = unnamed
  MaxWasted = 1
  MaxZeroRTTSessions = 1
  ZeroRTTLifetime = 1
  Streams = {st1, st2}
  WordSize = 16
  maxStreamData = 5
  Windows = {0, 3, 9}
  Amounts = {1, 4, 7}
  Latencies = {1, 2}
  MaxPaths = 4
SPECIFICATION MCSpec
INVARIANTS Kept Capacity WithinWindow BestIsLeast
PROPERTY LapsedDropped
