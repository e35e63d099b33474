CONSTANTS
  Beats = {h1, h2}
  Interval = 2
  Timeout = 5
  MaxLag = 3
  HeaderSize = 2
  MaxLength = 1
  Frames <- MCFrames
  MaxFrames = 3
SPECIFICATION MCSpec
INVARIANTS Cadence TimeoutOnlyAtStart ServerReassembles ClientReassembles
PROPERTIES StopEndsHeartbeats 
CHECK_DEADLOCK FALSE
