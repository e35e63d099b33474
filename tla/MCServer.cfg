CONSTANTS
  c1 = c1  c2 = c2  q1 = q1  a1 = a1
  Transports = {"tcp", "quic"}
  TCPConns = {c1, c2}
  QUICConns = {q1}
  Addrs = {a1}
  RemoteAddr <- MCRemoteAddr
  MaxPerIP = 1
  MaxStreams = 1
SPECIFICATION FairSpec
INVARIANTS CleanMeansStopped NoAddFromZero SlotsExact
PROPERTY TCPDrains
CHECK_DEADLOCK FALSE
