SPECIFICATION EventSpec
CONSTANTS
  Conns = {c1}
  MaxChanges = 2
  MaxSeconds = 2
  Kinds <- MCKinds
  BroadcastBuf = 1
  RetryBuf = 1
  SendBuf = 1
INVARIANTS
  ClientsLeaveOnce

  
CHECK_DEADLOCK FALSE
