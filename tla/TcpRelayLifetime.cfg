SPECIFICATION Spec
CONSTANTS
  ClientQueueHighWater = 4
  ClientQueueLowWater = 3
  LwipSndLowWater = 2
  TcpSndBuf = 4
  TcpWnd = 4
  SaltSize = 1
  Overhead = 1
  MaxPayload = 3
  ChunksPerRead = 1
  MaxPending = 2
  TargetKinds = {"ip", "domain"}
  BadTargets = FALSE
  AllocFails = FALSE
INVARIANT
  KeptUntilReturn
