SPECIFICATION FairSpec
CONSTANTS
  ClientQueueHighWater = 3
  ClientQueueLowWater = 2
  LwipSndLowWater = 2
  TcpSndBuf = 3
  TcpWnd = 3
  SaltSize = 1
  Overhead = 1
  MaxPayload = 2
  ChunksPerRead = 2
  MaxPending = 3
  TargetKinds = {"ip", "domain"}
  BadTargets = TRUE
  AllocFails = TRUE
INVARIANTS
  ClientQueueAccounted
  WindowConserved
  ClientBacklogBounded
  PcbKeepsSessionAlive
  ClosedSessionHasNoPcb
  OneReadAtATime
  UploadNeverBehindRead
PROPERTIES
  ClosedSessionIsDestroyed
  WithheldWindowReopens
  PausedClientResumes
