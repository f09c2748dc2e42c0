SPECIFICATION FairSpec
CONSTANTS
  InitialDelay = 2
  MaxDelay = 2
  NonPreferred = FALSE
  Pushes <- MCPushes
  MaxTuns = 2
  MaxRounds = 1
INVARIANTS
  NoCircularWait
  UpMeansConfigured
  PacketStaysInTunnel
  ClientOutlivesUse
  EventsFollowTunnel
  DowngradeSticks
PROPERTIES
  ShutdownCompletes
  CipherFailureRetried
CHECK_DEADLOCK FALSE
