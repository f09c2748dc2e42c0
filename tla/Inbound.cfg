SPECIFICATION FairSpec
CONSTANTS
  HasUdp = TRUE
  BindFails = TRUE
  MaxEvents = 5
  MaxClients = 2
INVARIANTS
  TypeOK
  NeverDeaf
  ShutdownIsFinal
PROPERTY
  ListenerFollowsTunnel
CHECK_DEADLOCK FALSE
