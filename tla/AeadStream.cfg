SPECIFICATION FairSpec
CONSTANTS
  Base = 7
  NonceSize = 2
  LenPart = 2
  TagSize = 1
  MaxPayload = 2
  Sizes = {0, 2, 3}
  MaxRead = 4
  MaxChunks = 3
INVARIANTS
  TypeOK
  ReaderAtBoundary
  HonestStreamOpens
  RepliesInStep
PROPERTY
  RequestsDelivered
CHECK_DEADLOCK FALSE
