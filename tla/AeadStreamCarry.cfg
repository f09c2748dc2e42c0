SPECIFICATION Spec
CONSTANTS
  Base = 7
  NonceSize = 2
  LenPart = 2
  TagSize = 1
  MaxPayload = 2
  Sizes = {0, 2, 3}
  MaxRead = 4
  MaxChunks = 4
INVARIANT
  HonestStreamOpens
CHECK_DEADLOCK FALSE
