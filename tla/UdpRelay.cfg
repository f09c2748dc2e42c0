SPECIFICATION FairSpec
CONSTANTS
  literal = literal
  name = name
  Keys = {literal, name}
  Kinds <- MCKinds
  MaxDatagrams = 4
  MaxQueued = 2
INVARIANTS
  PcbArgumentOwned
  StoppedHoldsNothing
  RepliesAsAsked
PROPERTIES
  MappingsExpire
  StoppedIsDestroyed
CHECK_DEADLOCK FALSE
