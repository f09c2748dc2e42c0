SPECIFICATION FairSpec
CONSTANTS
  l1 = l1
  l2 = l2
  l3 = l3
  Lookups = {l1, l2, l3}
  IdSpace = 3
  BadNames = {l1}
  MaxStops = 2
INVARIANTS
  PcbArgumentOwned
  HandlerOnce
PROPERTY
  KeepsPromise
CHECK_DEADLOCK FALSE
