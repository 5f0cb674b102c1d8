SPECIFICATION FairSpec
CONSTANTS
  c1 = c1
  c2 = c2
  c3 = c3
  Consumers = {c1, c2, c3}
  Spares = {c3}
  MaxMsgs = 3
  Poison = {2}
  Count = 2
  MaxLen = 2
  MaxStops = 2
  MaxLost = 1
  MaxRaises = 1
  MaxReplaced = 1
INVARIANT TypeOK
INVARIANT NothingForgotten
INVARIANT OneOwner
PROPERTY AtLeastOnceSpec
PROPERTY HandledDespiteCrashes
CHECK_DEADLOCK FALSE
