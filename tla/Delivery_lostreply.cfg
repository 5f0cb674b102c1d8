SPECIFICATION FairSpec
CONSTANTS
  c1 = c1
  c2 = c2
  c3 = c3
  Consumers = {c1}
  Spares = {}
  MaxMsgs = 2
  Poison = {}
  Count = 1
  MaxLen = 2
  MaxStops = 1
  MaxLost = 1
  MaxRaises = 0
  MaxReplaced = 0
PROPERTY EventuallyHandled
CHECK_DEADLOCK FALSE
