SPECIFICATION FairSpec
CONSTANTS
  w1 = w1
  a1 = a1
  a2 = a2
  api = api
  worker = worker
  a = a
  b = b
  s1 = s1
  s2 = s2
  g1 = g1
  Engines = {api}
  Threads = {w1, a1, a2}
  Home <- MCHome
  Calls <- MCCalls
  Packs = {a, b}
  Versions = {1, 2}
  Shapes = {s1}
  Score <- MCScore
  Base <- MCBase
  Vendor <- MCVendor
  Suggestions = {g1}
  Draft <- MCDraft
  MaxWrites = 2
  MaxFaults = 1
  Structural = Structural
  None = None
INVARIANT TypeOK
INVARIANT NeverRetired
INVARIANT CacheIsBest
INVARIANT TableAgrees
PROPERTY CallsReturn
CHECK_DEADLOCK FALSE
