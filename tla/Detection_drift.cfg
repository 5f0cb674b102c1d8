SPECIFICATION MCSpec
CONSTANTS
  Processes = {"api", "worker"}
  Threads = {"a1", "a2", "w"}
  Home <- MCHome
  Tickers = {"w"}
  Events <- MCEvents
  Ignored = {"engine.quarantine", "none"}
  Window = 2
  Required = 2
  Far <- MCFar
  ConfDrop = 5
  Tau = 60
  LookBack = 2
  ListLimit = 3
  MaxExplained = 2
  Desired <- MCDesired
  Observations <- MCObservations
  DefaultTenant = "default"
  Traffic <- MCTraffic
  Share <- MCShare
  MaxTicks = 3
  MaxDrafts = 1
  MaxFaults = 1
  None = None
  Classes = {"NUM", "PORT", "HEX", "WORD"}
  MaxLen = 3
INVARIANTS TypeOK AlertsSustained DriftEvidence NearestExplained UnknownCounted SuggestedHasDraft AlignOptimal
PROPERTY FrozenReference
CHECK_DEADLOCK FALSE
