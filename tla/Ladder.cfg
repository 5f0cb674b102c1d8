SPECIFICATION Spec
CONSTANTS
  t1 = t1
  t2 = t2
  None = None
  Number <- MCNumber
  Numeric = {"60"}
  LevelWord <- MCWords
  SourceKeys <- MCSourceKeys
  TargetKeys <- MCTargetKeys
  SourcePorts <- MCSourcePorts
  TargetPorts <- MCTargetPorts
  Addresses = {"10.0.0.1", "10.0.0.2", "10.0.0.3"}
  Private = {"password", "session_token", "token"}
  Str <- MCStr
  Threads = {t1, t2}
  Names = {"filter", "other", "cef", "access", "json", "pairs", "odd"}
  Line <- MCLine
  Packs <- MCPacks
  Similarity <- MCClose
  Failures = 1
  Reset = 2
  MaxLines = 3
  MaxTime = 3
  MaxFaults = 1
SYMMETRY MCSymmetry
INVARIANT TypeOK
INVARIANT TierMeans
INVARIANT ReadByBest
INVARIANT FailsFast
INVARIANT EventComplete
CHECK_DEADLOCK FALSE
