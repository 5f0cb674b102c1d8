SPECIFICATION Spec
CONSTANTS
  t1 = t1
  t2 = t2
  None = None
  Number <- MCNumber
  Numeric = {"60"}
  LevelWord <- MCWords
  SourceKeys <- MCSourceKeys
  TargetKeys <- MCTargetKeys
  SourcePorts <- MCSourcePorts
  TargetPorts <- MCTargetPorts
  Addresses = {"10.0.0.1", "10.0.0.2", "10.0.0.3"}
  Private = {"password", "session_token", "token"}
  Str <- MCStr
  Threads = {t1, t2}
  Names = {"family", "access"}
  Line <- MCFamily
  Packs <- MCPromoted
  Similarity <- MCClose
  Failures = 1
  Reset = 2
  MaxLines = 1
  MaxTime = 3
  MaxFaults = 0
INVARIANT PromotedServes
CHECK_DEADLOCK FALSE
