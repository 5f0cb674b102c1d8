SPECIFICATION Spec
CONSTANTS
  p1 = p1
  p2 = p2
  k1 = k1
  k2 = k2
  r1 = r1
  r2 = r2
  r3 = r3
  Procs = {p1}
  Keys = {k1}
  Dirs = {"a", "b"}
  Dir <- MCDir
  Days = {1}
  Recs = {r1, r2, r3}
  LineLen <- MCLineLen
  MaxBytes = 3
  BufBytes = 1
  Compress = TRUE
  MaxCopies = 1
  MaxCrashes = 1
  MaxFaults = 0
  NoSeg = NoSeg
  NoOp = NoOp
INVARIANT RawIsTruth
CHECK_DEADLOCK FALSE
