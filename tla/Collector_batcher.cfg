SPECIFICATION MCSpec
CONSTANTS
  l1 = l1
  l2 = l2
  s1 = s1
  s2 = s2
  loop = loop
  Loop = loop
  Listeners = {l1}
  Sources = {s1, s2}
  ReaderOf <- MCShared
  MaxBatch = 2
  Attempts = 2
  MaxLines <- MCMaxLines
  MaxFaults = 2
  MaxCrashes = 1
  MaxWritten = 4
  MaxReplaced = 2
  Messages <- MCMessages
  MaxMessages = 3
INVARIANT TypeOK
INVARIANT NoLineVanishes
INVARIANT StoredOnce
INVARIANT FramesExact
INVARIANT TailFollows
PROPERTY EveryLineLeaves
CHECK_DEADLOCK FALSE
