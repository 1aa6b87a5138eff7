SPECIFICATION FairSpec
CONSTANTS
  a = a
  b = b
  p1 = p1
  p2 = p2
  Thread = {a, b}
  Page = {p1, p2}
  Ops = 2
  MaxRuns = 2
  Failures = {"state", "open", "write", "map", "tags"}
  OldFiles = {"absent", "empty", "own", "old"}
  OldWord <- OtherBits
  OldSecond <- Zeros
INVARIANTS
  FixedByOne
  LockedIffFixed
  FileLongEnough
PROPERTIES
  LatchSpec
  Finishes
