SPECIFICATION FairSpec
CONSTANTS
  a = a
  b = b
  d = d
  r1 = r1
  r2 = r2
  Nobody = Nobody
  Thread = {a, b, d}
  Region = {r1}
  Base <- Bases
  Length <- ThreePages
  FileCells <- Files
  Writable = {r1}
  Offset <- SecondPage
  Failures = {"kernel", "umem"}
  NoTable = {3}
  Touches <- OwnPages
  Writes = {r1}
  Unmaps = {r1}
  MallocOffset = 0
  MaxBlocks = 3
  Letters = 2
INVARIANTS
  TypeOK
  PageContents
PROPERTIES
  PagingSpec
  AccessCompletes
CHECK_DEADLOCK FALSE
