SPECIFICATION Spec
CONSTANTS
  a = a
  b = b
  d = d
  r1 = r1
  r2 = r2
  Nobody = Nobody
  Thread = {a, b}
  Region = {r1, r2}
  Base <- Bases
  Length <- OnePage
  FileCells <- Anonymous
  Writable = {r1, r2}
  Offset <- Start
  Failures = {}
  NoTable = {}
  Touches <- OwnRegions
  Writes = {}
  Unmaps = {}
  MallocOffset = 0
  MaxBlocks = 4
  Letters = 2
INVARIANT
  HandledSeparately
