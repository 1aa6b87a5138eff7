SPECIFICATION Spec
CONSTANTS
  a = a
  b = b
  d = d
  r1 = r1
  r2 = r2
  Nobody = Nobody
  Thread = {a, b}
  Region = {r1}
  Base <- Bases
  Length <- OnePage
  FileCells <- Anonymous
  Writable = {r1}
  Offset <- Start
  Failures = {}
  NoTable = {}
  Touches <- AllTouch
  Writes = {r1}
  Unmaps = {}
  MallocOffset = 0
  MaxBlocks = 4
  Letters = 2
PROPERTY
  StableMapping
