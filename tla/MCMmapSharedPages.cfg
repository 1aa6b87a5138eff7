SPECIFICATION FairSpec
CONSTANTS
  a = a
  b = b
  d = d
  r1 = r1
  r2 = r2
  Nobody = Nobody
  Thread = {a, b}
  Region = {r1}
  Base <- Bases
  Length <- TwoPages
  FileCells <- Anonymous
  Writable = {r1}
  Offset <- Start
  Failures = {}
  NoTable = {}
  Touches <- AllTouch
  Writes = {r1}
  Unmaps = {r1}
  MallocOffset = 1
  MaxBlocks = 5
  Letters = 2
INVARIANTS
  FramesPrivate
  NoLostWakeup
  OneBlockPerAccess
PROPERTIES
  AccessCompletes
CHECK_DEADLOCK FALSE
