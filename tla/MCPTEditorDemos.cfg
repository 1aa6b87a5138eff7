SPECIFICATION FairSpec
CONSTANTS
  Process = {p1, p2}
  CPU = {c1, c2}
  BootPats <- TwoPats
  Programs = {"example", "map_pt", "map_pt_manual", "uncachable", "performance", "client"}
  ClientTypes <- TwoTypes
  MaxStarts = 2
INVARIANTS
  TypeOK
  DeviceExclusive
  ChecksPass
  TypeInForce
  PatUniform
  RestoredAtExit
PROPERTIES
  ProgramsEnd
CHECK_DEADLOCK FALSE
