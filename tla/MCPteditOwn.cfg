SPECIFICATION Spec
CONSTANTS
  a = a
  b = b
  self = self
  v1 = v1
  v2 = v2
  v3 = v3
  v4 = v4
  f1 = f1
  f2 = f2
  Null = Null
  Nobody = Nobody
  Mm = {self}
  Self = self
  Va = {v1, v2, v3, v4}
  Path <- Paths
  Table <- SelfTables
  Frame = {f1, f2}
  Root <- Roots
  Boot <- BootTables
  Areas <- SelfAreas
  Thread = {a, b}
  Edits <- OwnEdits
  Unmaps <- SelfUnmaps
  Fresh = {f1}
INVARIANTS
  TypeOK
  PointersCurrent
  WalksAgree
  MemmapAgrees
  TlbCoherent
  EditInForce
PROPERTIES
  OnlyEditsChangeEntries
