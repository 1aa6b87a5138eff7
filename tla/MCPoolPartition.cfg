SPECIFICATION FairSpec
CONSTANTS
  a = a
  b = b
  d = d
  p1 = p1
  p2 = p2
  p3 = p3
  p4 = p4
  Null = Null
  Junk = Junk
  Thread = {a, b, d}
  Allocators = {a, b}
  Passes <- OwnOrD
  Page = {p1, p2, p3, p4}
  NumPools = 2
  PoolOf <- EvenPools
  HomeOf <- OwnHome
  Quota = 1
  Modulus = 8
  Spurious = FALSE
INVARIANTS
  NoOverlappingPops
  CountersAgree
  NoAbort
  DtorFreesEverything
PROPERTIES
  AllocateReturns
