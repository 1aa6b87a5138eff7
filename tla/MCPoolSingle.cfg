SPECIFICATION Spec
CONSTANTS
  a = a
  b = b
  d = d
  p1 = p1
  p2 = p2
  p3 = p3
  p4 = p4
  Null = Null
  Junk = Junk
  Thread = {a, b, d}
  Allocators = {a}
  Passes <- OnePasses
  Page = {p1, p2, p3}
  NumPools = 2
  PoolOf <- TwoOnePools
  HomeOf <- AllHome0
  Quota = 3
  Modulus = 4
  Spurious = TRUE
INVARIANTS
  TypeOK
  NoDoubleAllocation
  FreeListsExact
PROPERTIES
  AtomicPool
