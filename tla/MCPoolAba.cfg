SPECIFICATION Spec
CONSTANTS
  a = a
  b = b
  d = d
  p1 = p1
  p2 = p2
  p3 = p3
  p4 = p4
  Null = Null
  Junk = Junk
  Thread = {a, b}
  Allocators = {a, b}
  Passes <- OwnPasses
  Page = {p1, p2, p3}
  NumPools = 1
  PoolOf <- OnePool
  HomeOf <- AllHome0
  Quota = 2
  Modulus = 8
  Spurious = TRUE
INVARIANT
  WalkCountsAllPages
