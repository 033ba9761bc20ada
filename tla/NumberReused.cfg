SPECIFICATION Spec
CONSTANTS
  b1 = b1
  b2 = b2
  b3 = b3
  k1 = k1
  k2 = k2
  NoKey = NoKey
  NoOne = NoOne
  Worker = {w1, w2}
  Series = {b1, b2, b3}
  Code = {"", "1", "2", "north store", "west"}
  CodeOf <- LongCodes
  Key = {k1, k2}
  Price = {1, 2}
  MaxQty = 2
  MaxBills = 2
  Request <- Mixed
INVARIANT FreshNumber
