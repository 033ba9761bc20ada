SPECIFICATION CounterSpec
CONSTANTS
  b1 = b1
  t1 = t1
  t2 = t2
  NoKey = {k1, k2}
  NoOne = NoOne
  Worker = {w1, w2}
  Series = {b1}
  Code = {"", "east"}
  CodeOf <- OneCode
  Key = {k1, k2}
  Price = {1, 2}
  MaxQty = 1
  MaxBills = 0
  Request = {}
  Till = {t1}
  BranchOf <- AtBranch
  Batch = {o1, o2, o3}
  LastDay = 2
  NoExpiry = 9
  MaxOffer = 2
  Call <- Calls
  Unit = 1000
  Percent = 100
  Paisa = 100
SYMMETRY Symmetry
INVARIANTS NoBillForgotten ClearedIsBilled EarliestFirst NothingExpired AgreesWithDefinition SplitsLoseNothing CounterFiguresRight
