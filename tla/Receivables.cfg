SPECIFICATION FairSpec
CONSTANTS
  c1 = c1
  c2 = c2
  b1 = b1
  b2 = b2
  NoOne = NoOne
  WalkIn = WalkIn
  Worker = {w1, w2}
  Branch = {b1, b2}
  Customer = {c1, c2}
  Limit <- Limits
  Request <- Mixed
  MaxBills = 3
  MaxOrders = 1
  MaxPays = 2
INVARIANTS TypeOK PaymentsReachBills BooksAndScreensAgree
PROPERTIES KhataWithinLimit AccountSpec EveryRequestEnds
CHECK_DEADLOCK FALSE
