SPECIFICATION GoodsSpec
CONSTANTS
  o1 = o1
  i1 = i1
  i2 = i2
  b1 = b1
  b2 = b2
  j1 = j1
  j2 = j2
  NoOne = NoOne
  NoOrder = NoOrder
  NoItem = NoItem
  Nobody = Nobody
  NoSerial = NoSerial
  Clerk = {k1, k2}
  Branch = {b1, b2}
  Order = {o1}
  Item = {i1, i2}
  OrderOf <- Parent
  Ordered <- OrderedOf
  Row = {"p1/n1", "p1/n2", "p2"}
  Batched = {"p1/n1", "p1/n2"}
  SupplierBill = {s1}
  Receipt <- Arriving
  MaxReceipts = 3
  Mechanic = {m1, m2}
  Job = {j1, j2}
  Warranty <- Warranties
  Day = {1, 2}
  Part = {"p1"}
  Price <- PriceOf
  Opening <- OpeningOf
  Task <- Doing
  MaxUsed = 2
  Unheld = Unheld
  Worker = {w1, w2, w3}
  RowId = {r1, r2}
  MaxQty = 2
  MaxStock = 3
  Stocked = {}
  MaxVersion = 3
SYMMETRY Interchangeable
INVARIANTS GoodsTypeOK OrdersAreReceipts CreatedOnce RowsAreLedger JobsAddUp
PROPERTY ClosedOnlyCompleted
CHECK_DEADLOCK FALSE
