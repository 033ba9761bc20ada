SPECIFICATION Spec
CONSTANTS
  s1 = s1
  s2 = s2
  early = early
  late = late
  loose1 = loose1
  loose2 = loose2
  NoOne = NoOne
  Worker = {w1, w2}
  Shelf = {s1}
  Row = {early, late}
  ShelfOf <- OneShelf
  ExpiryOf <- OneShelfExpiry
  Loose = {}
  Order = {o1, o2}
  Basket <- OneShelfBasket
  Delivery <- OneShelfDelivery
  Kind = {"sale", "receipt", "order"}
  MaxOnHand = 2
  MaxStock = 3
  LastDay = 0
SYMMETRY Symmetry
INVARIANTS BalanceIsLedger NeverOversold ReservationsHold
PROPERTY BookSpec
