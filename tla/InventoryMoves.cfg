SPECIFICATION FairSpec
CONSTANTS
  s1 = s1
  s2 = s2
  early = early
  late = late
  loose1 = loose1
  loose2 = loose2
  NoOne = NoOne
  Worker = {w1, w2}
  Shelf = {s1, s2}
  Row = {early, loose1, loose2}
  ShelfOf <- TwoShelves
  ExpiryOf <- TwoShelvesExpiry
  Loose = {loose1, loose2}
  Order = {}
  Basket <- CrossBasket
  Delivery = {}
  Kind = {"sale", "adjust", "transfer"}
  MaxOnHand = 1
  MaxStock = 1
  LastDay = 1
INVARIANT IInv
PROPERTIES BookSpec EveryRequestEnds
