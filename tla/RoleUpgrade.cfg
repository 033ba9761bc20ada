SPECIFICATION AccessSpec
CONSTANTS
  Seeded = Seeded
  Keep = Keep
  Blank = Blank
  Handler = {h1, h2}
  User = {u1, u2}
  Owner = {u1}
  u1 = u1
  u2 = u2
  Request <- Updating
  HeldFirst <- AtFirst
  Role = {"counter_sales", "store_inventory"}
  MaxFailedLogins = 2
  MaxSessions = 1
  MaxTokens = 3
  MaxUserVersion = 2
  Desk = {d1, d2}
  Key <- Keys
  LookedUp <- Customers
  Wanted <- Ordered
  CustomerKey <- Customers
  CodeFor <- Codes
  InCode <- Inside
  Digits = 2
  Typed <- Spoken
  Field = {"name", "phone"}
  Given <- Fields
  MaxRecords = 2
  MaxEdits = 1
  Org = {"o1"}
  Code = {"owner", "billing_operator", "inventory_manager", "auditor", "counter_sales", "store_inventory"}
  Catalogue <- Everything
INVARIANTS NobodyGains
CHECK_DEADLOCK FALSE
