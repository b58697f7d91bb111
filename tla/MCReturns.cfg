\* The page of returns, while a disposition is reviewed.
SPECIFICATION Spec
CONSTANTS
  w1 = w1
  w2 = w2
  u1 = u1
  u2 = u2
  Warehouses = {w1}
  Founded = {w1}
  Skus = {"c", "f"}
  BatchIds = {1, 2}
  Stocktakes = {}
  Users = {u1, u2}
  Staff = {u1, u2}
  ScopesTried = {"full_warehouse", "batch"}
  Miscounted = {"available"}
  MaxCount = 1
  Items = {4}
  ItemOf <- MCItemOf
  Transfers = {}
  MaxTransfer = 0
  Merges = {}
  Orders = {"o1"}
  Reservations = {}
  Priorities = {0}
  Finished = "f"
  Component = "c"
  PerFinished = 1
  Allocated = 2
  FactorySite = w1
  MaxReport = 2
  OverBps = 0
  IssueBps = 0
  ConsumeBps = 0
  LossBps = 10000
  Shipments = {"s1"}
  Returns = {"y1"}
SYMMETRY UserSymmetry
INVARIANT ReturnsListed
CHECK_DEADLOCK FALSE
