\* Stocktakes, transfers, merges, shipments and returns meeting in pairs.
SPECIFICATION StockSpec
CONSTANTS
  w1 = w1
  w2 = w2
  u1 = u1
  u2 = u2
  Warehouses = {w1, w2, "w3"}
  Founded = {w1}
  Skus = {"c", "f"}
  BatchIds = {1, 2, 3, 4}
  Stocktakes = {"t1", "t2"}
  Users = {u1, u2}
  Staff = {u1, u2}
  ScopesTried = {"full_warehouse", "batch"}
  Miscounted = {"available"}
  MaxCount = 1
  Items = {1, 2, 3, 4}
  ItemOf <- MCItemOf
  Transfers = {"x1", "x2"}
  MaxTransfer = 2
  Merges = {"m1", "m2"}
  Orders = {"o1"}
  Reservations = {}
  Priorities = {0}
  Finished = "f"
  Component = "c"
  PerFinished = 1
  Allocated = 2
  FactorySite = w1
  MaxReport = 2
  OverBps = 0
  IssueBps = 0
  ConsumeBps = 0
  LossBps = 10000
  Shipments = {"s1"}
  Returns = {"y1", "y2"}
SYMMETRY UserSymmetry
INVARIANTS
  OneOpenStocktake
  RecountIsIndependent
  MergesEnd
  GoodsConserved
  PagesAnswer
  OffersHold
PROPERTIES
  FrozenStockUntouched
  ClosedWarehouseSealed
  LeavesQuarantineOnce
CHECK_DEADLOCK FALSE
