\* A rejected count can never be submitted again.
SPECIFICATION Spec
CONSTANTS
  w1 = w1
  w2 = w2
  u1 = u1
  u2 = u2
  Warehouses = {w1}
  Founded = {w1}
  Skus = {"c"}
  BatchIds = {1, 2}
  Stocktakes = {t1, t2}
  Users = {u1, u2}
  Staff = {u1, u2}
  ScopesTried = {"full_warehouse", "batch"}
  Miscounted = {"available"}
  MaxCount = 1
  Items = {1}
  ItemOf <- MCItemOf
  Transfers = {}
  MaxTransfer = 0
  Merges = {}
  Orders = {}
  Reservations = {1}
  Priorities = {0}
  Finished = "c"
  Component = "c"
  PerFinished = 1
  Allocated = 0
  FactorySite = w1
  MaxReport = 1
  OverBps = 0
  IssueBps = 0
  ConsumeBps = 0
  LossBps = 0
  Shipments = {}
  Returns = {}
SYMMETRY UserSymmetry
INVARIANT
  RejectedCountIsRevisable
CHECK_DEADLOCK FALSE
