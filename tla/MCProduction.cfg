\* Orders against stocktakes and against each other.
SPECIFICATION ProductionSpec
CONSTANTS
  w1 = w1
  w2 = w2
  u1 = u1
  u2 = u2
  Warehouses = {w1}
  Founded = {w1}
  Skus = {"c", "f"}
  BatchIds = {1, 2, 3}
  Stocktakes = {"t1"}
  Users = {u1, u2}
  Staff = {u1, u2}
  ScopesTried = {"sku_sample"}
  Miscounted = {"locked"}
  MaxCount = 1
  Items = {2}
  ItemOf <- MCItemOf
  Transfers = {}
  MaxTransfer = 0
  Merges = {}
  Orders = {"o1", "o2"}
  Reservations = {1, 2}
  Priorities = {0, 1}
  Finished = "f"
  Component = "c"
  PerFinished = 1
  Allocated = 2
  FactorySite = w1
  MaxReport = 2
  OverBps = 0
  IssueBps = 0
  ConsumeBps = 0
  LossBps = 10000
  Shipments = {}
  Returns = {}
SYMMETRY UserSymmetry
INVARIANTS
  TypeOK
  SnapshotCurrent
  LedgerBalances
  LockedIsReserved
CHECK_DEADLOCK FALSE
