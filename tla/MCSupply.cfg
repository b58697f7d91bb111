\* Two versions of a plan, two orders and three reviews of them; entries, terms,
\* prices and BOMs, each under review.
SPECIFICATION SupplySpec
CONSTANTS
  PlanNos = {"p"}
  PlanItems = {"big", "small"}
  Planned <- MCPlanned
  OverBps = 0
  UnderBps = 0
  Buyers = {b1, b2}
  b1 = b1
  b2 = b2
  FactoryUsers = {"fay"}
  MaxVersions = 2
  MaxOrders = 2
  MaxQuantity = 2
  MaxReviews = 3
  OrderLimit = 2
  Suppliers = {"own", "far", "new", "more"}
  Skus = {"k", "n"}
  Tier <- MCTier
  KnownSuppliers = {"own", "far"}
  KnownSkus = {"k"}
  Makers = {f}
  Internal = {i1, i2}
  i1 = i1
  i2 = i2
  Terms = {"slow", "fast"}
  Days = {1, 2, 3}
  Batches = {1, 2, 3, 4}
  BatchOf <- MCBatchOf
  MaxRequests = 3
  MaxPrices = 3
  MaxBoms = 2
  Me = "me"
  Evaluators = {"me", "other"}
  Quarters = {"spring", "summer"}
  QuarterOf <- MCQuarterOf
  Selections <- MCSelections
  FirstSelection <- MCFirstSelection
  Scores = {2, 5}
  Weightings <- MCWeightings
  Shipments = {"late", "early"}
  ShippedBy <- MCShippedBy
  PlannedOn <- MCPlannedOn
  Effective = {2}
  LastDay = 3
  MaxLoads = 3
  Nothing = Nothing
SYMMETRY StaffSymmetry
INVARIANTS
  PurchasesShown
  CatalogShown
  RankingShown
  OverPlanApproved
  WaitsForSomeone
  PricesDisjoint
  TermsAreApproved
  TargetsWait
PROPERTIES
  CompletePlanFixed
CHECK_DEADLOCK FALSE
