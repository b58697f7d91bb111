\* Four calls over two connections, one of which may be an orphan in MySQL.
SPECIFICATION FairSpec
CONSTANTS
  Calls = {"t1", "t2", "e", "p"}
  Kind <- MCKind
  Conns = {1, 2}
  PoolSize = 2
  NoCall = "nobody"
  MaxFaults = 1
INVARIANT
  CleanHandover
PROPERTIES
  KeepsOutcome
  PoolRecovers
CHECK_DEADLOCK FALSE
