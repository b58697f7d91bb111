\* Accounts and roles, each against sessions and requests.
SPECIFICATION AccessSpec
CONSTANTS
  People = {"ann", "bob", "cal", "dan"}
  PrimaryRole <- MCPrimaryRole
  Seeded = {"ann", "bob", "cal"}
  Known = {"ann", "bob"}
  Codes = {"admin"}
  Periods = {"ahead"}
  Requests = {q1, q2}
  q1 = q1
  q2 = q2
  MaxAttempts = 2
  MaxSessions = 2
  MaxChallenges = 2
  MaxRoles = 2
  MaxReviews = 3
SYMMETRY RequestSymmetry
CONSTRAINT AccessScenes
INVARIANT
  RolesAsDecided
PROPERTY
  RevokedStaysOut
CHECK_DEADLOCK FALSE
