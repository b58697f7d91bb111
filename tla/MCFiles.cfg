\* Two submissions, of harmless or harmful contents.
SPECIFICATION FilesSpec
CONSTANTS
  Accounts = {"maker", "ann", "rival"}
  RolesOf <- MCRolesOf
  FactoryOf <- MCFactoryOf
  Uploader = "maker"
  EntityFactory = "factory"
  Keys = {"k1", "k2"}
  Contents = {"good", "bad"}
  Harmless = {"good"}
  MaxUploads = 2
  MaxScans = 2
  MaxDownloads = 1
  PageSize = 1
  MaxLog = 5
INVARIANTS
  HarmlessOnly
  NoGaps
CHECK_DEADLOCK FALSE
