SPECIFICATION Spec
CONSTANTS
  Flag = 1048576
  None = None
  MaxActive = 1
  MaxConnections = 2
  Principals = {p}
  Addresses = {a}
  Native = TRUE
  MayFail = TRUE
  MaxArrivals = 2
  MaxReplacements = 1
INVARIANTS
  StampedByItsPolicy ActiveExact OneReceiptEach DecidedResultKept HealthyMeansJournalled
PROPERTIES
  OwnEventsOnly
CHECK_DEADLOCK FALSE
