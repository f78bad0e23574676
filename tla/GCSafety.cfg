CONSTANTS
  Ids = {"request", "settings", "config", "vm"}
  GVKs = {"g1", "g2"}
  Names = {"x", "y"}
  Specs = {"s1", "s2"}
  HostEnabled = TRUE
  Blueprints <- NestedOnly
  MaxUid = 2
  StaleAfter = 1
  Heartbeat = 1
  Failing <- CallPoints
  Env = {"edit", "delete", "extLoss", "late", "restart"}
SPECIFICATION Spec
INVARIANTS TypeOK GoneMeansClean PruneSparesDesired CompletePassIsExact
PROPERTY ReadyIsHonest
