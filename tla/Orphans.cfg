CONSTANTS
  Ids = {"request", "settings", "config", "vm"}
  GVKs = {"g1", "g2"}
  Names = {"x", "y"}
  Specs = {"s1"}
  HostEnabled = TRUE
  Blueprints <- PlainAndRevised
  MaxUid = 1
  StaleAfter = 1
  Heartbeat = 1
  Failing = {}
  Env = {"delete", "force", "unbind", "rebind", "restart", "sweepFail"}
SPECIFICATION FairSpec
INVARIANT GoneMeansClean
PROPERTIES OrphansSwept ImplementsLifecycle
