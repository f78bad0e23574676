CONSTANTS
  Ids = {"request", "settings", "config", "vm"}
  GVKs = {"g1", "g2"}
  Names = {"x", "y"}
  Specs = {"s1", "s2"}
  HostEnabled = TRUE
  Blueprints <- PlainOnly
  MaxUid = 1
  StaleAfter = 2
  Heartbeat = 1
  Failing = {"apply"}
  Env = {}
SPECIFICATION Spec
INVARIANT SweepSparesLive
