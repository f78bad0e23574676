CONSTANTS
  Ids = {"request"}
  GVKs = {"g"}
  Names = {x, y}
  Specs = {"s"}
  HostEnabled = FALSE
  Blueprints <- Revisions
  MaxUid = 1
  StaleAfter = 3
  Heartbeat = 1
  Failing = {}
  Env = {"delete", "restart", "crash"}
  Export = e
  Gens = {m1, m2}
  None = None
  Resync = 3
SPECIFICATION CPSpec
SYMMETRY Alike
INVARIANTS PassHasItsManager OffsiteIsRecorded OnlyLateStrays
PROPERTY SweepNeedsOutage
