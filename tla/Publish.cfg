SPECIFICATION Spec
CONSTANTS
  None = None
  Blueprints = {"b1"}
  Exports = {"e1"}
  Gens = {m1, m2}
  Graphs = {1, 2, 3, 4, 5}
  Invalid = {2}
  Rejected = {5}
  Failing <- CallPoints
  Env = {"edit", "touch", "delete", "crash", "restart", "bind"}
  ExportOf <- ExportNamed
  Compiled <- Graph
  InstanceOf <- OwnType
  Ids = {"request", "config", "lookup", "write", "peers"}
  GVKs = {"own", "core", "foreign"}
  CoreGVKs = {"core"}
  Names = {"x"}
  Specs = {"s"}
  HostEnabled = FALSE
SYMMETRY Alike
INVARIANTS TypeOK WithdrawnMeansClean SettledServesSpec StartFindsBlueprint ExportKeepsSchema EngineIsAuthorised ClaimsFollowGraph NoLostManager EntryIsCurrent
PROPERTY ResyncKeepsManager
