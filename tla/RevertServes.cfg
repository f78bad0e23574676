SPECIFICATION Spec
CONSTANTS
  None = None
  Blueprints = {"b1"}
  Exports = {"e1"}
  Gens = {m1, m2, m3}
  Graphs = {1, 2}
  Invalid = {}
  Rejected = {}
  Failing = {}
  Env = {"edit", "revert"}
  ExportOf <- ExportNamed
  Compiled <- Graph
  InstanceOf <- OwnType
  Ids = {"request", "config", "lookup", "write", "peers"}
  GVKs = {"own", "core", "foreign"}
  CoreGVKs = {"core"}
  Names = {"x"}
  Specs = {"s"}
  HostEnabled = FALSE
SYMMETRY Alike
INVARIANT SettledServesSpec
