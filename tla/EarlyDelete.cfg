SPECIFICATION Spec
CONSTANTS
  None = None
  Blueprints = {"b1"}
  Exports = {"e1"}
  Gens = {m1, m2}
  Graphs = {1}
  Invalid = {}
  Rejected = {}
  Failing = {}
  Env = {"delete", "early"}
  ExportOf <- ExportNamed
  Compiled <- Graph
  InstanceOf <- OwnType
  Ids = {"request", "config", "lookup", "write", "peers"}
  GVKs = {"own", "core", "foreign"}
  CoreGVKs = {"core"}
  Names = {"x"}
  Specs = {"s"}
  HostEnabled = FALSE
SYMMETRY Alike
INVARIANT WithdrawnMeansClean
