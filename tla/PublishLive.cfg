SPECIFICATION FairSpec
CONSTANTS
  None = None
  Blueprints = {"b1"}
  Exports = {"e1"}
  Gens = {"m1", "m2"}
  Graphs = {1, 3}
  Invalid = {}
  Rejected = {}
  Failing = {"remfin", "export"}
  Env = {"edit", "delete", "crash", "bind"}
  ExportOf <- ExportNamed
  Compiled <- Graph
  InstanceOf <- OwnType
  Ids = {"request", "config", "lookup", "write", "peers"}
  GVKs = {"own", "core", "foreign"}
  CoreGVKs = {"core"}
  Names = {"x"}
  Specs = {"s"}
  HostEnabled = FALSE

PROPERTIES WithdrawalCompletes ServedAgain AuthorisedAgain
