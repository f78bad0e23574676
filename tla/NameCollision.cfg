CONSTANTS
  Instances <- Homonyms
  Templates = {"agent"}
  Nobody = Nobody
SPECIFICATION Spec
PROPERTY KeepsOwnChildren
CHECK_DEADLOCK FALSE
