SPECIFICATION Spec
CONSTANTS
  Batch = 1
  Capacity = 1
  MaxStep = 1
  Shell = {"quit", "stop", "cont", "step", "next", "reset", "bp"}
PROPERTY Returns
CHECK_DEADLOCK FALSE
