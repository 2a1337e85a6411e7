SPECIFICATION Spec
CONSTANTS
  Batch = 2
  Capacity = 2
  MaxStep = 2
  Shell = {"step"}
INVARIANT ResetIsKept
INVARIANT StoppedIsStill
 
PROPERTY Responds
CHECK_DEADLOCK FALSE
