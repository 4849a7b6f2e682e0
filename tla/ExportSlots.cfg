\* The promise that a failure gives the slot back, when the font probe may fail too.
SPECIFICATION Spec
CONSTANTS
  None = None
  Owner = {o1}
  Request = {r1, r2}
  Sender <- OneAccount
  MaxTotal = 1
  MaxLives = 2
  Faults = {"assets", "probe", "spawn", "worker", "removal", "crash"}
INVARIANT FailureFreesSlot
CHECK_DEADLOCK FALSE
