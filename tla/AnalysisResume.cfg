\* The promise that a run can be resumed once the outage is over.
SPECIFICATION Spec
CONSTANTS
  None = None
  Attempt = {a1, a2}
  Who = {w1}
  Tasks = 2
  MaxFaults = 1
INVARIANT OutageIsOver
CHECK_DEADLOCK FALSE
