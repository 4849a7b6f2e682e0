\* Two histories of one account that may run one execution at a time; one failure
\* anywhere, stops and shutdown.
SPECIFICATION Spec
CONSTANTS
    None = None
    j1 = j1
    j2 = j2
    h1 = h1
    h2 = h2
    o1 = o1
    o2 = o2
    Job = {j1, j2}
    History = {h1, h2}
    Owner = {"ann"}
    OwnerOf <- TwoHistories
    Operation = {o1, o2}
    MaxPerUser = 1
    MaxTotal = 2
    Events = {"cancel", "close"}
    MaxEpoch = 1
    MaxFaults = 1
SYMMETRY JobsAndOperations
INVARIANTS ObserverSeesPersisted CapacityAccounted OneExecutionPerOperation
