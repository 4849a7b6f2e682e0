\* Two submissions on one history in one process, no failures.
SPECIFICATION Spec
CONSTANTS
    None = None
    j1 = j1
    j2 = j2
    h1 = h1
    h2 = h2
    o1 = o1
    o2 = o2
    Job = {j1, j2}
    History = {h1}
    Owner = {"ann"}
    OwnerOf <- OneOwner
    Operation = {o1, o2}
    MaxPerUser = 2
    MaxTotal = 2
    Events = {"cancel", "expire", "revoke"}
    MaxEpoch = 1
    MaxFaults = 0
SYMMETRY JobsAndOperations
INVARIANTS FirstReasonDecides ContextStandsStill LeaseGuardsHistory
PROPERTIES ConclusionIsFinal
