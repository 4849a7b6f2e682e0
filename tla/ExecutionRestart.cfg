\* One execution under crashes, lost guards, deletion, stops and two failures anywhere;
\* threads are scheduled fairly and a dead service is started again.
SPECIFICATION FairSpec
CONSTANTS
    None = None
    j1 = j1
    j2 = j2
    h1 = h1
    h2 = h2
    o1 = o1
    o2 = o2
    Job = {j1}
    History = {h1}
    Owner = {"ann"}
    OwnerOf <- OneOwner
    Operation = {o1}
    MaxPerUser = 2
    MaxTotal = 2
    Events = {"cancel", "expire", "revoke", "delete", "crash", "guard"}
    MaxEpoch = 2
    MaxFaults = 2
INVARIANT RowsAgree
PROPERTIES ContractSpec LeaseReturned StopConcludes
