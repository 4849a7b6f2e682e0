\* The promise that a snapshot recovers every outcome.
SPECIFICATION FairSpec
CONSTANTS
    None = None
    Page = {p1}
    Conn = {c1}
    TextField = {}
    ListField = {}
    MaxItems = 1
    MaxStage = 0
    Total = 0
    MaxEvents = 1
    MaxBytes = 4
    Overhead = 1
    MaxDelta = 2
    MaxDraft = 4
    MaxSubscribers = 2
    MaxText = 1
    MaxSequence = 2
    MaxReset = 1
    Outages = 1
    Happens = {"outage", "restart"}
    Outcome = {"succeeded"}
PROPERTY OutcomeReachesEveryPage
