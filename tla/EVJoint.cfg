SPECIFICATION JointSpec
CONSTANTS
    None = None
    Features = {"advice", "window"}
    MaxRequests = 2
    MaxRevision = 2
    MaxStamp = 1
    Retry = 1
    EndWait = 1
    LowWait = 1
    Faults = {"replan", "refusal"}
INVARIANTS ConfirmedIsBound RequestIsNew PendingIsUnpowered
PROPERTIES ImplementsAcceptance
