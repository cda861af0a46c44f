SPECIFICATION FairJointSpec
CONSTANTS
    None = None
    Features = {"advice", "unavailable", "loss"}
    MaxRequests = 1
    MaxRevision = 1
    MaxStamp = 1
    Retry = 1
    EndWait = 1
    LowWait = 1
    Faults = {"publish", "crash", "replan", "refusal"}
PROPERTIES PendingIsAnswered
