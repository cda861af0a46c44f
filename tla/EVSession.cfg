SPECIFICATION AloneSpec
CONSTANTS
    None = None
    Features = {"window", "meter", "hand", "recognition", "plan", "direct", "vehicle", "delay"}
    MaxRequests = 1
    MaxRevision = 1
    MaxStamp = 1
    Retry = 1
    EndWait = 1
    LowWait = 1
INVARIANTS TypeOK
PROPERTIES ManualOffStands OwnedRunEndsOff
