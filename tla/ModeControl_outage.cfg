SPECIFICATION FairSpec
CONSTANTS
    Modes = {m1, away}
    Unavailable = away
    None = None
    NoFile = NoFile
    Empty = Empty
    Requests = {}
    Corrupt = Corrupt
    Faults = {"outage"}
    MaxRev = 2
    MaxFlight = 1
    MaxResets = 0
PROPERTIES OverridesAreManual
