SPECIFICATION FairSpec
CONSTANTS
    Modes = {m1, m2, away}
    Unavailable = away
    None = None
    NoFile = NoFile
    Empty = Empty
    Requests = {}
    Corrupt = Corrupt
    Faults = {"crash", "command_error", "command_lost", "blind_capture", "no_daily_plan", "corrupt_file", "outage"}
    MaxRev = 2
    MaxFlight = 1
    MaxResets = 0
INVARIANTS TypeOK PendingIsRecorded
PROPERTIES OnlyResetReleases TakeoverIsNoticed
