SPECIFICATION Spec
CONSTANTS
    Modes = {m1, m2, away}
    Unavailable = away
    None = None
    NoFile = NoFile
    Empty = Empty
    Requests = {r1, r2}
    Corrupt = Corrupt
    Faults = {"crash", "command_error"}
    MaxRev = 2
    MaxFlight = 1
    MaxResets = 2
SYMMETRY Symmetry
PROPERTIES OnlyResetReleases BoundaryRespectsOverride ImplementsAuthority
