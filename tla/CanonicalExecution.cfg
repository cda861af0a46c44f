SPECIFICATION Spec
CONSTANTS
    None = None
    Mapped = {"DISCHARGE_AT_POWER", "BALANCE_BIDIRECTIONAL", "STANDBY"}
    IdleConfirm = 1
    IdleGap = 1
    MaxNow = 2
    Captures <- AllCaptures
    Faults = {"crash", "save_error", "command_raises", "command_fails", "command_lost", "no_daily_plan"}
INVARIANTS TypeOK AwaitedIsComing EvIsolated
PROPERTIES IdleReleaseAfterQuiet
