SPECIFICATION FairSpec
CONSTANTS
    None = None
    Sources = {cv}
    Ids = {r1, r2}
    Scheduled = {r1}
    Modes = {"off", "heat"}
    Faults = {"restart", "rejected", "uncertain", "store_error", "unavailable"}
INVARIANTS SentOnce OneOngoing
PROPERTIES ScheduleRespectsHolds EveryCommandEnds
