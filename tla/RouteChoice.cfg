\* One assignment with two offers: answers on the phone and the dashboard, replays, a
\* recovery, the day's end, restarts and failed writes.
CONSTANTS
    Assignments <- OneDay
    Tokens = {1, 2}
    MaxPlan = 3
    MaxRecoveries = 1
    Alternatives = {TRUE}
    WebActions = {"automatic", "release"}
    PhoneActions = {"pv"}
    Together = FALSE
    Faults = {"crash", "save_error"}
    None = None
SPECIFICATION FairSpec
INVARIANTS
    TypeOK
    ConsentIsOwned
PROPERTIES
    ImplementsConsent
    ConsentIsAnswered
