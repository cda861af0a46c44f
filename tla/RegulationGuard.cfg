SPECIFICATION FairSpec
CONSTANTS
    None = None
    Candidates = {"c1", "c2"}
    Fresh = 1
    Transfer = 1
    Loss = 4
    Grace = 4
    Mismatch = 5
    Stable = 2
    Trial = 3
    Confirm = 2
    Faults = {"restart", "disk", "corrupt", "publish"}
INVARIANTS TypeOK ComparesTransmitted ServesUntilLatched ReliesOnProven
PROPERTIES WrongCorrectionStands LossEnds
