SPECIFICATION FairSpec
CONSTANTS
    None = None
    Sources = {plan1, plan2}
    Outcomes = {"timed_out"}
    MaxWorld = 3
    Faults = {"crash"}
INVARIANTS AdmissionStands NoChangeForgotten
PROPERTIES EventuallyAnswered FailureDoesNotLoopAfterSuccess
