CONSTANTS
    Costs = {2, 13}
    DayCap = 30
    WeekCap = 40
    ShadowBudget = 4
    CandidateEnvelope = 9
    ShadowEnvelope = 2
    Candidates = 2
    Days = {1, 2}
    MaxRuns = 2
SPECIFICATION Spec
PROPERTIES
    NothingPaidOnceStopped
CHECK_DEADLOCK FALSE
