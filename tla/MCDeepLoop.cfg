CONSTANTS
    Proposals <- MCProposals
    NoProposal <- MCNoProposal
    Turns = 2
    MaxLife = 2
SPECIFICATION DeepSpec
INVARIANTS
    RepeatsAreKills
    DecisionIsLastRecorded
CHECK_DEADLOCK FALSE
