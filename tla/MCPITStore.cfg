CONSTANTS
    Past <- MCPast
    News <- MCNews
    Watchlist = {"B"}
    Window = 2
    Cutoffs = {0, 1}
    MaxClock = 2
    MaxNews = 2
    MaxRuns = 2
    MaxFaults = 1
SPECIFICATION Spec
INVARIANTS
    NoHindsight
    ArchiveRebuilds
    UniverseFollowsChanges
CONSTRAINT
    NotYetRecorded
CHECK_DEADLOCK FALSE
