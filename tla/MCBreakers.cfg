CONSTANTS
    Navs = {0, 176, 182, 185, 188, 196, 200, 208}
    StartNav = 200
    PodHalve = 50
    FundDerisk = 60
    PodHalt = 75
    FundHalt = 100
    Whole = 1000
    CooldownSessions = 3
SPECIFICATION Spec
INVARIANTS
    TypeOK
    StateFitsDrawdown
    CleanSessionsSuffice
PROPERTIES
    HaltLeftByHumanOnly
    HighWaterMarkNeverFalls
    NormalTakesCleanSessions
