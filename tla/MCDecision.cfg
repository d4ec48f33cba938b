CONSTANTS
    DocIds = {d1}
    Rounds = 2
    Rosters <- MCRosters
    JudgeSeats = {1, 2, 3}
    Convictions = {0, 4, 6, 12}
    Edges = {12, 13, 14}
    Advs = {0, 10, 20}
    Books <- MCBooks
    Prices = {0, 50, 400}
    Nav = 100000
    MaxOverrides = 2
    Candidates = 1
SPECIFICATION Spec
INVARIANTS
    TypeOK
    OrderIsEarned
    SizeWithinPolicy
    OverrideCounted
CHECK_DEADLOCK FALSE
