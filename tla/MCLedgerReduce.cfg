CONSTANTS
    Tickers = {A, B}
    Refs = {r1, r2}
    Opens = {2, 3}
    Closes = {2}
    Qtys = {1, 2}
    Scale = 10
    HalfSpread = 3
    PerCycle = 2
    MaxDay = 2
    MaxRuns = 3
SPECIFICATION Spec
SYMMETRY Symmetry
INVARIANT EntryWithinFills
CHECK_DEADLOCK FALSE
