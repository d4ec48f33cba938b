CONSTANTS
    Tickers = {1, 2}
    Rows <- MCRows
    Markets <- MCMarkets
    Sizes = {6000, 15000}
    Ticks = {"normal", "derisk"}
    TopN = 2
    MaxCycles = 2
SPECIFICATION Spec
INVARIANTS
    ExposureBounded
    NameEnteredOnce
CHECK_DEADLOCK FALSE
