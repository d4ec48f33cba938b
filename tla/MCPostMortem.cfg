CONSTANTS
    Trades = {1, 2, 3}
    DecidedFamily <- MCDecidedFamily
    Families <- MCFamilies
    Seats <- MCSeats
    MaxCalls = 4
    MaxKills = 1
SPECIFICATION PostSpec
INVARIANTS
    LessonsHaveTheirEpisode
PROPERTIES
    QueueLeftByCapture
CHECK_DEADLOCK FALSE
