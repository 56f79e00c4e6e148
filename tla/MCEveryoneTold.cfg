SPECIFICATION WeeklySpec
CONSTANTS
    WeeklyJobs = {"job"}
    Customers = {"customer"}
    Viewers = {"viewer"}
    Issues = {1, 2}
    TypeOf <- MCTypeOf
    FirstImpacts <- MCFirstImpacts
    MaxPriorities = 1
    MaxMoves = 0
    MaxReports = 2
INVARIANTS
    EveryoneTold
CHECK_DEADLOCK FALSE
