CONSTANTS
    Pages <- MCPages
    Home = "home"
    Sites <- MCSites
    BatchSize = 2
    NoPage = NoPage
SPECIFICATION FairSpec
INVARIANTS
    TypeOK
    EndsWhole
    WithinCap
    ThreeAttempts
    NothingHeld
PROPERTIES
    TraversalSpec
    Terminates
CHECK_DEADLOCK FALSE
