CONSTANTS
    Pages <- MCPages
    Home = "home"
    Sites <- MCSites
    BatchSize = 2
    NoPage = NoPage
SPECIFICATION Spec
INVARIANTS
    CapRecorded
CHECK_DEADLOCK FALSE
