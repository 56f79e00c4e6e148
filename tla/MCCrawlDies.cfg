CONSTANTS
    Pages <- MCPages
    Home = "home"
    Sites <- MCSites
    BatchSize = 2
    NoPage = NoPage
SPECIFICATION FairSpec
PROPERTIES
    LeaseRecovered
CHECK_DEADLOCK FALSE
