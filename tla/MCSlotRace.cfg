CONSTANTS
    Websites = {s1}
    Offset <- MCOffset
    NoSlot = NoSlot
    Jobs = {"crawl_website"}
    Dispatchers = {d1, d2}
    Workers = {w1, w2}
    Moments <- Morning
    Lease = 360
    Expires = 1200
    MaxRetries = 1
    NoMessage = NoMessage
SPECIFICATION Spec
SYMMETRY Symmetry
INVARIANTS
    TypeOK
    OneStartPerSlot
    TaskHasRow
PROPERTIES
    OutcomeIsFinal
    LeaseRespected
    LedgerSpec
CHECK_DEADLOCK FALSE
