CONSTANTS
    Websites = {s1}
    Offset <- MCOffset
    NoSlot = NoSlot
    Jobs = {"crawl_website"}
    Dispatchers = {d1}
    Workers = {w1}
    Moments <- Morning
    Lease = 360
    Expires = 1200
    MaxRetries = 2
    NoMessage = NoMessage
SPECIFICATION Spec
INVARIANTS
    RetryRunsAgain
CHECK_DEADLOCK FALSE
