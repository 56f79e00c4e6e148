CONSTANTS
    Websites = {s1}
    Offset <- MCOffset
    NoSlot = NoSlot
    Jobs = {"crawl_website"}
    Dispatchers = {d1}
    Workers = {w1}
    Moments <- Nights
    Lease = 360
    Expires = 1200
    MaxRetries = 0
    NoMessage = NoMessage
SPECIFICATION FairSpec
PROPERTIES
    EveryRunSettles
    LateNotLost
CHECK_DEADLOCK FALSE
