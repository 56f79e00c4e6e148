CONSTANTS
    Websites <- MCWebsites
    Offset <- MCOffset
    NoSlot = NoSlot
    Moments <- MCMoments
SPECIFICATION Spec
INVARIANTS
    DueIsLatest
    NextFollowsDue
    NightInOrder
CHECK_DEADLOCK FALSE
