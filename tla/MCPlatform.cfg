SPECIFICATION PlatformSpec
CONSTANTS
    SyncJobs = {"job"}
    SyncRequests = {"request"}
    SyncLinks = 2
    MaxRuns = 3
    FirstDay = 5
    LastDay = 7
    MonthEnds <- MCMonthEnds
    Services <- MCServices

    Domains = {"d1", "d2"}
    Askers = {"u1"}
    MaxWebsites = 1
    MaxCrawls = 1
    ByHand = TRUE
    NoDomain = NoDomain

    Sites <- MCSites
    CanonicalHost <- WwwExample
    CanonicalSecure = TRUE
    Permissions = {"owner", "restricted", "unknown"}
    OwnerLevels = {"owner"}
    MaxShifts = 1
    MaxDiscoveries = 2

    Hosts = {"site", "www", "cdn"}
    Origin = "site"
    Covered = {"site", "www"}
    Robots <- MCRobots
    Conventional <- MCConventional
    Maps <- MCMaps
    DefaultDelay = 1
    MaxDelay = 3
    Hints = {0, 5}
    NoHint = 2
    MaxHint = 4
    MaxSitemapFiles = 2
    MaxUrls = 2
    LastInstant = 6

    home = home
    about = about
    good = good
    text = text
    NoText = NoText
    GoodLength <- MCGoodLength
    CrawlViews <- MCCrawlViews
    SearchViews <- MCSearchViews
    Fragile <- MCFragile
    MaxAnalyses = 3

    WeeklyJobs = {"job"}
    Customers = {"customer"}
    Viewers = {"viewer"}
    Issues = {1, 2, 3, 4}
    TypeOf <- MCTypeOf
    FirstImpacts <- MCFirstImpacts
    MaxPriorities = 2
    MaxMoves = 1
    MaxReports = 2

    Explainers = {"explainer"}
    Chats = {"chat"}
    Planners = {"planner"}
    Problems = {"k1", "k2"}
    Allowance = 1
    CallCosts = {0, 2}
    MaxRounds = 2
    MaxToolCalls = 1
    MaxModelCalls = 5

    AlertJobs = {"crawl"}
    Accounts = {"a1"}
    DispatchSilence = 2
    RenotifyAfter = 1
    RepeatAfter = 2
    BroadMinimum = 2
    FleetMinimum = 1
    RunCounts <- MCRunCounts
    LastTick = 2
    MaxTroubles = 2

    p1 = p1
    p2 = p2
    o1 = o1
    o2 = o2
    People = {p1, p2}
    Organizations = {o1, o2}
    OwnersAtFirst <- MCOwners
    MaxCalls = 2
    MaxJobs = 1

    Addresses = {"ip"}
    Scans = {"s1", "s2"}
    PerIp = 1
    PerIpWindow = 2
    Global = 1
    GlobalWindow = 3
    MaxRedirects = 1
    LastSecond = 3
INVARIANTS
    PlatformTypeOK
    
    NoHole
    GatesAgree
    EvidenceIsMatched
    
    HistoryProves
    NoDoneInvented
    
    OverspendBounded
    StillTrueStillSaid
    
    

    
    
CHECK_DEADLOCK FALSE
