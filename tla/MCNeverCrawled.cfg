SPECIFICATION WebsitesSpec
CONSTANTS
    Domains = {"d1"}
    Askers = {"u1"}
    MaxWebsites = 1
    MaxCrawls = 2
    ByHand = FALSE
    NoDomain = NoDomain
PROPERTIES
    AllowedIsCrawled
CHECK_DEADLOCK FALSE
