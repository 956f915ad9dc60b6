SPECIFICATION FairSpec
CONSTANTS
    Requests = {"r1", "r2"}
    Menu <- TwoMenus
    Ring <- Keys
    Headers <- AllHeaders
    Origins <- SomeOrigins
    Cors <- OneOrigin
    Accepts <- SomeAccepts
    Target = 1
    Limits = {1, 2}
    Burst = 1
    MaxDebt = 2
    ProfileTimeout = 2
    BridgeTimeout = 2
    QueryTimeout = 1
    MaxAttempts = 3
    BaseDelay = 2
    MaxDelay = 2
    Width = 3
INVARIANTS SlotsAccountedFor LimiterConforms DataNeedsAuthority StatusIsHonest
PROPERTIES RequestEnds
