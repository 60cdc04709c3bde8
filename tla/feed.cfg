SPECIFICATION FairSpec
CONSTANTS
    Me = Me
    Other = Other
    NoOne = NoOne
    FailThreshold = 2
    ResetAfter = 2
    BackoffCap = 2
    MaxExponent = 2
    MinHealthy = 2
    StalenessTimeout = 1
    ConnectTime = 1
    CloseTime = 1
    StatusTtl = 2
    MaxFaults = 1
    MaxDeposals = 1
INVARIANTS FeedInv StaleFollowsTheSession
PROPERTIES NoHammering KeepsTrying StatusIsHealed
