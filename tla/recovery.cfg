SPECIFICATION Spec
CONSTANTS
    Replicas = {r1}
    Manual = {op}
    Closed = {2}
    DayLen = 4
    DaysPerRequest = 1
    Lookback = 5
    Horizon = 1
    Width = 2
    EndOffset = 1
    MaxRequests = 2
    Settle = 2
    AuthBackoff = 4
    RateBackoff = 1
    CacheBars = 4
    PolicyLookback = 2
    HourMs = 1
    DayMs = 2
    PerHour = 3
    PerDay = 4
    ReservePerHour = 1
    ReservePerDay = 1
    RetryAfter = {0, 2}
    Since = {0}
    Until = {3}
    IncludeSettled = {TRUE, FALSE}
    Gaps = {1, 3}
    Slow = {4}
    FirstNow = 5
    MaxNow = 7
    MaxRuns = 2
    LiveAt = {6}
    MaxFaults = 1
    RunTime = 1
    LockLossAt = {"finish"}
INVARIANTS BarsInv OneRunAtATime PlanIsExact
PROPERTIES StoredBarsStay RepairedByFinish AsksApart LeavesTheReserve
CHECK_DEADLOCK FALSE
