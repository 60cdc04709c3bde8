SPECIFICATION Spec
CONSTANTS
    Client = {c1}
    NoOne = NoOne
    Symbol = {s1}
    Status = Status
    MaxTicks = 2
    MaxAlerts = 2
    MaxSubscribes = 2
    MaxUnsubscribes = 1
    MaxStalls = 0
    MaxOutages = 0
    MaxDisconnects = 1
INVARIANTS SessionInv ShowsTheLatest AlertsAreNotConflated
CHECK_DEADLOCK FALSE
