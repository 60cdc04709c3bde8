SPECIFICATION FairSpec
CONSTANTS
    Client = {c1, c2}
    NoOne = NoOne
    Symbol = {s1}
    Status = Status
    MaxTicks = 1
    MaxAlerts = 0
    MaxSubscribes = 1
    MaxUnsubscribes = 1
    MaxStalls = 1
    MaxOutages = 1
    MaxDisconnects = 0
PROPERTY ServedUnlessAWriterSpins
CHECK_DEADLOCK FALSE
