SPECIFICATION FairSpec
CONSTANTS
    SnapshotBars = 1
    LastMinute = 3
    MaxTicks = 2
    MaxQueue = 3
    MaxOutages = 1
    MaxFaults = 1
INVARIANTS BookInv HolesAreMarked RegimeIsCurrent
PROPERTIES RangeNeverShrinks HistoryIsLoaded
CHECK_DEADLOCK FALSE
