SPECIFICATION FairSpec
CONSTANTS
    Replica = {r1, r2}
    NoOne = NoOne
    Ghost = Ghost
    TtlMs = 7
    RenewMs = 2
    Delays = {1, 3, 6}
    Grace = 1
    MaxCrashes = 2
INVARIANT MutualExclusion
PROPERTIES OnlyTheOwnerTouchesTheKey DeadLeaderIsReplaced OverlapEnds
