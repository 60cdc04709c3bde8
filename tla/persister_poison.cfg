SPECIFICATION FairSpec
CONSTANTS
    Worker = {w1, w2}
    NoOne = NoOne
    Ghost = Ghost
    MaxId = 1
    PageSize = 1
    Row <- OneRow
    RowOf <- OneRowOf
    Malformed <- FirstIsMalformed
    MaxCrashes = 1
    MaxFaults = 0
    MaxStalls = 0
    MaxTrims = 0
PROPERTIES DrainEnds
