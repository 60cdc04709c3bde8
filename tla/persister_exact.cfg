SPECIFICATION FairSpec
CONSTANTS
    Worker = {w1, w2}
    NoOne = NoOne
    Ghost = Ghost
    MaxId = 3
    PageSize = 3
    Row <- MCRow
    RowOf <- MCRowOf
    Malformed = {}
    MaxCrashes = 2
    MaxFaults = 1
    MaxStalls = 0
    MaxTrims = 0
PROPERTIES ImplementsLedger EveryTickSettles
