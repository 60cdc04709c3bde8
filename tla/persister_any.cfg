SPECIFICATION Spec
CONSTANTS
    Worker = {w1, w2}
    NoOne = NoOne
    Ghost = Ghost
    MaxId = 3
    PageSize = 2
    Row <- OneRow
    RowOf <- OneRowOf
    Malformed <- FirstIsMalformed
    MaxCrashes = 0
    MaxFaults = 1
    MaxStalls = 1
    MaxTrims = 1
SYMMETRY WorkerSymmetry
INVARIANTS AckedIsCovered
PROPERTIES WatermarkNeverRetreats
