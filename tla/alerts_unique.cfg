SPECIFICATION FairSpec
CONSTANTS
    Worker = {w1, w2}
    NoOne = NoOne
    MaxId = 3
    Key <- ReemittedKey
    KeyOf <- ReemittedKeyOf
    TsOf <- ReemittedTsOf
    Malformed <- SecondIsMalformed
    BatchSize = 2
    MaxCrashes = 1
    MaxFaults = 1
INVARIANTS NoAlertIsLost NoFalseAlarm
PROPERTY EveryAlertSettles
