SPECIFICATION Spec
CONSTANTS
    MinConfirmSamples = 2
    ConfirmFor = 2
    SampleTimeout = 3
    Cooldown = 7
    ThawAfter = 4
    ObservationTimeout = 5
    MaxBars = 6
    Gaps = {1, 2, 4}
INVARIANTS TriggerInv TransitionsAreJustified
CHECK_DEADLOCK FALSE
