SPECIFICATION Spec
CONSTANTS
    Replica = {r1, r2}
    MinConfirmSamples = 1
    ConfirmFor = 0
    SampleTimeout = 2
    Cooldown = 3
    ThawAfter = 2
    ObservationTimeout = 2
    SessionWarmup = 1
    RearmBars = 1
    GapMultiple = 2
    MaxMinute = 6
    MaxStep = 3
    MaxExits = 1
    MaxLosses = 1
SYMMETRY ReplicaSymmetry
INVARIANTS AlternatesAcrossFailovers FailoverIsSeamless CooldownSurvivesFailover
PROPERTIES FreezeIsBounded ThresholdMeansMarketMoved ObservationLostMeansBlind
CHECK_DEADLOCK FALSE
