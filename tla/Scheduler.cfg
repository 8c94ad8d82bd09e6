SPECIFICATION FairSpec

CONSTANTS
    Order <- ThreeProviders
    Interval <- Intervals
    Idle = 3
    Round = 12
    MaxRun = 5
    MaxLag = 1
    MaxLate = 40

INVARIANT TypeOK
INVARIANT SlotsOnCadence
PROPERTY EveryProviderRunsAgain
PROPERTY StopIsHeeded
CHECK_DEADLOCK FALSE
