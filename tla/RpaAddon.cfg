SPECIFICATION FairSpec

CONSTANTS
    Jobs = {1, 2}
    Workers = {w1, w2}
    Hosts = {h1}
    HostOf <- OneHost
    Backend = "addon"
    Invalid = {2}
    NoJob = NoJob
    WriteTries = 1
    CrashPoints <- Anywhere
    SlowRuns = TRUE
    UnconfirmedEffects = TRUE
    LedgerFaults = TRUE
    MaxAttempts = 2
    MaxMishaps = 1

INVARIANT ClaimExclusive
PROPERTY LifecycleSpec
PROPERTY RunningEnds
 
CHECK_DEADLOCK TRUE
