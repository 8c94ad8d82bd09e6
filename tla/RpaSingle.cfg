SPECIFICATION Spec

CONSTANTS
    Jobs = {1, 2}
    Workers = {w1}
    Hosts = {h1}
    HostOf <- OneHost
    Backend = "studio"
    Invalid = {}
    NoJob = NoJob
    WriteTries = 3
    CrashPoints <- EffectIsSafe
    SlowRuns = TRUE
    UnconfirmedEffects = FALSE
    LedgerFaults = FALSE
    MaxAttempts = 4
    MaxMishaps = 4

INVARIANT CompletionIsReal
INVARIANT AtMostOneEffect
 
CHECK_DEADLOCK TRUE
