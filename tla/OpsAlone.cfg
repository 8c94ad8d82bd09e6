SPECIFICATION FairSpec

CONSTANTS
    hire = hire
    again = again
    leave = leave
    fix = fix
    other = other
    Ops = {hire, fix, other}
    Workers = {w1}
    NoOp = NoOp
    Kind <- KindOf
    RecordOf <- NewRecord
    Submitted = {fix}
    CliPlans = {}
    StoresPlan = TRUE
    SlowRuns = TRUE
    Faults <- Everything
    MaxMishaps = 2

INVARIANT ExecutedOnce
 
PROPERTY ApprovalsAreAnswered
PROPERTY RunningEnds
CHECK_DEADLOCK TRUE
