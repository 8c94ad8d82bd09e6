SPECIFICATION Spec

CONSTANTS
    hire = hire
    again = again
    leave = leave
    fix = fix
    other = other
    Ops = {leave}
    Workers = {w1}
    NoOp = NoOp
    Kind <- KindOf
    RecordOf <- OwnRecord
    Submitted = {}
    CliPlans = {}
    StoresPlan = TRUE
    SlowRuns = FALSE
    Faults <- Nothing
    MaxMishaps = 0

INVARIANT VerifiedIsReal
CHECK_DEADLOCK TRUE
