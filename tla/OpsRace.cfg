SPECIFICATION Spec

CONSTANTS
    hire = hire
    again = again
    leave = leave
    fix = fix
    other = other
    Ops = {hire, again}
    Workers = {w1, w2}
    NoOp = NoOp
    Kind <- KindOf
    RecordOf <- OwnRecord
    Submitted = {}
    CliPlans = {again}
    StoresPlan = TRUE
    SlowRuns = TRUE
    Faults <- Nothing
    MaxMishaps = 0

SYMMETRY WorkerSymmetry
INVARIANT OnlyApprovedIsExecuted
INVARIANT VerifiedHireIsReal
CHECK_DEADLOCK TRUE
