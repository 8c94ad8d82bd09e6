SPECIFICATION FairSpec

CONSTANTS
    Configs = {c1, c2}
    Workers = {w1, w2}
    NoConfig = NoConfig
    Faults <- Harmless
    MaxMishaps = 1

INVARIANT RunningIsAttended
PROPERTY RequestsAreAnswered
CHECK_DEADLOCK TRUE
