SPECIFICATION Spec

CONSTANTS
    Configs = {c1, c2}
    Workers = {w1}
    NoConfig = NoConfig
    Faults <- Everything
    MaxMishaps = 4

INVARIANT DoneIsTrue
 
CHECK_DEADLOCK TRUE
