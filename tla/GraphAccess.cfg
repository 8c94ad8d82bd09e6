SPECIFICATION Spec

CONSTANTS
    MaxRetries = 2
    Backoff = 1
    BackoffMax = 1
    MaxRetryAfter = 1
    Advice <- HostileAdvice
    NoAdvice = NoAdvice
    Tokens = {t1, t2, t3, t4}
    NoToken = NoToken
    Life = 3
    Margin = 1
    Pages = {1, 2, 3, 4}
    NoPage = NoPage
    Chains <- SampleChains
    MaxPages = 3
    MaxCalls = 3

INVARIANT TypeOK
 
INVARIANT CarriedOutOnce
 
 
CHECK_DEADLOCK TRUE
