SPECIFICATION Spec

CONSTANTS
    Calendars = {"us", "de"}
    Holidays = {"h1", "h2", "h3"}
    FeedOf <- Feeds
    Users = {"ann"}
    Posts = {"p1"}
    AuthorOf <- Authors
    Anonymous = "nobody"
    Contacts = {1, 2}
    Places = {"rome", "oslo"}
    Currencies = {"usd"}
    ApiRates = {20, 32}
    Divisors = {2}
    LastDate = 3
    Threshold = 50
    Bodies = {"c"}
    Versions = {"v1", "v2"}
    MaxMishaps = 1
    MaxChanges = 3
    ChangesOf <- Changes

INVARIANT TypeOK
INVARIANT AccountedOnce
INVARIANT QuietRuns
INVARIANT OnceForGood
 
 
 
CHECK_DEADLOCK TRUE
