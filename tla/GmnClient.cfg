\* Two requests or primes, two sessions after one another, two credentials.
SPECIFICATION Spec
CONSTANTS
    Requests = {r1, r2}
    NoRequest = none
    MaxSessions = 2
    MaxTokens = 2
CHECK_DEADLOCK FALSE
INVARIANTS
    ActedOnAtMostOnce
    RefusalsAreRetried
    IdleIsUnreferenced
    NoSessionLeaks
PROPERTIES
    RequestsSettle
