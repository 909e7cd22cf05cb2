\* Two calls of one key at once.
CONSTANTS
    MaxRows = 1
    Rows0 = 1
    PageLimit = 2
    RateLimit = 2
    MaxVisits = 1
    MaxRuns = 2
    Tabs = {t1}
    Keys = {k1}
    Requests = {r1, r2}
    Mixes <- KeysMix
    None = None
SPECIFICATION FairSpec
INVARIANT KeyRunsOnce
\* The system may stop: no run is left.
CHECK_DEADLOCK FALSE
