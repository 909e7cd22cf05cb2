\* Requests that are counted, refused and cut short.
CONSTANTS
    MaxRows = 1
    Rows0 = 1
    PageLimit = 2
    RateLimit = 1
    MaxVisits = 1
    MaxRuns = 2
    Tabs = {t1}
    Keys = {k1}
    Requests = {r1, r2}
    Mixes <- FailingMix
    None = None
SPECIFICATION FairSpec
PROPERTY LimitEnds
\* The system may stop: no run is left.
CHECK_DEADLOCK FALSE
