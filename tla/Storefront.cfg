\* One tab over a list of up to four rows, one idempotency key, two requests.
CONSTANTS
    MaxRows = 4
    Rows0 = 3
    PageLimit = 2
    RateLimit = 2
    MaxVisits = 3
    MaxRuns = 2
    Tabs = {t1}
    Keys = {k1}
    Requests = {r1, r2}
    Mixes <- AllMixes
    None = None
SPECIFICATION FairSpec
INVARIANTS TypeOK NothingIsSkipped ReplaysTheAnswer
PROPERTIES WalkEnds LimitIsForgotten
\* The system may stop: no visit is left.
CHECK_DEADLOCK FALSE
